------------------------- MODULE IndexCache_proofs -------------------------
(***************************************************************************)
(* A list of indexes finds all that is in the directory and nothing else,  *)
(* .midx files are right, and the loop of bup midx --auto ends, for any    *)
(* indexes, any number of writers, all limits and any number of failures   *)
(* and removals.                                                           *)
(***************************************************************************)
EXTENDS IndexCache, FiniteSetTheorems, WellFoundedInduction, TLAPS

-----------------------------------------------------------------------------
(***************************************************************************)
(* Orders of files                                                         *)
(***************************************************************************)

\* A way of sorting files has only files of the set it sorts.
LEMMA SortedAreThere ==
    ASSUME NEW S, NEW s \in BiggestFirst(S)
    PROVE  \A k \in DOMAIN s : s[k] \in S
<1>1. PICK T \in SUBSET S : s \in SetToSeqs(T)
  BY DEF BiggestFirst, SetToAllKPermutations
<1>2. QED
  BY <1>1 DEF SetToSeqs

\* It is a sequence as long as the set is big.
LEMMA SortedIsSeq ==
    ASSUME NEW S, IsFiniteSet(S), NEW s \in BiggestFirst(S)
    PROVE  s \in Seq(S) /\ Len(s) = Cardinality(S) /\ Cardinality(S) \in Nat
<1>1. PICK T \in SUBSET S : s \in SetToSeqs(T)
  BY DEF BiggestFirst, SetToAllKPermutations
<1>2. IsFiniteSet(T)
  BY FS_Subset
<1>3. Cardinality(T) \in Nat /\ Cardinality(S) \in Nat
  BY <1>2, FS_CardinalityType
<1>4. s \in [1..Cardinality(T) -> T]
  BY <1>1 DEF SetToSeqs
<1>5. Len(s) = Cardinality(S)
  BY DEF BiggestFirst
<1>6. QED
  BY <1>3, <1>4, <1>5

\* What do_midx_dir keeps was there.
LEMMA NeededAreThere ==
    ASSUME NEW S, NEW s \in BiggestFirst(S), NEW have
    PROVE  Needed(s, have) \subseteq S
  BY SortedAreThere DEF Needed

\* And it is finite.
LEMMA NeededIsFinite ==
    ASSUME NEW S, IsFiniteSet(S), NEW s \in BiggestFirst(S), NEW have
    PROVE  IsFiniteSet(Needed(s, have))
  BY NeededAreThere, FS_Subset

-----------------------------------------------------------------------------
(***************************************************************************)
(* A turn of the loop of bup midx --auto                                   *)
(***************************************************************************)

\* The last group of a list has fewer files than a group.
LEMMA RestOfGroups ==
    ASSUME NEW n \in Nat
    PROVE  n % MaxFiles \in 0..n /\ n % MaxFiles < MaxFiles /\ MaxFiles \in Nat
<1>1. MaxFiles \in Nat /\ 1 < MaxFiles
  BY IndexCacheParameters
<1>2. QED
  BY <1>1

\* A group that is merged has at least two files, so it begins before the
\* last of the files: there are fewer such groups than files.
LEMMA FewerGroups ==
    ASSUME NEW r, NEW n \in Nat, 0 < n, Len(r) = n, DOMAIN r = 1..n,
           NEW S, r \in Seq(S)
    PROVE  IsFiniteSet(DoMidxGroup(r)) /\ Cardinality(DoMidxGroup(r)) < n
<1> DEFINE rest == n - (n % MaxFiles) + 1
           GroupAt(k) == SubSeq(r, k, IF k = rest /\ n % MaxFiles # 0 THEN n ELSE k + MaxFiles - 1)
           Big(g) == Len(g) >= 2 /\ (Total(Range(g)) < Enough => Len(g) >= Few)
           Begins == {k \in 1..(n - 1) : GroupAt(k) \in Groups(r) /\ Big(GroupAt(k))}
           MergeAt == [k \in Begins |-> Merge(GroupAt(k))]
<1>1. \A g \in Groups(r) : Big(g) => \E k \in Begins : g = GroupAt(k)
  <2>1. SUFFICES ASSUME NEW g \in Groups(r), Big(g)
                 PROVE  \E k \in 1..(n - 1) : g = GroupAt(k)
    BY DEF Begins
  <2>2. CASE \E k \in DOMAIN r : k + MaxFiles - 1 <= n /\ g = SubSeq(r, k, k + MaxFiles - 1)
    <3>1. PICK k \in DOMAIN r : k + MaxFiles - 1 <= n /\ g = SubSeq(r, k, k + MaxFiles - 1)
      BY <2>2
    <3>2. k \in 1..(n - 1)
      BY <3>1, IndexCacheParameters
    <3>3. ~(k = rest /\ n % MaxFiles # 0)
      <4>1. PICK t \in 0..n : t = n % MaxFiles /\ t < MaxFiles /\ MaxFiles \in Nat
        BY RestOfGroups
      <4>2. QED
        BY <3>1, <4>1
    <3>4. QED
      BY <3>1, <3>2, <3>3
  <2>3. CASE n % MaxFiles # 0 /\ g = SubSeq(r, rest, n)
    <3>1. rest \in Nat /\ 1 <= rest /\ rest <= n
      <4>1. PICK t \in 0..n : t = n % MaxFiles
        BY RestOfGroups
      <4>2. rest = n - t + 1 /\ t # 0
        BY <2>3, <4>1
      <4>3. QED
        BY <4>2
    <3>2. Len(g) = n - rest + 1
      BY <2>3, <3>1
    <3>3. rest \in 1..(n - 1)
      BY <2>1, <3>1, <3>2
    <3>4. QED
      BY <2>3, <3>3
  <2>4. QED
    BY <2>1, <2>2, <2>3 DEF Groups
<1>2. DoMidxGroup(r) = {Merge(GroupAt(k)) : k \in Begins}
  <2>1. \A k \in Begins : GroupAt(k) \in Groups(r) /\ Big(GroupAt(k))
    OBVIOUS
  <2>2. DoMidxGroup(r) = {Merge(g) : g \in {h \in Groups(r) : Big(h)}}
    BY DEF DoMidxGroup
  <2> HIDE DEF GroupAt, Big, Begins
  <2>3. QED
    BY <1>1, <2>1, <2>2
<1>3. IsFiniteSet(Begins) /\ Cardinality(Begins) <= n - 1
  <2>1. IsFiniteSet(1..(n - 1)) /\ Cardinality(1..(n - 1)) = n - 1
    BY FS_Interval
  <2>2. QED
    BY <2>1, FS_Subset
<1>4. MergeAt \in Surjection(Begins, DoMidxGroup(r))
  <2> HIDE DEF GroupAt, Begins
  <2>1. QED
    BY <1>2 DEF Surjection
<1> HIDE DEF MergeAt, Begins
<1>5. IsFiniteSet(DoMidxGroup(r)) /\ Cardinality(DoMidxGroup(r)) <= Cardinality(Begins)
  BY <1>3, <1>4, FS_Surjection
<1>6. Cardinality(DoMidxGroup(r)) \in Nat /\ Cardinality(Begins) \in Nat
  BY <1>3, <1>5, FS_CardinalityType
<1>7. QED
  BY <1>3, <1>5, <1>6

\* The biggest files, which are left alone.
LEMMA LeftAlone ==
    ASSUME NEW s
    PROVE  /\ IsFiniteSet({s[k] : k \in 1..(Lwm - 1)})
           /\ Cardinality({s[k] : k \in 1..(Lwm - 1)}) <= Lwm - 1
<1> DEFINE f == [k \in 1..(Lwm - 1) |-> s[k]]
<1>1. f \in Surjection(1..(Lwm - 1), {s[k] : k \in 1..(Lwm - 1)})
  BY DEF Surjection
<1>2. IsFiniteSet(1..(Lwm - 1)) /\ Cardinality(1..(Lwm - 1)) = Lwm - 1
  <2>1. Lwm \in Nat /\ 0 < Lwm
    BY IndexCacheParameters
  <2>2. QED
    BY <2>1, FS_Interval
<1>3. QED
  BY <1>1, <1>2, FS_Surjection

\* More files than the limit come to fewer.
LEMMA FewerLeft ==
    ASSUME NEW F, IsFiniteSet(F), Cardinality(F) > Hwm, NEW s \in BiggestFirst(F)
    PROVE  IsFiniteSet(Left(s)) /\ Cardinality(Left(s)) < Cardinality(F)
<1> DEFINE n == Len(s)
           tail == SubSeq(s, Lwm, n)
           alone == {s[k] : k \in 1..(Lwm - 1)}
<1>1. s \in Seq(F) /\ n = Cardinality(F) /\ n \in Nat
  BY SortedIsSeq
<1>2. Lwm <= n /\ Lwm \in Nat /\ 0 < Lwm
  BY <1>1, IndexCacheParameters
<1>3. tail \in Seq(F) /\ Len(tail) = n - Lwm + 1
  BY <1>1, <1>2
<1>4. Reverse(tail) \in Seq(F) /\ Len(Reverse(tail)) = n - Lwm + 1
  BY <1>2, <1>3 DEF Reverse
<1>5. DOMAIN Reverse(tail) = 1..(n - Lwm + 1)
  BY <1>4
<1>6. IsFiniteSet(Merged(s)) /\ Cardinality(Merged(s)) < n - Lwm + 1
  <2> DEFINE r == Reverse(tail)
             m == n - Lwm + 1
  <2>1. m \in Nat /\ 0 < m
    BY <1>1, <1>2
  <2>2. r \in Seq(F) /\ Len(r) = m /\ DOMAIN r = 1..m
    BY <1>4, <1>5
  <2>3. Merged(s) = DoMidxGroup(r)
    BY DEF Merged
  <2> HIDE DEF r, m
  <2>4. IsFiniteSet(DoMidxGroup(r)) /\ Cardinality(DoMidxGroup(r)) < m
    BY <2>1, <2>2, FewerGroups
  <2>5. QED
    BY <2>3, <2>4 DEF m
<1>7. IsFiniteSet(alone) /\ Cardinality(alone) <= Lwm - 1
  BY LeftAlone
<1>8. IsFiniteSet(Left(s)) /\ Cardinality(Left(s)) =
         Cardinality(Merged(s)) + Cardinality(alone) - Cardinality(Merged(s) \cap alone)
  BY <1>6, <1>7, FS_Union DEF Left
<1>9. Cardinality(Merged(s) \cap alone) \in Nat
  BY <1>6, FS_Intersection, FS_CardinalityType
<1>10. Cardinality(Merged(s)) \in Nat /\ Cardinality(alone) \in Nat
  BY <1>6, <1>7, FS_CardinalityType
<1> HIDE DEF n, alone
<1>11. QED
  BY <1>1, <1>2, <1>6, <1>7, <1>8, <1>9, <1>10

-----------------------------------------------------------------------------
(***************************************************************************)
(* The inductive invariant                                                 *)
(***************************************************************************)

\* The directory has finitely many files, and merged ones are no indexes.
FilesInv ==
    /\ idxs \subseteq Idx
    /\ IsFiniteSet(midxs)
    /\ midxs \cap Idx = {} /\ listed \cap Idx = {}

\* What bup midx still counts is more than the limit.
LoopInv ==
    /\ pc \in [Writers -> {"idle", "midx", "merge", "bloom", "write", "rename"}]
    /\ DOMAIN all = Writers
    /\ \A w \in Writers : pc[w] = "merge" =>
          IsFiniteSet(all[w]) /\ Cardinality(all[w]) > Hwm

\* Indexes are removed only while nobody has a list, so that what a list has
\* open is there; from the moment it has listed the directory it misses none
\* of what was there when it began.
ListInv ==
    /\ gc => rpc = "closed"
    /\ rpc = "closed" => ridxs = {} /\ rmidxs = {}
    /\ ridxs \cup Covered(rmidxs) \subseteq idxs
    /\ rpc \in {"midx", "idx", "bloom", "ready"} => seen \subseteq idxs
    /\ rpc \in {"bloom", "ready"} => seen \subseteq ridxs \cup Covered(rmidxs)

CacheInv == FilesInv /\ LoopInv /\ ListInv

\* A writer that acts is a writer.
LEMMA ActiveAreWriters == Active \subseteq Writers
  BY IndexCacheParameters DEF Active

\* A .midx that is not broken has only indexes that are there.
LEMMA NotBroken ==
    ASSUME NEW S, S \cap Idx = {}
    PROVE  Covered({m \in S : ~Broken(m)}) \subseteq idxs
  BY DEF Covered, Broken, MissingIdxs, IsIdx

\* Fewer files cover fewer indexes.
LEMMA CoveredMonotonic ==
    ASSUME NEW S, NEW T, S \subseteq T
    PROVE  Covered(S) \subseteq Covered(T)
  BY DEF Covered

\* What a set of files covers, in parts.
LEMMA CoveredUnion ==
    ASSUME NEW S, NEW T
    PROVE  Covered(S \cup T) = Covered(S) \cup Covered(T)
  BY DEF Covered

\* No file covers nothing.
LEMMA CoveredEmpty == Covered({}) = {}
  BY DEF Covered

-----------------------------------------------------------------------------
(***************************************************************************)
(* The files                                                               *)
(***************************************************************************)

\* do_midx_dir leaves finitely many files and removes no index.
LEMMA FilesMidxScan ==
    ASSUME CacheInv, NEW w \in Active, MidxScan(w)
    PROVE  FilesInv'
<1>1. PICK s \in BiggestFirst({m \in midxs : ~Broken(m)}) : midxs' = Needed(s, {})
  BY DEF MidxScan
<1>2. IsFiniteSet({m \in midxs : ~Broken(m)})
  BY FS_Subset DEF CacheInv, FilesInv
<1>3. midxs' \subseteq midxs /\ IsFiniteSet(midxs')
  BY <1>1, <1>2, NeededAreThere, NeededIsFinite
<1>4. QED
  BY <1>3 DEF CacheInv, FilesInv, MidxScan, files

\* Nor does the merging.
LEMMA FilesMidxMerge ==
    ASSUME CacheInv, NEW w \in Active, MidxMerge(w)
    PROVE  FilesInv'
<1>1. PICK s \in BiggestFirst(all[w]) : midxs' = midxs \cup (Merged(s) \ Idx)
  BY DEF MidxMerge
<1>2. IsFiniteSet(all[w]) /\ Cardinality(all[w]) > Hwm
  BY ActiveAreWriters DEF CacheInv, LoopInv, MidxMerge
<1>3. IsFiniteSet(Left(s))
  BY <1>2, FewerLeft
<1>4. IsFiniteSet(midxs')
  <2>1. Merged(s) \ Idx \in SUBSET Left(s)
    BY DEF Left
  <2>2. IsFiniteSet(Merged(s) \ Idx)
    BY <1>3, <2>1, FS_Subset
  <2>3. QED
    BY <1>1, <2>2, FS_Union DEF CacheInv, FilesInv
<1>5. QED
  BY <1>1, <1>4 DEF CacheInv, FilesInv, MidxMerge, files

\* PackIdxList removes only .midx files.
LEMMA FilesRefreshMidx ==
    ASSUME CacheInv, RefreshMidx
    PROVE  FilesInv'
<1>1. midxs' \subseteq midxs
  BY DEF RefreshMidx
<1>2. IsFiniteSet(midxs')
  BY <1>1, FS_Subset DEF CacheInv, FilesInv
<1>3. QED
  BY <1>1, <1>2 DEF CacheInv, FilesInv, RefreshMidx

\* The directory stays one of indexes and merged indexes.
LEMMA FilesNext ==
    ASSUME CacheInv, [Next]_vars
    PROVE  FilesInv'
<1> USE DEF CacheInv, FilesInv
<1>1. ASSUME NEW w \in Active, NEW i \in Idx, AddIdx(w, i) \/ SyncRemove(w, i)
      PROVE  FilesInv'
  BY <1>1 DEF AddIdx, SyncRemove, files
<1>2. ASSUME NEW w \in Active, SyncNothing(w) \/ Fail(w) \/ BloomFails(w)
      PROVE  FilesInv'
  BY <1>2 DEF SyncNothing, Fail, BloomFails, Stops, dir, files
<1>3. ASSUME NEW w \in Active, WriterStep(w)
      PROVE  FilesInv'
  <2>1. CASE MidxScan(w)
    BY <2>1, FilesMidxScan
  <2>2. CASE MidxMerge(w)
    BY <2>2, FilesMidxMerge
  <2>3. CASE MidxDies(w)
    BY <2>3 DEF MidxDies, dir, files
  <2>4. CASE BloomScan(w)
    BY <2>4 DEF BloomScan, dir, files
  <2>5. CASE BloomWrite(w)
    BY <2>5 DEF BloomWrite, files
  <2>6. CASE BloomRename(w)
    BY <2>6 DEF BloomRename, files
  <2>7. QED
    BY <1>3, <2>1, <2>2, <2>3, <2>4, <2>5, <2>6 DEF WriterStep
<1>4. CASE GcClear \/ GcSweep
  BY <1>4, FS_EmptySet DEF GcClear, GcSweep, files
<1>5. CASE ReaderNext
  <2>1. CASE RefreshBegin
    BY <2>1 DEF RefreshBegin, dir
  <2>2. CASE RefreshMidx
    BY <2>2, FilesRefreshMidx
  <2>3. CASE RefreshFails \/ Close
    BY <2>3 DEF RefreshFails, Close, Nothing, dir
  <2>4. CASE RefreshIdxs \/ RefreshBloom \/ CloseTemps
    BY <2>4 DEF RefreshIdxs, RefreshBloom, CloseTemps, dir
  <2>5. CASE \E o \in Objs(Idx) : Exists(o)
    BY <2>5 DEF Exists, dir
  <2>6. QED
    BY <1>5, <2>1, <2>2, <2>3, <2>4, <2>5 DEF ReaderNext
<1>6. CASE UNCHANGED vars
  BY <1>6 DEF vars, dir, files
<1>7. QED
  BY <1>1, <1>2, <1>3, <1>4, <1>5, <1>6 DEF Next

-----------------------------------------------------------------------------
(***************************************************************************)
(* The loop                                                                *)
(***************************************************************************)

\* do_midx_dir goes into the loop with more files than the limit.
LEMMA LoopMidxScan ==
    ASSUME CacheInv, NEW w \in Active, MidxScan(w)
    PROVE  LoopInv'
<1>1. PICK s \in BiggestFirst({m \in midxs : ~Broken(m)}) :
         LET kept == Needed(s, {})
             found == kept \cup (idxs \ Covered(kept))
             many == Cardinality(found) > Hwm
         IN /\ midxs' = kept
            /\ all' = [all EXCEPT ![w] = IF many THEN found ELSE {}]
            /\ pc' = [pc EXCEPT ![w] = IF many THEN "merge" ELSE "bloom"]
  BY DEF MidxScan
<1> DEFINE kept == Needed(s, {})
           found == kept \cup (idxs \ Covered(kept))
<1>2. IsFiniteSet(kept)
  <2>1. IsFiniteSet({m \in midxs : ~Broken(m)})
    BY FS_Subset DEF CacheInv, FilesInv
  <2>2. QED
    BY <2>1, NeededIsFinite
<1>3. IsFiniteSet(idxs \ Covered(kept))
  BY FS_Subset, IndexCacheParameters DEF CacheInv, FilesInv
<1>4. IsFiniteSet(found)
  BY <1>2, <1>3, FS_Union
<1> HIDE DEF kept, found
<1>5. /\ all' = [all EXCEPT ![w] = IF Cardinality(found) > Hwm THEN found ELSE {}]
      /\ pc' = [pc EXCEPT ![w] = IF Cardinality(found) > Hwm THEN "merge" ELSE "bloom"]
  BY <1>1 DEF kept, found
<1>6. QED
  BY <1>4, <1>5, ActiveAreWriters DEF CacheInv, LoopInv

\* It stays there only with more than that.
LEMMA LoopMidxMerge ==
    ASSUME CacheInv, NEW w \in Active, MidxMerge(w)
    PROVE  LoopInv'
<1>1. PICK s \in BiggestFirst(all[w]) :
         LET many == Cardinality(Left(s)) > Hwm
         IN /\ midxs' = midxs \cup (Merged(s) \ Idx)
            /\ all' = [all EXCEPT ![w] = IF many THEN Left(s) ELSE {}]
            /\ pc' = [pc EXCEPT ![w] = IF many THEN "merge" ELSE "bloom"]
  BY DEF MidxMerge
<1>2. IsFiniteSet(all[w]) /\ Cardinality(all[w]) > Hwm
  BY ActiveAreWriters DEF CacheInv, LoopInv, MidxMerge
<1>3. IsFiniteSet(Left(s))
  BY <1>2, FewerLeft
<1>4. QED
  BY <1>1, <1>3, ActiveAreWriters DEF CacheInv, LoopInv

\* What the loop counts is finite and above the limit while it runs.
LEMMA LoopNext ==
    ASSUME CacheInv, [Next]_vars
    PROVE  LoopInv'
<1> USE DEF CacheInv, LoopInv
<1>1. ASSUME NEW w \in Active, NEW i \in Idx, AddIdx(w, i) \/ SyncRemove(w, i)
      PROVE  LoopInv'
  BY <1>1, ActiveAreWriters DEF AddIdx, SyncRemove
<1>2. ASSUME NEW w \in Active, SyncNothing(w) \/ Fail(w) \/ BloomFails(w)
      PROVE  LoopInv'
  BY <1>2, ActiveAreWriters DEF SyncNothing, Fail, BloomFails, Stops
<1>3. ASSUME NEW w \in Active, WriterStep(w)
      PROVE  LoopInv'
  <2>1. CASE MidxScan(w)
    BY <2>1, LoopMidxScan
  <2>2. CASE MidxMerge(w)
    BY <2>2, LoopMidxMerge
  <2>3. CASE MidxDies(w)
    BY <2>3, ActiveAreWriters DEF MidxDies
  <2>4. CASE BloomScan(w)
    BY <2>4, ActiveAreWriters DEF BloomScan
  <2>5. CASE BloomWrite(w)
    BY <2>5, ActiveAreWriters DEF BloomWrite
  <2>6. CASE BloomRename(w)
    BY <2>6, ActiveAreWriters DEF BloomRename
  <2>7. QED
    BY <1>3, <2>1, <2>2, <2>3, <2>4, <2>5, <2>6 DEF WriterStep
<1>4. CASE GcClear \/ GcSweep
  BY <1>4 DEF GcClear, GcSweep, writing
<1>5. CASE ReaderNext
  <2>1. UNCHANGED writing
    BY <1>5 DEF ReaderNext, RefreshBegin, RefreshMidx, RefreshFails, RefreshIdxs,
                RefreshBloom, Exists, CloseTemps, Close
  <2>2. QED
    BY <2>1 DEF writing
<1>6. CASE UNCHANGED vars
  BY <1>6 DEF vars, writing
<1>7. QED
  BY <1>1, <1>2, <1>3, <1>4, <1>5, <1>6 DEF Next

-----------------------------------------------------------------------------
(***************************************************************************)
(* The list                                                                *)
(***************************************************************************)

\* A refreshed list drops .midx files and takes in no index.
LEMMA ListRefreshBegin ==
    ASSUME CacheInv, RefreshBegin
    PROVE  ListInv'
<1>1. rmidxs' \subseteq rmidxs /\ UNCHANGED <<ridxs, idxs, gc>>
  BY DEF RefreshBegin, dir
<1>2. Covered(rmidxs') \subseteq Covered(rmidxs)
  BY <1>1, CoveredMonotonic
<1>3. QED
  BY <1>1, <1>2 DEF CacheInv, ListInv, RefreshBegin

\* It opens only .midx files that are not broken.
LEMMA ListRefreshMidx ==
    ASSUME CacheInv, RefreshMidx
    PROVE  ListInv'
<1> DEFINE whole == {m \in listed : ~Broken(m)}
<1>1. PICK s \in BiggestFirst(whole) :
         /\ rmidxs' = rmidxs \cup Needed(s, Covered(rmidxs))
         /\ ridxs' = ridxs \ Covered(rmidxs \cup Needed(s, Covered(rmidxs)))
  BY DEF RefreshMidx
<1>2. Covered(Needed(s, Covered(rmidxs))) \subseteq idxs
  <2>1. Covered(whole) \subseteq idxs
    BY NotBroken DEF CacheInv, FilesInv
  <2>2. QED
    BY <2>1, NeededAreThere, CoveredMonotonic
<1>3. Covered(rmidxs') \subseteq idxs
  BY <1>1, <1>2, CoveredUnion DEF CacheInv, ListInv
<1>4. ridxs' \subseteq ridxs
  BY <1>1
<1>5. UNCHANGED <<idxs, gc, seen>> /\ rpc' = "idx" /\ rpc = "midx"
  BY DEF RefreshMidx, ghosts
<1>6. QED
  BY <1>3, <1>4, <1>5 DEF CacheInv, ListInv

\* Nothing that a list has open goes away.
LEMMA ListNext ==
    ASSUME CacheInv, [Next]_vars
    PROVE  ListInv'
<1> USE DEF CacheInv, ListInv
<1>1. ASSUME NEW w \in Active, NEW i \in Idx, AddIdx(w, i) \/ SyncRemove(w, i)
      PROVE  ListInv'
  <2>1. UNCHANGED <<gc, rpc, rmidxs, ridxs, seen>> /\ Covered(rmidxs)' = Covered(rmidxs)
    BY <1>1 DEF AddIdx, SyncRemove, files, Covered, Covers, Names, IsIdx
  <2>2. CASE AddIdx(w, i)
    BY <2>1, <2>2 DEF AddIdx
  <2>3. CASE SyncRemove(w, i)
    BY <2>1, <2>3, CoveredEmpty DEF SyncRemove
  <2>4. QED
    BY <1>1, <2>2, <2>3
<1>2. ASSUME NEW w \in Active, SyncNothing(w) \/ Fail(w) \/ BloomFails(w) \/ WriterStep(w)
      PROVE  ListInv'
  <2>1. UNCHANGED <<idxs, gc, rpc, rmidxs, ridxs, seen>>
    BY <1>2 DEF SyncNothing, Fail, BloomFails, Stops, WriterStep, MidxScan, MidxMerge,
                MidxDies, BloomScan, BloomWrite, BloomRename, dir, files, ghosts
  <2>2. Covered(rmidxs)' = Covered(rmidxs)
    BY <2>1
  <2>3. QED
    BY <2>1, <2>2
<1>3. CASE GcClear \/ GcSweep
  <2>1. rpc = "closed" /\ UNCHANGED <<rpc, rmidxs, ridxs, seen>>
    BY <1>3 DEF GcClear, GcSweep, files, ghosts
  <2>2. Covered(rmidxs)' = {}
    BY <2>1, CoveredEmpty
  <2>3. QED
    BY <2>1, <2>2
<1>4. CASE ReaderNext
  <2>1. CASE RefreshBegin
    BY <2>1, ListRefreshBegin
  <2>2. CASE RefreshMidx
    BY <2>2, ListRefreshMidx
  <2>3. CASE RefreshFails \/ Close
    BY <2>3, CoveredEmpty DEF RefreshFails, Close, Nothing, dir
  <2>4. CASE RefreshIdxs
    <3>1. UNCHANGED <<idxs, gc, rmidxs, seen>> /\ Covered(rmidxs)' = Covered(rmidxs)
      BY <2>4 DEF RefreshIdxs, dir, ghosts
    <3>2. QED
      BY <2>4, <3>1 DEF RefreshIdxs
  <2>5. CASE RefreshBloom \/ \E o \in Objs(Idx) : Exists(o)
    <3>1. UNCHANGED <<idxs, gc, ridxs, rmidxs, seen>> /\ Covered(rmidxs)' = Covered(rmidxs)
      BY <2>5 DEF RefreshBloom, Exists, dir, ghosts
    <3>2. /\ rpc \in {"bloom", "ready"} /\ rpc' = "ready"
      BY <2>5 DEF RefreshBloom, Exists
    <3>3. QED
      BY <3>1, <3>2
  <2>6. CASE CloseTemps
    BY <2>6, CoveredEmpty DEF CloseTemps, dir, ghosts
  <2>7. QED
    BY <1>4, <2>1, <2>2, <2>3, <2>4, <2>5, <2>6 DEF ReaderNext
<1>5. CASE UNCHANGED vars
  <2>1. UNCHANGED <<idxs, gc, rpc, rmidxs, ridxs, seen>> /\ Covered(rmidxs)' = Covered(rmidxs)
    BY <1>5 DEF vars, dir, files, ghosts
  <2>2. QED
    BY <2>1
<1>6. QED
  BY <1>1, <1>2, <1>3, <1>4, <1>5 DEF Next

-----------------------------------------------------------------------------
(***************************************************************************)
(* The theorems                                                            *)
(***************************************************************************)

\* An empty directory and a closed list satisfy it.
LEMMA CacheInit ==
    ASSUME Init
    PROVE  CacheInv
<1>1. FilesInv
  BY FS_EmptySet DEF Init, FilesInv
<1>2. LoopInv
  BY DEF Init, LoopInv
<1>3. ListInv
  BY CoveredEmpty DEF Init, ListInv
<1>4. QED
  BY <1>1, <1>2, <1>3 DEF CacheInv

\* The invariant that the others rest on: what is open in a list is there.
THEOREM CacheAlways == Spec => []CacheInv
<1>1. Init => CacheInv
  BY CacheInit
<1>2. CacheInv /\ [Next]_vars => CacheInv'
  BY FilesNext, LoopNext, ListNext DEF CacheInv
<1>3. QED
  BY <1>1, <1>2, PTL DEF Spec

\* exists (git.py) never says yes because of an index that was removed.
THEOREM SaysNoMoreAlways == Spec => []SaysNoMore
<1>1. CacheInv => SaysNoMore
  BY DEF CacheInv, ListInv, SaysNoMore
<1>2. QED
  BY <1>1, CacheAlways, PTL

\* Every turn of the loop of bup midx --auto leaves fewer files, for all
\* limits and sizes of groups.
THEOREM MidxConvergesAlways == Spec => []MidxConverges
<1>1. CacheInv => MidxConverges
  BY FewerLeft DEF CacheInv, LoopInv, MidxConverges
<1>2. QED
  BY <1>1, CacheAlways, PTL

-----------------------------------------------------------------------------
(***************************************************************************)
(* The lists of names and the rows of a merged file                        *)
(***************************************************************************)

\* A set of natural numbers has a least one.
LEMMA LeastNat ==
    ASSUME NEW T, T \subseteq Nat, T # {}
    PROVE  \E x \in T : \A y \in T : x <= y
<1> DEFINE Below == {p \in Nat \X Nat : p[1] < p[2]}
<1>1. IsWellFoundedOn(Below, Nat)
  BY NatLessThanWellFounded DEF OpToRel
<1>2. PICK x \in T : \A y \in T : ~(<<y, x>> \in Below)
  <2> HIDE DEF Below
  <2>1. QED
    BY <1>1, WFMin
<1>3. \A y \in T : y < x => <<y, x>> \in Below
  OBVIOUS
<1> HIDE DEF Below
<1>4. \A y \in T : ~(y < x)
  BY <1>2, <1>3
<1>5. QED
  BY <1>4

\* The tables of a file have a row for each object of each index it names.
RowsOf(names) == UNION {{<<o, k>> : o \in Contents[names[k]]} : k \in DOMAIN names}
Whole(f) == f.names \in Seq(Idx) /\ f.entries = RowsOf(f.names)
Sound(f) == IsIdx(f) \/ Whole(f)

\* An index is a table like that, with one name.
LEMMA SoundTable ==
    ASSUME NEW f, Sound(f)
    PROVE  Names(f) \in Seq(Idx) /\ Which(f) = RowsOf(Names(f))
<1>1. CASE IsIdx(f)
  BY <1>1 DEF IsIdx, Names, Which, RowsOf
<1>2. CASE ~IsIdx(f)
  BY <1>2 DEF Sound, Whole, Names, Which
<1>3. QED
  BY <1>1, <1>2

\* The first numbers.
LEMMA FirstNumbers ==
    ASSUME NEW m \in Nat
    PROVE  IsFiniteSet(1..m) /\ Cardinality(1..m) = m
  BY FS_Interval

\* What is listed before an input is finite.
LEMMA ListedIsFinite ==
    ASSUME NEW n \in Nat, NEW s, \A j \in 1..n : Names(s[j]) \in Seq(Idx),
           NEW k \in 1..(n + 1)
    PROVE  IsFiniteSet(ListedBefore(s, k)) /\ Base(s, k) \in Nat
<1> DEFINE at == [j \in 1..(k - 1) |-> {j} \X DOMAIN Names(s[j])]
           parts == {{j} \X DOMAIN Names(s[j]) : j \in 1..(k - 1)}
<1>1. at \in Surjection(1..(k - 1), parts)
  BY DEF Surjection
<1>2. IsFiniteSet(parts)
  BY <1>1, FS_Interval, FS_Surjection
<1>3. ASSUME NEW j \in 1..(k - 1)
      PROVE  IsFiniteSet({j} \X DOMAIN Names(s[j]))
  <2>1. Names(s[j]) \in Seq(Idx)
    OBVIOUS
  <2>2. DOMAIN Names(s[j]) = 1..Len(Names(s[j])) /\ Len(Names(s[j])) \in Nat
    BY <2>1
  <2>3. IsFiniteSet(DOMAIN Names(s[j]))
    BY <2>2, FS_Interval
  <2>4. QED
    BY <2>3, FS_Singleton, FS_Product
<1>4. IsFiniteSet(UNION parts)
  BY <1>2, <1>3, FS_UNION
<1>5. QED
  BY <1>4, FS_CardinalityType DEF ListedBefore, Base

\* The names of an input follow those of the ones before it.
LEMMA BaseNext ==
    ASSUME NEW n \in Nat, NEW s, \A j \in 1..n : Names(s[j]) \in Seq(Idx),
           NEW k \in 1..n
    PROVE  Base(s, k + 1) = Base(s, k) + Len(Names(s[k]))
<1> DEFINE own == {k} \X DOMAIN Names(s[k])
<1>1. ListedBefore(s, k + 1) = ListedBefore(s, k) \cup own
  <2>1. 1..((k + 1) - 1) = (1..(k - 1)) \cup {k}
    OBVIOUS
  <2>2. QED
    BY <2>1 DEF ListedBefore
<1>2. ListedBefore(s, k) \cap own = {}
  <2>1. \A x \in ListedBefore(s, k) : x[1] \in 1..(k - 1)
    BY DEF ListedBefore
  <2>2. \A x \in own : x[1] = k
    OBVIOUS
  <2>3. k \notin 1..(k - 1)
    OBVIOUS
  <2>4. QED
    BY <2>1, <2>2, <2>3
<1>3. IsFiniteSet(own) /\ Cardinality(own) = Len(Names(s[k]))
  <2>1. Names(s[k]) \in Seq(Idx)
    OBVIOUS
  <2>2. DOMAIN Names(s[k]) = 1..Len(Names(s[k])) /\ Len(Names(s[k])) \in Nat
    BY <2>1
  <2>3. IsFiniteSet(DOMAIN Names(s[k])) /\ Cardinality(DOMAIN Names(s[k])) = Len(Names(s[k]))
    BY <2>2, FirstNumbers
  <2>4. IsFiniteSet({k}) /\ Cardinality({k}) = 1
    BY FS_Singleton
  <2>5. IsFiniteSet(own) /\ Cardinality(own) = 1 * Cardinality(DOMAIN Names(s[k]))
    BY <2>3, <2>4, FS_Product
  <2>6. QED
    BY <2>2, <2>3, <2>5
<1>4. IsFiniteSet(ListedBefore(s, k)) /\ Base(s, k) \in Nat
  <2>1. k \in 1..(n + 1)
    OBVIOUS
  <2>2. QED
    BY <2>1, ListedIsFinite
<1> HIDE DEF own
<1>5. Cardinality(ListedBefore(s, k) \cup own) =
         Cardinality(ListedBefore(s, k)) + Cardinality(own) - Cardinality({})
  BY <1>2, <1>3, <1>4, FS_Union
<1>6. Cardinality(own) \in Nat /\ Cardinality({}) = 0
  BY <1>3, FS_CardinalityType, FS_EmptySet
<1>7. Base(s, k + 1) = Cardinality(ListedBefore(s, k) \cup own)
  BY <1>1 DEF Base
<1>8. Base(s, k + 1) = Base(s, k) + Cardinality(own)
  BY <1>4, <1>5, <1>6, <1>7 DEF Base
<1>9. QED
  BY <1>3, <1>8

\* Later inputs have greater positions.
LEMMA BaseMonotonic ==
    ASSUME NEW n \in Nat, NEW s, \A j \in 1..n : Names(s[j]) \in Seq(Idx),
           NEW k \in 1..(n + 1), NEW i \in 1..k
    PROVE  Base(s, i) <= Base(s, k)
<1>1. ListedBefore(s, i) \subseteq ListedBefore(s, k)
  BY DEF ListedBefore
<1>2. IsFiniteSet(ListedBefore(s, k))
  BY ListedIsFinite
<1>3. QED
  BY <1>1, <1>2, FS_Subset DEF Base

\* The first input's names come first.
LEMMA BaseFirst ==
    ASSUME NEW s
    PROVE  Base(s, 1) = 0
<1>1. ListedBefore(s, 1) = {}
  BY DEF ListedBefore
<1>2. QED
  BY <1>1, FS_EmptySet DEF Base

\* A position belongs to one input,
LEMMA OneInput ==
    ASSUME NEW n \in Nat, NEW s, \A j \in 1..n : Names(s[j]) \in Seq(Idx),
           NEW p \in Int, NEW i \in 1..n, NEW k \in 1..n,
           p - Base(s, i) \in DOMAIN Names(s[i]), p - Base(s, k) \in DOMAIN Names(s[k])
    PROVE  i = k
<1>1. ASSUME NEW a \in 1..n, NEW b \in 1..n, a < b,
             p - Base(s, a) \in DOMAIN Names(s[a]), p - Base(s, b) \in DOMAIN Names(s[b])
      PROVE  FALSE
  <2>1. Base(s, a + 1) = Base(s, a) + Len(Names(s[a]))
    BY BaseNext
  <2>2. Base(s, a + 1) <= Base(s, b)
    <3>1. b \in 1..(n + 1) /\ a + 1 \in 1..b
      BY <1>1
    <3>2. QED
      BY <3>1, BaseMonotonic
  <2>3. Base(s, a) \in Nat /\ Base(s, b) \in Nat
    <3>1. a \in 1..(n + 1) /\ b \in 1..(n + 1)
      OBVIOUS
    <3>2. QED
      BY <3>1, ListedIsFinite
  <2>4. /\ DOMAIN Names(s[a]) = 1..Len(Names(s[a])) /\ Len(Names(s[a])) \in Nat
        /\ DOMAIN Names(s[b]) = 1..Len(Names(s[b])) /\ Len(Names(s[b])) \in Nat
    OBVIOUS
  <2>5. p - Base(s, a) <= Len(Names(s[a])) /\ 1 <= p - Base(s, b)
    BY <1>1, <2>4
  <2>6. QED
    BY <2>1, <2>2, <2>3, <2>4, <2>5
<1>2. QED
  BY <1>1

\* and every position to some.
LEMMA SomeInput ==
    ASSUME NEW n \in Nat, NEW s, \A j \in 1..n : Names(s[j]) \in Seq(Idx),
           NEW p \in 1..Base(s, n + 1)
    PROVE  \E k \in 1..n : p - Base(s, k) \in DOMAIN Names(s[k])
<1> DEFINE T == {k \in 1..n : p <= Base(s, k + 1)}
<1>1. \A k \in 1..(n + 1) : Base(s, k) \in Nat
  BY ListedIsFinite
<1>2. p \in Nat /\ 1 <= p /\ p <= Base(s, n + 1)
  BY <1>1
<1>3. n \in 1..n
  BY <1>2, BaseFirst
<1>4. PICK k \in T : \A y \in T : k <= y
  <2>1. n \in T /\ T \subseteq Nat
    BY <1>2, <1>3
  <2> HIDE DEF T
  <2>2. QED
    BY <2>1, LeastNat
<1>5. k \in 1..n /\ p <= Base(s, k + 1)
  OBVIOUS
<1>6. Base(s, k) < p
  <2>1. CASE k = 1
    BY <1>2, <2>1, BaseFirst
  <2>2. CASE k # 1
    <3>1. k - 1 \in 1..n /\ (k - 1) + 1 = k /\ ~(k <= k - 1)
      BY <1>5, <2>2
    <3>2. ~(p <= Base(s, k))
      BY <1>4, <3>1
    <3>3. QED
      BY <1>1, <1>2, <1>5, <3>2
  <2>3. QED
    BY <2>1, <2>2
<1>7. Base(s, k + 1) = Base(s, k) + Len(Names(s[k]))
  BY <1>5, BaseNext
<1>8. DOMAIN Names(s[k]) = 1..Len(Names(s[k])) /\ Len(Names(s[k])) \in Nat
  BY <1>5
<1> HIDE DEF T
<1>9. Base(s, k) \in Nat
  BY <1>1, <1>5
<1>10. p - Base(s, k) \in 1..Len(Names(s[k]))
  BY <1>2, <1>5, <1>6, <1>7, <1>8, <1>9
<1>11. QED
  BY <1>5, <1>8, <1>10

\* So the lists come one after the other.
LEMMA NamesConcatenated ==
    ASSUME NEW n \in Nat, NEW s, Len(s) = n, DOMAIN s = 1..n,
           \A j \in 1..n : Names(s[j]) \in Seq(Idx)
    PROVE  /\ AllNames(s) \in Seq(Idx)
           /\ \A p \in DOMAIN AllNames(s) : \E k \in 1..n : p - Base(s, k) \in DOMAIN Names(s[k])
           /\ \A k \in 1..n : \A j \in DOMAIN Names(s[k]) :
                 /\ j + Base(s, k) \in DOMAIN AllNames(s)
                 /\ AllNames(s)[j + Base(s, k)] = Names(s[k])[j]
<1> DEFINE In(p) == CHOOSE k \in DOMAIN s : p - Base(s, k) \in DOMAIN Names(s[k])
           size == Base(s, n + 1)
<1>1. size \in Nat
  BY ListedIsFinite
<1>2. AllNames(s) = [p \in 1..size |-> Names(s[In(p)])[p - Base(s, In(p))]]
  BY DEF AllNames
<1>3. \A p \in 1..size : In(p) \in 1..n /\ p - Base(s, In(p)) \in DOMAIN Names(s[In(p)])
  BY SomeInput
<1> HIDE DEF In
<1>4. \A p \in 1..size : Names(s[In(p)])[p - Base(s, In(p))] \in Idx
  BY <1>3
<1>5. AllNames(s) \in Seq(Idx)
  BY <1>1, <1>2, <1>4
<1>6. ASSUME NEW k \in 1..n, NEW j \in DOMAIN Names(s[k])
      PROVE  /\ j + Base(s, k) \in 1..size
             /\ In(j + Base(s, k)) = k
  <2>1. DOMAIN Names(s[k]) = 1..Len(Names(s[k])) /\ Len(Names(s[k])) \in Nat
    OBVIOUS
  <2>2. k \in 1..(n + 1) /\ k + 1 \in 1..(n + 1) /\ n + 1 \in 1..(n + 1)
    OBVIOUS
  <2>3. Base(s, k) \in Nat
    BY <2>2, ListedIsFinite
  <2>4. Base(s, k + 1) = Base(s, k) + Len(Names(s[k])) /\ Base(s, k + 1) <= size
    BY <2>2, BaseNext, BaseMonotonic
  <2>5. j + Base(s, k) \in 1..size
    BY <1>1, <2>1, <2>3, <2>4
  <2>6. (j + Base(s, k)) - Base(s, k) = j
    BY <2>1, <2>3
  <2>7. (j + Base(s, k)) - Base(s, k) \in DOMAIN Names(s[k])
    BY <2>6
  <2>8. In(j + Base(s, k)) = k
    <3> DEFINE q == j + Base(s, k)
    <3>1. q \in Int /\ In(q) \in 1..n
      BY <1>3, <2>1, <2>3, <2>5
    <3>2. q - Base(s, In(q)) \in DOMAIN Names(s[In(q)]) /\ q - Base(s, k) \in DOMAIN Names(s[k])
      BY <1>3, <2>5, <2>7
    <3> HIDE DEF q
    <3>3. In(q) = k
      BY <3>1, <3>2, OneInput
    <3>4. QED
      BY <3>3 DEF q
  <2>9. QED
    BY <2>5, <2>8
<1>7. ASSUME NEW k \in 1..n, NEW j \in DOMAIN Names(s[k])
      PROVE  AllNames(s)[j + Base(s, k)] = Names(s[k])[j]
  <2>1. DOMAIN Names(s[k]) = 1..Len(Names(s[k])) /\ Base(s, k) \in Nat
    <3>1. k \in 1..(n + 1)
      OBVIOUS
    <3>2. Base(s, k) \in Nat
      BY <3>1, ListedIsFinite
    <3>3. Names(s[k]) \in Seq(Idx)
      OBVIOUS
    <3>4. QED
      BY <3>2, <3>3
  <2>2. (j + Base(s, k)) - Base(s, k) = j
    BY <2>1
  <2>3. QED
    BY <1>2, <1>6, <2>2
<1>8. QED
  BY <1>2, <1>3, <1>5, <1>6, <1>7

\* merge_into makes a whole table of whole tables.
LEMMA MergeIsWhole ==
    ASSUME NEW F, NEW s \in Seq(F), \A f \in F : Sound(f)
    PROVE  Whole(Merge(s))
<1> DEFINE n == Len(s)
<1>1. n \in Nat /\ DOMAIN s = 1..n /\ \A k \in 1..n : s[k] \in F
  OBVIOUS
<1>2. \A k \in 1..n : Names(s[k]) \in Seq(Idx) /\ Which(s[k]) = RowsOf(Names(s[k]))
  BY <1>1, SoundTable
<1> HIDE DEF n
<1>3. /\ AllNames(s) \in Seq(Idx)
      /\ \A p \in DOMAIN AllNames(s) : \E k \in 1..n : p - Base(s, k) \in DOMAIN Names(s[k])
      /\ \A k \in 1..n : \A j \in DOMAIN Names(s[k]) :
            /\ j + Base(s, k) \in DOMAIN AllNames(s)
            /\ AllNames(s)[j + Base(s, k)] = Names(s[k])[j]
  BY <1>1, <1>2, NamesConcatenated DEF n
<1> DEFINE E == UNION {{<<e[1], e[2] + Base(s, k)>> : e \in Which(s[k])} : k \in 1..n}
<1>4. E \subseteq RowsOf(AllNames(s))
  <2>1. SUFFICES ASSUME NEW k \in 1..n, NEW e \in Which(s[k])
                 PROVE  <<e[1], e[2] + Base(s, k)>> \in RowsOf(AllNames(s))
    OBVIOUS
  <2>1a. PICK j \in DOMAIN Names(s[k]) : e \in {<<x, j>> : x \in Contents[Names(s[k])[j]]}
    BY <1>2 DEF RowsOf
  <2>2. PICK o \in Contents[Names(s[k])[j]] : e = <<o, j>>
    BY <2>1a
  <2>3. j + Base(s, k) \in DOMAIN AllNames(s) /\ o \in Contents[AllNames(s)[j + Base(s, k)]]
    BY <1>3, <2>2
  <2>4. <<e[1], e[2] + Base(s, k)>> = <<o, j + Base(s, k)>>
    BY <2>2
  <2>5. QED
    BY <2>3, <2>4 DEF RowsOf
<1>5. RowsOf(AllNames(s)) \subseteq E
  <2>1. SUFFICES ASSUME NEW p \in DOMAIN AllNames(s),
                        NEW o \in Contents[AllNames(s)[p]]
                 PROVE  <<o, p>> \in E
    BY DEF RowsOf
  <2>2. PICK k \in 1..n : p - Base(s, k) \in DOMAIN Names(s[k])
    BY <1>3
  <2>3. p \in Int /\ Base(s, k) \in Int
    <3>1. p \in Int
      BY <1>3
    <3>2. k \in 1..(n + 1)
      BY <1>1
    <3>3. Base(s, k) \in Nat
      BY <1>1, <1>2, <3>2, ListedIsFinite
    <3>4. QED
      BY <3>1, <3>3
  <2>4. (p - Base(s, k)) + Base(s, k) = p
    BY <2>3
  <2>5. o \in Contents[Names(s[k])[p - Base(s, k)]]
    BY <1>3, <2>2, <2>4
  <2>6. <<o, p - Base(s, k)>> \in Which(s[k])
    BY <1>2, <2>2, <2>5 DEF RowsOf
  <2>7. <<o, p>> \in {<<e[1], e[2] + Base(s, k)>> : e \in Which(s[k])}
    BY <2>4, <2>6
  <2>8. QED
    BY <2>7
<1>6. Merge(s).names = AllNames(s) /\ Merge(s).entries = E
  BY <1>1 DEF Merge, n
<1>7. QED
  BY <1>3, <1>4, <1>5, <1>6 DEF Whole

-----------------------------------------------------------------------------
(***************************************************************************)
(* What bup midx --auto merges                                             *)
(***************************************************************************)

\* A group has only files of the list it is a part of.
LEMMA GroupsAreSeqs ==
    ASSUME NEW F, NEW r \in Seq(F), NEW g \in Groups(r)
    PROVE  g \in Seq(F)
<1> DEFINE n == Len(r)
<1>1. n \in Nat /\ r \in [1..n -> F]
  OBVIOUS
<1>2. CASE \E k \in DOMAIN r : k + MaxFiles - 1 <= n /\ g = SubSeq(r, k, k + MaxFiles - 1)
  <2>1. PICK k \in DOMAIN r : k + MaxFiles - 1 <= n /\ g = SubSeq(r, k, k + MaxFiles - 1)
    BY <1>2
  <2>2. MaxFiles \in Nat /\ k \in 1..n
    BY IndexCacheParameters
  <2>3. QED
    BY <2>1, <2>2
<1>3. CASE n % MaxFiles # 0 /\ g = SubSeq(r, n - (n % MaxFiles) + 1, n)
  <2>1. PICK t \in 0..n : t = n % MaxFiles
    BY RestOfGroups
  <2>2. g = SubSeq(r, n - t + 1, n) /\ n - t + 1 \in 1..(n + 1)
    BY <1>3, <2>1
  <2>3. QED
    BY <2>2
<1>4. QED
  BY <1>2, <1>3 DEF Groups

\* The other way round it is a list of the same.
LEMMA ReverseIsSeq ==
    ASSUME NEW F, NEW t \in Seq(F)
    PROVE  Reverse(t) \in Seq(F)
<1>1. Len(t) \in Nat /\ \A k \in 1..Len(t) : t[(Len(t) - k) + 1] \in F
  OBVIOUS
<1>2. QED
  BY <1>1 DEF Reverse

\* A turn of the loop makes whole tables of whole tables.
LEMMA LeftAreSound ==
    ASSUME NEW F, IsFiniteSet(F), Cardinality(F) > Hwm, \A f \in F : Sound(f),
           NEW s \in BiggestFirst(F)
    PROVE  (\A f \in Merged(s) : Whole(f)) /\ (\A f \in Left(s) : Sound(f))
<1> DEFINE n == Len(s)
           r == Reverse(SubSeq(s, Lwm, n))
<1>1. s \in Seq(F) /\ n = Cardinality(F) /\ n \in Nat
  BY SortedIsSeq
<1>2. Lwm <= n /\ Lwm \in Nat /\ 0 < Lwm
  BY <1>1, IndexCacheParameters
<1>3. SubSeq(s, Lwm, n) \in Seq(F)
  BY <1>1, <1>2
<1>4. r \in Seq(F)
  BY <1>3, ReverseIsSeq
<1>5. Merged(s) = DoMidxGroup(r)
  BY DEF Merged
<1> HIDE DEF r
<1>6. ASSUME NEW f \in Merged(s)
      PROVE  Whole(f)
  <2>1. PICK g \in Groups(r) : f = Merge(g)
    BY <1>5 DEF DoMidxGroup
  <2>2. g \in Seq(F)
    BY <1>4, GroupsAreSeqs
  <2>3. QED
    BY <2>1, <2>2, MergeIsWhole
<1>7. \A k \in 1..(Lwm - 1) : s[k] \in F
  BY <1>1, <1>2
<1>8. QED
  BY <1>6, <1>7 DEF Left, Sound

-----------------------------------------------------------------------------
(***************************************************************************)
(* The filter and the number of rows                                       *)
(***************************************************************************)

\* A table of a finite list has finitely many rows.
LEMMA RowsOfIsFinite ==
    ASSUME NEW names \in Seq(Idx)
    PROVE  IsFiniteSet(RowsOf(names))
<1> DEFINE part(k) == {<<o, k>> : o \in Contents[names[k]]}
           parts == {part(k) : k \in DOMAIN names}
           at == [k \in DOMAIN names |-> part(k)]
<1>1. at \in Surjection(DOMAIN names, parts)
  BY DEF Surjection
<1>2. IsFiniteSet(parts)
  <2>1. DOMAIN names = 1..Len(names) /\ Len(names) \in Nat
    OBVIOUS
  <2>2. IsFiniteSet(DOMAIN names)
    BY <2>1, FirstNumbers
  <2>3. QED
    BY <1>1, <2>2, FS_Surjection
<1>3. ASSUME NEW k \in DOMAIN names
      PROVE  IsFiniteSet(part(k))
  <2> DEFINE row == [o \in Contents[names[k]] |-> <<o, k>>]
  <2>1. row \in Surjection(Contents[names[k]], part(k))
    BY DEF Surjection
  <2>2. IsFiniteSet(Contents[names[k]])
    BY IndexCacheParameters
  <2>3. QED
    BY <2>1, <2>2, FS_Surjection
<1>4. IsFiniteSet(UNION parts)
  BY <1>2, <1>3, FS_UNION
<1>5. QED
  BY <1>4 DEF RowsOf

\* So have finitely many tables.
LEMMA RowsAreFinite ==
    ASSUME NEW S, IsFiniteSet(S), \A f \in S : Sound(f)
    PROVE  IsFiniteSet(Rows(S)) /\ Total(S) \in Nat
<1> DEFINE part(f) == {f} \X Which(f)
           parts == {part(f) : f \in S}
           at == [f \in S |-> part(f)]
<1>1. at \in Surjection(S, parts)
  BY DEF Surjection
<1>2. IsFiniteSet(parts)
  BY <1>1, FS_Surjection
<1>3. ASSUME NEW f \in S
      PROVE  IsFiniteSet(part(f))
  <2>1. IsFiniteSet(Which(f))
    BY SoundTable, RowsOfIsFinite
  <2>2. QED
    BY <2>1, FS_Singleton, FS_Product
<1>4. IsFiniteSet(UNION parts)
  BY <1>2, <1>3, FS_UNION
<1>5. QED
  BY <1>4, FS_CardinalityType DEF Rows, Total

\* Where a list of files has an index.
LEMMA IndexIsOpen ==
    ASSUME NEW S \in SUBSET Idx, NEW R, NEW i \in S \cup Covered(R)
    PROVE  \E f \in S \cup R : \E k \in DOMAIN Names(f) : Names(f)[k] = i
<1>1. CASE i \in S
  <2>1. Names(i) = <<i>> /\ 1 \in DOMAIN <<i>> /\ <<i>>[1] = i
    BY <1>1 DEF Names, IsIdx
  <2>2. QED
    BY <1>1, <2>1
<1>2. CASE i \in Covered(R)
  <2>1. PICK f \in R : i \in Range(Names(f))
    BY <1>2 DEF Covered, Covers
  <2>2. QED
    BY <2>1 DEF Range
<1>3. QED
  BY <1>1, <1>2

\* A filter of some of the indexes that has as many objects as a list of files
\* that has them all was made of all of them: PackIdxList.refresh compares
\* nothing but the numbers.
LEMMA NoneMissing ==
    ASSUME NEW D \in SUBSET Idx, NEW N \in SUBSET D, NEW S \in SUBSET Idx,
           NEW R, IsFiniteSet(R), \A f \in R : Sound(f),
           D \subseteq S \cup Covered(R),
           Total(N) >= Total(S) + Total(R)
    PROVE  N = D
<1> DEFINE file(i) == CHOOSE f \in S \cup R : \E k \in DOMAIN Names(f) : Names(f)[k] = i
           at(i) == CHOOSE k \in DOMAIN Names(file(i)) : Names(file(i))[k] = i
           place == [x \in Rows(D) |-> <<file(x[1]), <<x[2][1], at(x[1])>>>>]
<1>1. \A i \in D : /\ file(i) \in S \cup R /\ at(i) \in DOMAIN Names(file(i))
                   /\ Names(file(i))[at(i)] = i
  <2>1. SUFFICES ASSUME NEW i \in D
                 PROVE  /\ file(i) \in S \cup R /\ at(i) \in DOMAIN Names(file(i))
                        /\ Names(file(i))[at(i)] = i
    OBVIOUS
  <2>2. i \in S \cup Covered(R)
    OBVIOUS
  <2>3. \E f \in S \cup R : \E k \in DOMAIN Names(f) : Names(f)[k] = i
    BY <2>2, IndexIsOpen
  <2>4. file(i) \in S \cup R /\ \E k \in DOMAIN Names(file(i)) : Names(file(i))[k] = i
    BY <2>3
  <2> HIDE DEF file
  <2>5. QED
    BY <2>4
<1> HIDE DEF file, at
<1>2. \A f \in S \cup R : Sound(f)
  BY DEF Sound, IsIdx
<1>3. \A x \in Rows(D) : /\ x[1] \in D /\ x[2][1] \in Contents[x[1]]
                         /\ x = <<x[1], <<x[2][1], 1>>>>
  BY DEF Rows, Which, IsIdx
<1>4. place \in [Rows(D) -> Rows(S) \cup Rows(R)]
  <2>1. SUFFICES ASSUME NEW x \in Rows(D)
                 PROVE  <<file(x[1]), <<x[2][1], at(x[1])>>>> \in Rows(S) \cup Rows(R)
    OBVIOUS
  <2>2. x[1] \in D /\ x[2][1] \in Contents[x[1]]
    BY <1>3
  <2>3. <<x[2][1], at(x[1])>> \in RowsOf(Names(file(x[1])))
    BY <1>1, <2>2 DEF RowsOf
  <2>4. <<x[2][1], at(x[1])>> \in Which(file(x[1]))
    BY <1>1, <1>2, <2>2, <2>3, SoundTable
  <2>5. QED
    BY <1>1, <2>2, <2>4 DEF Rows
<1>5. \A x, y \in Rows(D) : place[x] = place[y] => x = y
  <2>1. SUFFICES ASSUME NEW x \in Rows(D), NEW y \in Rows(D), place[x] = place[y]
                 PROVE  x = y
    OBVIOUS
  <2>2. file(x[1]) = file(y[1]) /\ x[2][1] = y[2][1] /\ at(x[1]) = at(y[1])
    BY <2>1
  <2>3. x[1] = y[1]
    BY <1>1, <1>3, <2>2
  <2>4. QED
    BY <1>3, <2>2, <2>3
<1> HIDE DEF place
<1>6. place \in Injection(Rows(D), Rows(S) \cup Rows(R))
  BY <1>4, <1>5 DEF Injection, IsInjective
<1>7. IsFiniteSet(D) /\ IsFiniteSet(N) /\ IsFiniteSet(S)
  BY FS_Subset, IndexCacheParameters
<1>8. /\ IsFiniteSet(Rows(D)) /\ Total(D) \in Nat
      /\ IsFiniteSet(Rows(N)) /\ Total(N) \in Nat
  BY <1>7, RowsAreFinite DEF Sound, IsIdx
<1>9. /\ IsFiniteSet(Rows(S)) /\ Total(S) \in Nat
      /\ IsFiniteSet(Rows(R)) /\ Total(R) \in Nat
  BY <1>2, <1>7, RowsAreFinite
<1>10. IsFiniteSet(Rows(S) \cup Rows(R)) /\ Cardinality(Rows(S) \cup Rows(R)) <= Total(S) + Total(R)
  <2>1. /\ IsFiniteSet(Rows(S) \cup Rows(R))
        /\ Cardinality(Rows(S) \cup Rows(R)) =
              Total(S) + Total(R) - Cardinality(Rows(S) \cap Rows(R))
    BY <1>9, FS_Union DEF Total
  <2>2. Cardinality(Rows(S) \cap Rows(R)) \in Nat
    BY <1>9, FS_Intersection, FS_CardinalityType
  <2>3. QED
    BY <1>9, <2>1, <2>2
<1>11. Total(D) <= Cardinality(Rows(S) \cup Rows(R))
  BY <1>6, <1>10, FS_Injection DEF Total
<1>12. Cardinality(Rows(S) \cup Rows(R)) \in Nat
  BY <1>10, FS_CardinalityType
<1>13. Rows(N) \subseteq Rows(D) /\ Total(N) <= Total(D)
  BY <1>8, FS_Subset DEF Rows, Total
<1>14. Total(N) = Total(D)
  BY <1>8, <1>9, <1>10, <1>11, <1>12, <1>13
<1>15. Rows(N) = Rows(D)
  BY <1>8, <1>13, <1>14, FS_Subset DEF Total
<1>16. ASSUME NEW i \in D
       PROVE  i \in N
  <2>1. PICK o : o \in Contents[i]
    BY IndexCacheParameters
  <2>2. <<i, <<o, 1>>>> \in Rows(D)
    BY <2>1 DEF Rows, Which, IsIdx
  <2>3. QED
    BY <1>15, <2>2 DEF Rows
<1>17. QED
  BY <1>16
-----------------------------------------------------------------------------
(***************************************************************************)
(* The invariant of the tables                                             *)
(***************************************************************************)

\* Every .midx, in the directory, in a list or about to be merged, is whole.
TablesInv ==
    /\ IsFiniteSet(listed) /\ IsFiniteSet(rmidxs) /\ rmidxs \cap Idx = {}
    /\ \A m \in midxs \cup listed \cup rmidxs : Whole(m)
    /\ \A w \in Writers : pc[w] = "merge" => \A f \in all[w] : Sound(f)

\* What do_midx_dir takes into the loop is indexes and .midx files.
LEMMA TablesMidxScan ==
    ASSUME CacheInv, TablesInv, NEW w \in Active, MidxScan(w)
    PROVE  TablesInv'
<1>1. PICK s \in BiggestFirst({m \in midxs : ~Broken(m)}) :
         LET kept == Needed(s, {})
             found == kept \cup (idxs \ Covered(kept))
             many == Cardinality(found) > Hwm
         IN /\ midxs' = kept
            /\ all' = [all EXCEPT ![w] = IF many THEN found ELSE {}]
            /\ pc' = [pc EXCEPT ![w] = IF many THEN "merge" ELSE "bloom"]
  BY DEF MidxScan
<1> DEFINE kept == Needed(s, {})
           found == kept \cup (idxs \ Covered(kept))
<1>2. kept \subseteq midxs
  BY NeededAreThere
<1>3. \A f \in found : Sound(f)
  BY <1>2 DEF TablesInv, CacheInv, FilesInv, Sound, IsIdx
<1> HIDE DEF kept, found
<1>4. /\ midxs' = kept
      /\ all' = [all EXCEPT ![w] = IF Cardinality(found) > Hwm THEN found ELSE {}]
      /\ pc' = [pc EXCEPT ![w] = IF Cardinality(found) > Hwm THEN "merge" ELSE "bloom"]
  BY <1>1 DEF kept, found
<1>5. UNCHANGED <<listed, rmidxs>>
  BY DEF MidxScan, files
<1>6. \A m \in midxs' \cup listed' \cup rmidxs' : Whole(m)
  BY <1>2, <1>4, <1>5 DEF TablesInv
<1>7. \A v \in Writers : pc'[v] = "merge" => \A f \in all'[v] : Sound(f)
  BY <1>3, <1>4, ActiveAreWriters DEF TablesInv, CacheInv, LoopInv
<1>8. QED
  BY <1>5, <1>6, <1>7 DEF TablesInv, Whole, RowsOf, Sound, IsIdx

\* And stays so.
LEMMA TablesMidxMerge ==
    ASSUME CacheInv, TablesInv, NEW w \in Active, MidxMerge(w)
    PROVE  TablesInv'
<1>1. PICK s \in BiggestFirst(all[w]) :
         LET many == Cardinality(Left(s)) > Hwm
         IN /\ midxs' = midxs \cup (Merged(s) \ Idx)
            /\ all' = [all EXCEPT ![w] = IF many THEN Left(s) ELSE {}]
            /\ pc' = [pc EXCEPT ![w] = IF many THEN "merge" ELSE "bloom"]
  BY DEF MidxMerge
<1>2. pc[w] = "merge" /\ w \in Writers
  BY ActiveAreWriters DEF MidxMerge
<1>3. IsFiniteSet(all[w]) /\ Cardinality(all[w]) > Hwm /\ \A f \in all[w] : Sound(f)
  BY <1>2 DEF CacheInv, LoopInv, TablesInv
<1>4. (\A f \in Merged(s) : Whole(f)) /\ (\A f \in Left(s) : Sound(f))
  BY <1>3, LeftAreSound
<1>5. UNCHANGED <<listed, rmidxs>>
  BY DEF MidxMerge, files
<1>6. \A m \in midxs' \cup listed' \cup rmidxs' : Whole(m)
  BY <1>1, <1>4, <1>5 DEF TablesInv
<1>7. \A v \in Writers : pc'[v] = "merge" => \A f \in all'[v] : Sound(f)
  BY <1>1, <1>4, <1>2 DEF TablesInv, CacheInv, LoopInv
<1>8. QED
  BY <1>5, <1>6, <1>7 DEF TablesInv, Whole, RowsOf, Sound, IsIdx

\* The tables stay whole.
LEMMA TablesNext ==
    ASSUME CacheInv, TablesInv, [Next]_vars
    PROVE  TablesInv'
<1>1. ASSUME midxs' \subseteq midxs, IsFiniteSet(listed'), IsFiniteSet(rmidxs'),
             listed' \cup rmidxs' \subseteq midxs \cup listed \cup rmidxs,
             \A w \in Writers : pc'[w] = "merge" => pc[w] = "merge" /\ all'[w] = all[w]
      PROVE  TablesInv'
  BY <1>1 DEF TablesInv, CacheInv, FilesInv, Whole, RowsOf, Sound, IsIdx
<1> USE ActiveAreWriters DEF CacheInv, LoopInv
<1>2. ASSUME NEW w \in Active, NEW i \in Idx, AddIdx(w, i) \/ SyncRemove(w, i)
      PROVE  TablesInv'
  <2>1. UNCHANGED <<midxs, listed, rmidxs>> /\ pc' = [pc EXCEPT ![w] = "midx"] /\ all' = all
    BY <1>2 DEF AddIdx, SyncRemove, files
  <2>2. QED
    BY <1>1, <2>1 DEF TablesInv
<1>3. ASSUME NEW w \in Active, SyncNothing(w) \/ Fail(w) \/ BloomFails(w)
      PROVE  TablesInv'
  <2>1. UNCHANGED <<midxs, listed, rmidxs>>
    BY <1>3 DEF SyncNothing, Fail, BloomFails, Stops, dir, files
  <2>2. \A v \in Writers : pc'[v] = "merge" => pc[v] = "merge" /\ all'[v] = all[v]
    BY <1>3 DEF SyncNothing, Fail, BloomFails, Stops
  <2>3. QED
    BY <1>1, <2>1, <2>2 DEF TablesInv
<1>4. ASSUME NEW w \in Active, WriterStep(w)
      PROVE  TablesInv'
  <2>1. CASE MidxScan(w)
    BY <2>1, TablesMidxScan
  <2>2. CASE MidxMerge(w)
    BY <2>2, TablesMidxMerge
  <2>3. CASE MidxDies(w) \/ BloomScan(w) \/ BloomWrite(w) \/ BloomRename(w)
    <3>1. UNCHANGED <<midxs, listed, rmidxs>>
      BY <2>3 DEF MidxDies, BloomScan, BloomWrite, BloomRename, dir, files
    <3>2. \A v \in Writers : pc'[v] = "merge" => pc[v] = "merge" /\ all'[v] = all[v]
      <4>1. CASE MidxDies(w)
        BY <4>1 DEF MidxDies
      <4>2. CASE BloomScan(w)
        BY <4>2 DEF BloomScan
      <4>3. CASE BloomWrite(w) \/ BloomRename(w)
        BY <4>3 DEF BloomWrite, BloomRename
      <4>4. QED
        BY <2>3, <4>1, <4>2, <4>3
    <3>3. QED
      BY <1>1, <3>1, <3>2 DEF TablesInv
  <2>4. QED
    BY <1>4, <2>1, <2>2, <2>3 DEF WriterStep
<1>5. CASE GcClear \/ GcSweep
  <2>1. UNCHANGED <<listed, rmidxs, pc, all>> /\ midxs' \subseteq midxs
    BY <1>5 DEF GcClear, GcSweep, files, writing
  <2>2. QED
    BY <1>1, <2>1 DEF TablesInv
<1>6. CASE ReaderNext
  <2>1. UNCHANGED <<pc, all>>
    BY <1>6 DEF ReaderNext, RefreshBegin, RefreshMidx, RefreshFails, RefreshIdxs,
                RefreshBloom, Exists, CloseTemps, Close, writing
  <2>2. CASE RefreshBegin
    <3>1. midxs' = midxs /\ rmidxs' = rmidxs \cap midxs /\ listed' = midxs \ rmidxs
      BY <2>2 DEF RefreshBegin, dir
    <3>2. IsFiniteSet(rmidxs') /\ IsFiniteSet(listed')
      BY <3>1, FS_Subset DEF TablesInv, FilesInv
    <3>3. QED
      BY <1>1, <2>1, <3>1, <3>2
  <2>3. CASE RefreshMidx
    <3>1. PICK s \in BiggestFirst({m \in listed : ~Broken(m)}) :
             /\ midxs' \subseteq midxs
             /\ rmidxs' = rmidxs \cup Needed(s, Covered(rmidxs))
             /\ listed' = {}
      BY <2>3 DEF RefreshMidx
    <3>2. IsFiniteSet({m \in listed : ~Broken(m)})
      BY FS_Subset DEF TablesInv
    <3>3. Needed(s, Covered(rmidxs)) \subseteq listed /\ IsFiniteSet(Needed(s, Covered(rmidxs)))
      BY <3>2, NeededAreThere, NeededIsFinite
    <3>4. IsFiniteSet(rmidxs') /\ IsFiniteSet(listed')
      BY <3>1, <3>3, FS_Union, FS_EmptySet DEF TablesInv
    <3>5. QED
      BY <1>1, <2>1, <3>1, <3>3, <3>4
  <2>4. CASE RefreshFails \/ Close
    <3>1. midxs' = midxs /\ rmidxs' = {} /\ listed' = {}
      BY <2>4 DEF RefreshFails, Close, Nothing, dir
    <3>2. QED
      BY <1>1, <2>1, <3>1, FS_EmptySet
  <2>5. CASE RefreshIdxs \/ RefreshBloom \/ \E o \in Objs(Idx) : Exists(o)
    <3>1. UNCHANGED <<midxs, rmidxs, listed>>
      BY <2>5 DEF RefreshIdxs, RefreshBloom, Exists, dir
    <3>2. QED
      BY <1>1, <2>1, <3>1 DEF TablesInv
  <2>6. CASE CloseTemps
    <3>1. UNCHANGED <<midxs, listed>> /\ rmidxs' = {}
      BY <2>6 DEF CloseTemps, dir
    <3>2. QED
      BY <1>1, <2>1, <3>1, FS_EmptySet DEF TablesInv
  <2>7. QED
    BY <1>6, <2>2, <2>3, <2>4, <2>5, <2>6 DEF ReaderNext
<1>7. CASE UNCHANGED vars
  <2>1. UNCHANGED <<midxs, listed, rmidxs, pc, all>>
    BY <1>7 DEF vars, dir, files, writing
  <2>2. QED
    BY <1>1, <2>1 DEF TablesInv
<1>8. QED
  BY <1>2, <1>3, <1>4, <1>5, <1>6, <1>7 DEF Next

-----------------------------------------------------------------------------
(***************************************************************************)
(* The invariant of the filter                                             *)
(***************************************************************************)

IsFilter(b) == b = None \/ (b.names \subseteq Idx /\ b = NewBloom(b.names))

\* What bup bloom is about to write or to rename was made of indexes that are
\* there, and a client's process finds what it wrote.
BloomInv ==
    /\ IsFilter(bloom) /\ IsFilter(tmpBloom)
    /\ DOMAIN job = Writers
    /\ \A w \in Writers : pc[w] = "write" => job[w].names \subseteq idxs
    /\ \A w \in Writers : pc[w] = "rename" =>
          IF tmpBloom = None THEN kind = "repo" ELSE tmpBloom.names \subseteq idxs

\* Who runs when: a client's process alone, and nobody while gc sweeps.
TurnsInv ==
    /\ kind \in {"repo", "client"}
    /\ kind = "repo" => ~failed
    /\ kind = "client" =>
          /\ ~gc
          /\ \A w \in Writers \ Active : pc[w] = "idle"
          /\ ~ReaderAway => AllIdle
    /\ gc => AllIdle /\ bloom = None

\* In a repository no filter names an index that is not there.  In a client
\* one may, after bup bloom found nothing to add to it; then it names all
\* that are there.
NamesInv ==
    bloom # None =>
       /\ kind = "repo" => bloom.names \subseteq idxs
       /\ kind = "client" /\ AllIdle /\ ~failed =>
             bloom.names \subseteq idxs \/ idxs \subseteq bloom.names

\* The list is of what was there when it began, and its filter knows that.
LookInv ==
    /\ rpc \in {"midx", "idx", "bloom"} /\ ~raced => seen = idxs
    /\ rpc = "ready" /\ ~raced /\ ~Misleading /\ rbloom # None => Objs(seen) \subseteq rbloom.objs

LookupInv == CacheInv /\ TablesInv /\ BloomInv /\ TurnsInv /\ NamesInv /\ LookInv

\* A client has one process that changes the directory.
LEMMA OneActive ==
    ASSUME kind = "client", NEW v \in Active, NEW w \in Active
    PROVE  v = w
  BY DEF Active

\* A process that does something is the only one a client has.
LEMMA OthersIdle ==
    ASSUME TurnsInv, kind = "client", NEW w \in Active, NEW v \in Writers, v # w
    PROVE  pc[v] = "idle"
  BY OneActive DEF TurnsInv

\* Who runs when.
LEMMA TurnsNext ==
    ASSUME LookupInv, [Next]_vars
    PROVE  TurnsInv'
<1> USE ActiveAreWriters DEF LookupInv, CacheInv, LoopInv, ListInv, TurnsInv, AllIdle, ReaderAway
<1>1. Active' = Active /\ kind' = kind
  BY DEF Next, AddIdx, SyncRemove, SyncNothing, Fail, BloomFails, Stops, WriterStep,
         MidxScan, MidxMerge, MidxDies, BloomScan, BloomWrite, BloomRename, GcClear, GcSweep, ReaderNext,
         RefreshBegin, RefreshMidx, RefreshFails, RefreshIdxs, RefreshBloom, Exists,
         CloseTemps, Close, vars, Active
<1>2. ASSUME NEW w \in Active, NEW i \in Idx, AddIdx(w, i) \/ SyncRemove(w, i)
      PROVE  TurnsInv'
  <2>1. /\ pc' = [pc EXCEPT ![w] = "midx"] /\ UNCHANGED <<gc, rpc, failed, bloom>>
        /\ ~gc /\ (kind = "client" => ReaderAway)
    BY <1>2 DEF AddIdx, SyncRemove
  <2>2. QED
    BY <1>1, <2>1
<1>3. ASSUME NEW w \in Active, SyncNothing(w)
      PROVE  TurnsInv'
  BY <1>1, <1>3 DEF SyncNothing, dir, ghosts
<1>4. ASSUME NEW w \in Active, Fail(w) \/ BloomFails(w)
      PROVE  TurnsInv'
  <2>1. /\ pc' = [pc EXCEPT ![w] = "idle"] /\ UNCHANGED <<gc, rpc>>
        /\ failed' = (kind = "client") /\ pc[w] # "idle"
    BY <1>4 DEF Fail, BloomFails, Stops
  <2>2. ~gc
    BY <2>1
  <2>3. QED
    BY <1>1, <2>1, <2>2
<1>5. ASSUME NEW w \in Active, WriterStep(w)
      PROVE  TurnsInv'
  <2>1. pc[w] # "idle" /\ UNCHANGED <<gc, rpc>> /\ (kind = "repo" => failed' = FALSE)
    BY <1>5 DEF WriterStep, MidxScan, MidxMerge, MidxDies, BloomScan, BloomWrite,
                BloomRename, dir, ghosts
  <2>2. \A v \in Writers \ {w} : pc'[v] = pc[v]
    <3>1. CASE MidxScan(w)
      BY <3>1 DEF MidxScan
    <3>2. CASE MidxMerge(w)
      BY <3>2 DEF MidxMerge
    <3>3. CASE MidxDies(w) \/ BloomWrite(w) \/ BloomRename(w)
      BY <3>3 DEF MidxDies, BloomWrite, BloomRename
    <3>4. CASE BloomScan(w)
      BY <3>4 DEF BloomScan
    <3>5. QED
      BY <1>5, <3>1, <3>2, <3>3, <3>4 DEF WriterStep
  <2>3. ~gc /\ (kind = "client" => ReaderAway)
    BY <2>1
  <2>4. QED
    BY <1>1, <2>1, <2>2, <2>3
<1>6. CASE GcClear \/ GcSweep
  BY <1>1, <1>6 DEF GcClear, GcSweep, writing, ghosts
<1>7. CASE ReaderNext
  <2>1. UNCHANGED <<pc, gc, bloom, failed>>
    BY <1>7 DEF ReaderNext, RefreshBegin, RefreshMidx, RefreshFails, RefreshIdxs,
                RefreshBloom, Exists, CloseTemps, Close, writing, dir, ghosts
  <2>2. kind = "client" => (ReaderAway' \/ ~ReaderAway \/ AllIdle)
    BY <1>7 DEF ReaderNext, RefreshBegin, RefreshMidx, RefreshFails, RefreshIdxs,
                RefreshBloom, Exists, CloseTemps, Close
  <2>3. QED
    BY <1>1, <2>1, <2>2
<1>8. CASE UNCHANGED vars
  BY <1>1, <1>8 DEF vars, writing, dir, ghosts
<1>9. QED
  BY <1>2, <1>3, <1>4, <1>5, <1>6, <1>7, <1>8 DEF Next

\* NewBloom makes a filter.
LEMMA NewBloomIsFilter ==
    ASSUME NEW S \in SUBSET Idx
    PROVE  IsFilter(NewBloom(S)) /\ NewBloom(S).names = S /\ NewBloom(S) # None
  BY NoneIsNoFilter DEF IsFilter, NewBloom

\* What is written and renamed.
LEMMA BloomNext ==
    ASSUME LookupInv, [Next]_vars
    PROVE  BloomInv'
<1> USE ActiveAreWriters DEF LookupInv, CacheInv, LoopInv, FilesInv
<1>1. ASSUME UNCHANGED <<bloom, tmpBloom, job, kind>>, idxs \subseteq idxs',
             \A v \in Writers : pc'[v] \in {"write", "rename"} => pc'[v] = pc[v]
      PROVE  BloomInv'
  BY <1>1 DEF BloomInv, IsFilter, NewBloom, Objs, Total, Rows, Which, IsIdx
<1>2. ASSUME UNCHANGED kind, IsFilter(bloom'), IsFilter(tmpBloom'), DOMAIN job' = Writers,
             AllIdle'
      PROVE  BloomInv'
  BY <1>2 DEF BloomInv, IsFilter, NewBloom, Objs, Total, Rows, Which, IsIdx, AllIdle
<1>3. ASSUME NEW w \in Active, NEW i \in Idx, AddIdx(w, i)
      PROVE  BloomInv'
  BY <1>1, <1>3 DEF AddIdx
<1>4. ASSUME NEW w \in Active, NEW i \in Idx, SyncRemove(w, i)
      PROVE  BloomInv'
  <2>1. \A v \in Writers : pc'[v] \notin {"write", "rename"}
    BY <1>4, OthersIdle DEF SyncRemove
  <2>2. UNCHANGED <<bloom, tmpBloom, job>>
    BY <1>4 DEF SyncRemove
  <2>3. QED
    BY <2>1, <2>2 DEF BloomInv, IsFilter, NewBloom, Objs, Total, Rows, Which, IsIdx
<1>5. ASSUME NEW w \in Active, SyncNothing(w)
      PROVE  BloomInv'
  BY <1>1, <1>5 DEF SyncNothing, dir
<1>6. ASSUME NEW w \in Active, Fail(w) \/ BloomFails(w)
      PROVE  BloomInv'
  <2>1. /\ UNCHANGED <<idxs, kind>> /\ DOMAIN job' = Writers
        /\ \A v \in Writers : pc'[v] # "idle" => v # w /\ pc'[v] = pc[v] /\ job'[v] = job[v]
    BY <1>6 DEF Fail, BloomFails, Stops, BloomInv
  <2>2. CASE UNCHANGED <<bloom, tmpBloom>>
    BY <2>1, <2>2 DEF BloomInv, IsFilter, NewBloom, Objs, Total, Rows, Which, IsIdx
  <2>3. CASE BloomFails(w)
    <3>1. PICK S \in SUBSET job[w].names :
             \/ bloom' = NewBloom(S) /\ UNCHANGED tmpBloom
             \/ tmpBloom' = NewBloom(S) /\ UNCHANGED bloom
      BY <2>3 DEF BloomFails
    <3>2. S \subseteq idxs
      BY <2>3, <3>1 DEF BloomFails, BloomInv
    <3>3. IsFilter(NewBloom(S)) /\ NewBloom(S).names = S /\ NewBloom(S) # None
      BY <3>2, NewBloomIsFilter
    <3>4. IsFilter(bloom') /\ IsFilter(tmpBloom')
      BY <3>1, <3>3 DEF BloomInv
    <3>5. \A v \in Writers : pc'[v] = "rename" =>
             IF tmpBloom' = None THEN kind = "repo" ELSE tmpBloom'.names \subseteq idxs
      BY <2>1, <3>1, <3>2, <3>3 DEF BloomInv
    <3>6. QED
      BY <2>1, <3>4, <3>5
         DEF BloomInv, IsFilter, NewBloom, Objs, Total, Rows, Which, IsIdx
  <2>4. QED
    BY <1>6, <2>2, <2>3 DEF Fail
<1>7. ASSUME NEW w \in Active, WriterStep(w)
      PROVE  BloomInv'
  <2>1. CASE MidxScan(w)
    BY <1>1, <2>1 DEF MidxScan
  <2>2. CASE MidxMerge(w)
    BY <1>1, <2>2 DEF MidxMerge
  <2>3. CASE MidxDies(w)
    BY <1>1, <2>3 DEF MidxDies, dir
  <2>4. CASE BloomScan(w)
    <3>1. UNCHANGED <<idxs, bloom, tmpBloom, kind>>
      BY <2>4 DEF BloomScan, dir
    <3>2. /\ DOMAIN job' = Writers
          /\ \A v \in Writers : pc'[v] = "write" => job'[v].names \subseteq idxs
      BY <2>4 DEF BloomScan, BloomInv
    <3>3. \A v \in Writers : pc'[v] = "rename" => pc[v] = "rename"
      BY <2>4 DEF BloomScan
    <3>4. QED
      BY <3>1, <3>2, <3>3 DEF BloomInv, IsFilter, NewBloom, Objs, Total, Rows, Which, IsIdx
  <2>5. CASE BloomWrite(w)
    <3>1. job[w].names \subseteq idxs
      BY <2>5 DEF BloomWrite, BloomInv
    <3>2. /\ IsFilter(NewBloom(job[w].names)) /\ NewBloom(job[w].names).names = job[w].names
          /\ NewBloom(job[w].names) # None
      BY <3>1, NewBloomIsFilter
    <3>3. IsFilter(bloom') /\ IsFilter(tmpBloom')
      BY <2>5, <3>2 DEF BloomWrite, BloomInv
    <3>4. idxs' = idxs /\ kind' = kind /\ job' = [job EXCEPT ![w] = None]
      BY <2>5 DEF BloomWrite
    <3>5. \A v \in Writers : pc'[v] = "write" => pc[v] = "write" /\ v # w
      BY <2>5 DEF BloomWrite
    <3>6. \A v \in Writers : pc'[v] = "rename" =>
             IF tmpBloom' = None THEN kind = "repo" ELSE tmpBloom'.names \subseteq idxs
      BY <2>5, <3>1, <3>2 DEF BloomWrite, BloomInv
    <3>7. QED
      BY <3>3, <3>4, <3>5, <3>6
         DEF BloomInv, IsFilter, NewBloom, Objs, Total, Rows, Which, IsIdx
  <2>6. CASE BloomRename(w)
    <3>1. IsFilter(bloom') /\ IsFilter(tmpBloom') /\ UNCHANGED <<job, idxs, kind>>
      BY <2>6 DEF BloomRename, BloomInv, IsFilter
    <3>2. \A v \in Writers : pc'[v] \in {"write", "rename"} => pc[v] = pc'[v] /\ v # w
      BY <2>6 DEF BloomRename
    <3>3. \A v \in Writers : pc'[v] = "rename" =>
             IF tmpBloom' = None THEN kind = "repo" ELSE tmpBloom'.names \subseteq idxs
      BY <2>6, <3>2, OthersIdle DEF BloomRename, BloomInv, TurnsInv
    <3>4. QED
      BY <3>1, <3>2, <3>3
         DEF BloomInv, IsFilter, NewBloom, Objs, Total, Rows, Which, IsIdx
  <2>7. QED
    BY <1>7, <2>1, <2>2, <2>3, <2>4, <2>5, <2>6 DEF WriterStep
<1>8. CASE GcClear
  BY <1>2, <1>8 DEF GcClear, BloomInv, writing, AllIdle, IsFilter
<1>9. CASE GcSweep
  BY <1>2, <1>9 DEF GcSweep, BloomInv, writing, TurnsInv, AllIdle
<1>10. CASE ReaderNext
  BY <1>1, <1>10 DEF ReaderNext, RefreshBegin, RefreshMidx, RefreshFails, RefreshIdxs,
                RefreshBloom, Exists, CloseTemps, Close, writing, dir
<1>11. CASE UNCHANGED vars
  BY <1>1, <1>11 DEF vars, dir, writing
<1>12. QED
  BY <1>3, <1>4, <1>5, <1>6, <1>7, <1>8, <1>9, <1>10, <1>11 DEF Next

\* What the filter names.
LEMMA NamesNext ==
    ASSUME LookupInv, [Next]_vars
    PROVE  NamesInv'
<1> USE ActiveAreWriters DEF LookupInv, CacheInv, LoopInv, FilesInv, NamesInv
<1>1. Active' = Active /\ kind' = kind
  BY DEF Next, AddIdx, SyncRemove, SyncNothing, Fail, BloomFails, Stops, WriterStep,
         MidxScan, MidxMerge, MidxDies, BloomScan, BloomWrite, BloomRename, GcClear, GcSweep, ReaderNext,
         RefreshBegin, RefreshMidx, RefreshFails, RefreshIdxs, RefreshBloom, Exists,
         CloseTemps, Close, vars, Active
<1>2. ASSUME NEW w \in Writers, pc'[w] # "idle", bloom' = bloom,
             kind = "repo" => idxs \subseteq idxs'
      PROVE  NamesInv'
  BY <1>1, <1>2 DEF AllIdle
<1>3. ASSUME NEW w \in Active, NEW i \in Idx, AddIdx(w, i) \/ SyncRemove(w, i)
      PROVE  NamesInv'
  <2>1. /\ pc'[w] = "midx" /\ bloom' = bloom
        /\ kind = "repo" => idxs \subseteq idxs'
    BY <1>3 DEF AddIdx, SyncRemove
  <2>2. QED
    BY <1>2, <2>1
<1>4. ASSUME NEW w \in Active, SyncNothing(w)
      PROVE  NamesInv'
  BY <1>2, <1>4 DEF SyncNothing, dir
<1>5. ASSUME NEW w \in Active, Fail(w) \/ BloomFails(w)
      PROVE  NamesInv'
  <2>1. failed' = (kind = "client") /\ idxs' = idxs
    BY <1>5 DEF Fail, BloomFails, Stops
  <2>2. CASE Fail(w)
    BY <1>1, <2>1, <2>2 DEF Fail
  <2>3. CASE BloomFails(w)
    <3>1. PICK S \in SUBSET job[w].names : bloom' = NewBloom(S) \/ bloom' = bloom
      BY <2>3 DEF BloomFails
    <3>2. S \subseteq idxs
      BY <2>3, <3>1 DEF BloomFails, BloomInv
    <3>3. NewBloom(S).names = S
      BY <3>2, NewBloomIsFilter
    <3>4. QED
      BY <1>1, <2>1, <3>1, <3>2, <3>3
  <2>4. QED
    BY <1>5, <2>2, <2>3
<1>6. ASSUME NEW w \in Active, WriterStep(w)
      PROVE  NamesInv'
  <2>1. idxs' = idxs
    BY <1>6 DEF WriterStep, MidxScan, MidxMerge, MidxDies, BloomScan, BloomWrite,
                BloomRename, dir
  <2>2. CASE MidxScan(w)
    BY <1>2, <2>1, <2>2 DEF MidxScan
  <2>3. CASE MidxMerge(w)
    BY <1>2, <2>1, <2>3 DEF MidxMerge
  <2>4. CASE MidxDies(w)
    BY <1>2, <2>1, <2>4 DEF MidxDies, dir
  <2>5. CASE BloomScan(w)
    <3>1. bloom' = bloom
      BY <2>5 DEF BloomScan, dir
    <3>2. pc'[w] # "idle" \/ (bloom # None => idxs \subseteq bloom.names)
      BY <2>5 DEF BloomScan
    <3>3. QED
      BY <1>1, <1>2, <2>1, <3>1, <3>2
  <2>6. CASE BloomWrite(w)
    <3>1. job[w].names \subseteq idxs
      BY <2>6 DEF BloomWrite, BloomInv
    <3>2. NewBloom(job[w].names).names = job[w].names
      BY <3>1, NewBloomIsFilter
    <3>3. CASE job[w].adds
      BY <1>1, <2>1, <2>6, <3>1, <3>2, <3>3 DEF BloomWrite
    <3>4. CASE ~job[w].adds
      BY <1>2, <2>1, <2>6, <3>4 DEF BloomWrite
    <3>5. QED
      BY <3>3, <3>4
  <2>7. CASE BloomRename(w)
    <3>1. IF tmpBloom = None THEN kind = "repo" ELSE tmpBloom.names \subseteq idxs
      BY <2>7 DEF BloomRename, BloomInv
    <3>2. QED
      BY <1>1, <2>1, <2>7, <3>1 DEF BloomRename
  <2>8. QED
    BY <1>6, <2>2, <2>3, <2>4, <2>5, <2>6, <2>7 DEF WriterStep
<1>7. CASE GcClear
  BY <1>7 DEF GcClear
<1>8. CASE GcSweep
  BY <1>8 DEF GcSweep, TurnsInv
<1>9. CASE ReaderNext
  <2>1. UNCHANGED <<idxs, bloom, pc, failed>>
    BY <1>9 DEF ReaderNext, RefreshBegin, RefreshMidx, RefreshFails, RefreshIdxs,
                RefreshBloom, Exists, CloseTemps, Close, writing, dir, ghosts
  <2>2. QED
    BY <1>1, <2>1 DEF AllIdle
<1>10. CASE UNCHANGED vars
  BY <1>1, <1>10 DEF vars, dir, writing, ghosts, AllIdle
<1>11. QED
  BY <1>3, <1>4, <1>5, <1>6, <1>7, <1>8, <1>9, <1>10 DEF Next

-----------------------------------------------------------------------------
(***************************************************************************)
(* The invariant of the list's filter                                      *)
(***************************************************************************)

\* A filter that has enough objects knows all that was there.
LEMMA LookRefreshBloom ==
    ASSUME LookupInv, RefreshBloom, ~raced, ~Misleading', rbloom' # None
    PROVE  Objs(seen) \subseteq rbloom'.objs
<1> USE DEF LookupInv, CacheInv
<1>1. rpc = "bloom" /\ rbloom' = bloom /\ Usable(bloom)
  BY DEF RefreshBloom
<1>2. bloom # None /\ bloom.names \subseteq Idx /\ bloom = NewBloom(bloom.names)
  BY <1>1 DEF Usable, BloomInv, IsFilter
<1>3. seen = idxs /\ idxs \in SUBSET Idx
  BY <1>1 DEF LookInv, FilesInv
<1>4. idxs \subseteq ridxs \cup Covered(rmidxs) /\ ridxs \in SUBSET Idx
  BY <1>1, <1>3 DEF ListInv
<1>5. bloom.names \subseteq idxs \/ idxs \subseteq bloom.names
  <2>1. failed' = failed /\ seen' = seen
    BY DEF RefreshBloom, ghosts
  <2>2. CASE failed
    BY <1>1, <1>2, <1>3, <2>1, <2>2 DEF Misleading
  <2>3. CASE ~failed
    BY <1>1, <1>2, <2>3 DEF NamesInv, TurnsInv, ReaderAway
  <2>4. QED
    BY <2>2, <2>3
<1>6. CASE bloom.names \subseteq idxs
  <2>1. bloom.entries = Total(bloom.names)
    BY <1>2 DEF NewBloom
  <2>2. Total(bloom.names) >= Total(ridxs) + Total(rmidxs)
    BY <1>1, <2>1 DEF Usable
  <2>3. bloom.names = idxs
    <3>1. IsFiniteSet(rmidxs) /\ \A f \in rmidxs : Sound(f)
      BY DEF TablesInv, Sound
    <3>2. QED
      BY <1>3, <1>4, <1>6, <2>2, <3>1, NoneMissing
  <2>4. QED
    BY <1>1, <1>2, <1>3, <2>3 DEF NewBloom
<1>7. CASE idxs \subseteq bloom.names
  <2>1. Objs(idxs) \subseteq Objs(bloom.names)
    BY <1>7 DEF Objs
  <2>2. QED
    BY <1>1, <1>2, <1>3, <2>1 DEF NewBloom
<1>8. QED
  BY <1>5, <1>6, <1>7

\* What the list knows of the directory.
LEMMA LookNext ==
    ASSUME LookupInv, [Next]_vars
    PROVE  LookInv'
<1> USE ActiveAreWriters DEF LookupInv, CacheInv, LookInv
<1>1. ASSUME UNCHANGED <<idxs, rpc, seen, raced, failed, rbloom>>
      PROVE  LookInv'
  BY <1>1 DEF Objs, Misleading
<1>2. ASSUME NEW w \in Active, NEW i \in Idx, AddIdx(w, i)
      PROVE  LookInv'
  BY <1>2 DEF AddIdx, files, Objs, Misleading
<1>3. ASSUME NEW w \in Active, NEW i \in Idx, SyncRemove(w, i)
      PROVE  LookInv'
  BY <1>3 DEF SyncRemove
<1>4. ASSUME NEW w \in Active, SyncNothing(w) \/ Fail(w) \/ BloomFails(w) \/ WriterStep(w)
      PROVE  LookInv'
  <2>1. UNCHANGED <<idxs, rpc, seen, raced, rbloom>>
    BY <1>4 DEF SyncNothing, Fail, BloomFails, Stops, WriterStep, MidxScan, MidxMerge,
                MidxDies, BloomScan, BloomWrite, BloomRename, dir, files, ghosts
  <2>2. rpc = "ready" => (~failed' => ~failed)
    <3>1. CASE SyncNothing(w)
      BY <3>1 DEF SyncNothing
    <3>2. CASE Fail(w) \/ BloomFails(w) \/ WriterStep(w)
      <4>1. pc[w] # "idle"
        BY <3>2 DEF Fail, BloomFails, WriterStep, MidxScan, MidxMerge, MidxDies, BloomScan,
                    BloomWrite, BloomRename
      <4>2. rpc = "ready" => kind = "repo"
        BY <4>1 DEF TurnsInv, ReaderAway, AllIdle
      <4>3. QED
        BY <4>2 DEF TurnsInv
    <3>3. QED
      BY <1>4, <3>1, <3>2
  <2>3. QED
    BY <2>1, <2>2 DEF Objs, Misleading
<1>5. CASE GcClear \/ GcSweep
  BY <1>5 DEF GcClear, GcSweep, ListInv
<1>6. CASE ReaderNext
  <2>1. CASE RefreshBegin
    BY <2>1 DEF RefreshBegin, dir
  <2>2. CASE RefreshMidx
    BY <2>2 DEF RefreshMidx, ghosts
  <2>3. CASE RefreshFails \/ Close \/ CloseTemps
    BY <2>3 DEF RefreshFails, Close, CloseTemps
  <2>4. CASE RefreshIdxs
    BY <2>4 DEF RefreshIdxs, dir, ghosts
  <2>5. CASE RefreshBloom
    <3>1. UNCHANGED <<seen, raced, failed>> /\ rpc' = "ready"
      BY <2>5 DEF RefreshBloom, ghosts
    <3>2. QED
      BY <2>5, <3>1, LookRefreshBloom DEF Objs, Misleading
  <2>6. CASE \E o \in Objs(Idx) : Exists(o)
    <3>1. UNCHANGED <<idxs, rpc, seen, raced, failed, rbloom>>
      BY <2>6 DEF Exists, dir, ghosts
    <3>2. QED
      BY <1>1, <3>1
  <2>7. QED
    BY <1>6, <2>1, <2>2, <2>3, <2>4, <2>5, <2>6 DEF ReaderNext
<1>7. CASE UNCHANGED vars
  BY <1>1, <1>7 DEF vars, dir, files, ghosts
<1>8. QED
  BY <1>2, <1>3, <1>4, <1>5, <1>6, <1>7 DEF Next

-----------------------------------------------------------------------------
(***************************************************************************)
(* Nothing is overlooked                                                   *)
(***************************************************************************)

\* An empty directory and a closed list satisfy it.
LEMMA LookupInit ==
    ASSUME Init
    PROVE  LookupInv
<1>1. CacheInv
  BY CacheInit
<1>2. TablesInv
  BY FS_EmptySet DEF Init, TablesInv
<1>3. BloomInv
  BY DEF Init, BloomInv, IsFilter
<1>4. TurnsInv
  BY IndexCacheParameters DEF Init, TurnsInv, ReaderAway
<1>5. NamesInv /\ LookInv
  BY DEF Init, NamesInv, LookInv
<1>6. QED
  BY <1>1, <1>2, <1>3, <1>4, <1>5 DEF LookupInv

\* The invariant about tables and filters.
THEOREM LookupAlways == Spec => []LookupInv
<1>1. Init => LookupInv
  BY LookupInit
<1>2. LookupInv /\ [Next]_vars => LookupInv'
  <2>1. SUFFICES ASSUME LookupInv, [Next]_vars
                 PROVE  LookupInv'
    OBVIOUS
  <2>2. CacheInv'
    BY <2>1, FilesNext, LoopNext, ListNext DEF LookupInv, CacheInv
  <2>3. TablesInv'
    BY <2>1, TablesNext DEF LookupInv
  <2>4. QED
    BY <2>1, <2>2, <2>3, TurnsNext, BloomNext, NamesNext, LookNext DEF LookupInv
<1>3. QED
  BY <1>1, <1>2, PTL DEF Spec

\* exists (git.py) finds every object of every index that was there when the
\* list was refreshed, whatever .midx files and filter it uses and whatever
\* became of them before, but for a filter that a failed auto_midx of a client
\* left behind with the name of an index that was removed.
THEOREM LookupSeesAllAlways == Spec => []LookupSeesAll
<1>1. ASSUME LookupInv, rpc = "ready", ~raced, ~Misleading, NEW o \in Objs(seen)
      PROVE  Finds(o)
  <2>1. Found(o)
    BY <1>1 DEF LookupInv, CacheInv, ListInv, Found, Objs
  <2>2. ~Hidden(o)
    BY <1>1 DEF LookupInv, LookInv, Hidden
  <2>3. QED
    BY <2>1, <2>2 DEF Finds
<1>2. LookupInv => LookupSeesAll
  BY <1>1 DEF LookupSeesAll
<1>3. QED
  BY <1>2, LookupAlways, PTL

\* A .midx names for each of its objects an index that has it, and misses none,
\* however often it was merged.
THEOREM SourceIsRightAlways == Spec => []SourceIsRight
<1>1. ASSUME LookupInv, NEW m \in midxs \cup rmidxs
      PROVE  (\A e \in m.entries : e[1] \in Contents[m.names[e[2]]]) /\ CheckMidx(m)
  <2>1. Whole(m)
    BY <1>1 DEF LookupInv, TablesInv
  <2>2. \A e \in m.entries : e[1] \in Contents[m.names[e[2]]]
    BY <2>1 DEF Whole, RowsOf
  <2>3. CheckMidx(m)
    <3>1. ASSUME NEW i \in Covers(m) \cap idxs, NEW o \in Contents[i]
          PROVE  o \in {e[1] : e \in m.entries}
      <4>1. PICK k \in DOMAIN m.names : m.names[k] = i
        BY <1>1, <3>1 DEF Covers, Names, Range, IsIdx, LookupInv, TablesInv, CacheInv, FilesInv
      <4>2. <<o, k>> \in m.entries
        BY <2>1, <3>1, <4>1 DEF Whole, RowsOf
      <4>3. QED
        BY <4>2
    <3>2. QED
      BY <3>1 DEF CheckMidx
  <2>4. QED
    BY <2>2, <2>3
<1>2. LookupInv => SourceIsRight
  BY <1>1 DEF SourceIsRight
<1>3. QED
  BY <1>2, LookupAlways, PTL
=============================================================================
