------------------------- MODULE ForecastCacheProofs -------------------------
(***************************************************************************)
(* Theorems about ForecastCache, for every number of lookups, keys and     *)
(* reloads.  Two facts carry them: nothing is in the cache that missed     *)
(* under an older generation, and every entry, stored or still in flight,  *)
(* is of a configuration that is accounted for (Known).                    *)
(***************************************************************************)
EXTENDS ForecastCache, FiniteSetTheorems, TLAPS

\* The configurations an entry may be of without being stale: the live one,
\* and while a reload may still roll back or has yet to invalidate, the
\* previous one.
Current == {config} \cup (IF reload = "idle" THEN {} ELSE {previous})

Known(e) == /\ e.snapGen <= generation
            /\ e.snapGen < generation \/ e.cfg \in Current \cup rejected

KnownInv == /\ TypeOK
            /\ \A k \in Live : Known(cache[k])
            /\ \A l \in Lookups : work[l] # None => Known(work[l].entry)

\* The cache holds finitely many entries, no more than its size.
SizeInv == IsFiniteSet(Live) /\ SizeCapped

-----------------------------------------------------------------------------
\* What a store leaves in the cache: the entry, and otherwise what was there.
LEMMA StoredEntries ==
  ASSUME NEW k \in Keys, NEW e \in Entries, TypeOK, cache' \in Stored(k, e)
  PROVE  /\ cache' \in [Keys -> Entries \cup {None}]
         /\ \A x \in Keys : cache'[x] \in {e, None, cache[x]}
<1>1. CASE cache' = [cache EXCEPT ![k] = e]
  BY <1>1 DEF TypeOK
<1>2. ASSUME NEW x \in Evictable, cache' = [cache EXCEPT ![x] = None, ![k] = e]
      PROVE  /\ cache' \in [Keys -> Entries \cup {None}]
             /\ \A y \in Keys : cache'[y] \in {e, None, cache[y]}
  BY <1>2 DEF TypeOK
<1>3. QED
  BY <1>1, <1>2 DEF Stored

\* Every step keeps the types.
LEMMA TypeStep == TypeOK /\ [Next]_vars => TypeOK'
<1> SUFFICES ASSUME TypeOK, [Next]_vars PROVE TypeOK'
  OBVIOUS
<1> USE DEF reloadVars
<1>1. ASSUME NEW l \in Lookups, NEW k \in Keys, Snapshot(l, k) PROVE TypeOK'
  <2>1. [at |-> "snapshot", key |-> k,
         entry |-> [cfg |-> config, snapGen |-> generation, missGen |-> generation]] \in Work
    BY DEF TypeOK, Work, Entries
  <2>2. QED
    BY <1>1, <2>1 DEF Snapshot, TypeOK
<1>2. ASSUME NEW l \in Lookups, Miss(l) PROVE TypeOK'
  <2>1. work[l] \in Work
    BY <1>2 DEF Miss, At, TypeOK
  <2>2. [work[l] EXCEPT !.at = "fetch", !.entry.missGen = generation] \in Work
    BY <2>1 DEF Work, Entries, TypeOK
  <2>3. work' = [work EXCEPT ![l] =
                   [work[l] EXCEPT !.at = "fetch", !.entry.missGen = generation]]
    BY <1>2 DEF Miss, TypeOK
  <2>4. QED
    BY <1>2, <2>2, <2>3 DEF Miss, TypeOK
<1>3. ASSUME NEW l \in Lookups, StoreResult(l) PROVE TypeOK'
  <2>1. work[l] \in Work
    BY <1>3 DEF StoreResult, At, TypeOK
  <2>2. cache' \in [Keys -> Entries \cup {None}]
    BY <1>3, <2>1, StoredEntries DEF StoreResult, Work
  <2>3. QED
    BY <1>3, <2>2 DEF StoreResult, Done, TypeOK
<1>4. ASSUME NEW l \in Lookups, Hit(l) \/ Fail(l) \/ DropResult(l) PROVE TypeOK'
  BY <1>4 DEF Hit, Fail, DropResult, Done, TypeOK
<1>5. ASSUME NEW k \in Keys, Expire(k) PROVE TypeOK'
  BY <1>5 DEF Expire, TypeOK
<1>6. CASE Swap
  BY <1>6 DEF Swap, TypeOK
<1>7. CASE Reconcile
  BY <1>7 DEF Reconcile, TypeOK
<1>8. CASE Rollback
  BY <1>8 DEF Rollback, TypeOK
<1>9. CASE Invalidate
  BY <1>9 DEF Invalidate, TypeOK
<1>10. CASE UNCHANGED vars
  BY <1>10 DEF vars, TypeOK
<1>11. QED
  BY <1>1, <1>2, <1>3, <1>4, <1>5, <1>6, <1>7, <1>8, <1>9, <1>10
     DEF Next, LookupStep

\* The holder, the reload, the cache and the lookups keep their types.
THEOREM TypeCorrect == Spec => []TypeOK
<1>1. Init => TypeOK
  BY DEF Init, TypeOK
<1>2. QED
  BY <1>1, TypeStep, PTL DEF Spec

-----------------------------------------------------------------------------
\* A fetch that missed before an invalidation is not in the cache after it.
LEMMA GenerationStep ==
  TypeOK /\ NoResurrection /\ [Next]_vars => NoResurrection'
<1> SUFFICES ASSUME TypeOK, NoResurrection, [Next]_vars PROVE NoResurrection'
  OBVIOUS
<1> USE DEF NoResurrection, Live, reloadVars
<1>1. ASSUME NEW l \in Lookups, StoreResult(l) PROVE NoResurrection'
  <2>1. work[l] \in Work
    BY <1>1 DEF StoreResult, At, TypeOK
  <2>2. \A x \in Keys : cache'[x] \in {work[l].entry, None, cache[x]}
    BY <1>1, <2>1, StoredEntries DEF StoreResult, Work
  <2>3. QED
    BY <1>1, <2>2 DEF StoreResult
<1>2. ASSUME NEW k \in Keys, Expire(k) PROVE NoResurrection'
  BY <1>2 DEF Expire, TypeOK
<1>3. CASE Invalidate
  BY <1>3 DEF Invalidate
<1>4. CASE UNCHANGED <<cache, generation>>
  BY <1>4
<1>5. QED
  BY <1>1, <1>2, <1>3, <1>4
     DEF Next, LookupStep, Snapshot, Hit, Miss, Fail, DropResult, Swap, Reconcile,
         Rollback, vars

\* The generation guard of lookup, for every interleaving of lookups and reloads.
THEOREM NoResurrectionHolds == Spec => []NoResurrection
<1>1. Init => NoResurrection
  BY DEF Init, NoResurrection, Live
<1>2. QED
  BY <1>1, GenerationStep, TypeCorrect, PTL DEF Spec

-----------------------------------------------------------------------------
\* Every step keeps the account of where entries come from.
LEMMA KnownStep == KnownInv /\ [Next]_vars => KnownInv'
<1> SUFFICES ASSUME KnownInv, [Next]_vars PROVE KnownInv'
  OBVIOUS
<1> USE DEF KnownInv, Known, Current, Live, reloadVars
<1>0. TypeOK'
  BY TypeStep
<1>1. ASSUME NEW l \in Lookups, NEW k \in Keys, Snapshot(l, k) PROVE KnownInv'
  BY <1>0, <1>1 DEF Snapshot, TypeOK
<1>2. ASSUME NEW l \in Lookups, Miss(l) PROVE KnownInv'
  <2>1. work[l] \in Work
    BY <1>2 DEF Miss, At, TypeOK
  <2>2. /\ \A x \in Lookups \ {l} : work'[x] = work[x]
        /\ work'[l].entry.cfg = work[l].entry.cfg
        /\ work'[l].entry.snapGen = work[l].entry.snapGen
    BY <1>2, <2>1 DEF Miss, TypeOK, Work, Entries
  <2>3. QED
    BY <1>0, <1>2, <2>2 DEF Miss, At
<1>3. ASSUME NEW l \in Lookups, StoreResult(l) PROVE KnownInv'
  <2>1. work[l] \in Work /\ work[l] # None
    BY <1>3 DEF StoreResult, At, TypeOK
  <2>2. \A x \in Keys : cache'[x] \in {work[l].entry, None, cache[x]}
    BY <1>3, <2>1, StoredEntries DEF StoreResult, Work
  <2>3. \A x \in Lookups : work'[x] \in {None, work[x]}
    BY <1>3 DEF StoreResult, Done, TypeOK
  <2>4. QED
    BY <1>0, <1>3, <2>1, <2>2, <2>3 DEF StoreResult
<1>4. ASSUME NEW l \in Lookups, Hit(l) \/ Fail(l) \/ DropResult(l) PROVE KnownInv'
  BY <1>0, <1>4 DEF Hit, Fail, DropResult, Done, TypeOK
<1>5. ASSUME NEW k \in Keys, Expire(k) PROVE KnownInv'
  BY <1>0, <1>5 DEF Expire, TypeOK
<1>6. CASE Swap
  BY <1>0, <1>6 DEF Swap, TypeOK
<1>7. CASE Reconcile
  BY <1>0, <1>7 DEF Reconcile, TypeOK
<1>8. CASE Rollback
  BY <1>0, <1>8 DEF Rollback, TypeOK
<1>9. CASE Invalidate
  <2>1. \A l \in Lookups : work[l] # None => work[l].entry.snapGen \in Nat
    BY DEF TypeOK, Work, Entries
  <2>2. generation \in Nat /\ generation' = generation + 1
    BY <1>9 DEF Invalidate, TypeOK
  <2>3. QED
    BY <1>0, <1>9, <2>1, <2>2 DEF Invalidate
<1>10. CASE UNCHANGED vars
  BY <1>0, <1>10 DEF vars
<1>11. QED
  BY <1>1, <1>2, <1>3, <1>4, <1>5, <1>6, <1>7, <1>8, <1>9, <1>10
     DEF Next, LookupStep

\* Between reloads an entry is of the live configuration, of one that was
\* rolled back, or of a snapshot older than the last invalidation.
THEOREM FreshEntryHolds == Spec => []FreshEntry
<1>1. Init => KnownInv
  BY DEF Init, KnownInv, Known, Live, TypeOK
<1>2. KnownInv => FreshEntry
  BY DEF KnownInv, Known, Current, FreshEntry
<1>3. QED
  BY <1>1, <1>2, KnownStep, PTL DEF Spec

-----------------------------------------------------------------------------
\* Making room and storing keeps the cache finite and within its size.
LEMMA StoredSize ==
  ASSUME NEW k \in Keys, NEW e, TypeOK, SizeInv, cache' \in Stored(k, e)
  PROVE  SizeInv'
<1> USE SizeAssumption DEF SizeInv, SizeCapped
<1>0. Cardinality(Live) \in Nat
  BY FS_CardinalityType
<1>1. ASSUME k \in Live \/ Cardinality(Live) < MaxSize PROVE SizeInv'
  <2>1. cache' = [cache EXCEPT ![k] = e]
    BY <1>1 DEF Stored
  <2>2. Live' \subseteq Live \cup {k}
    BY <2>1 DEF Live, TypeOK
  <2>3. /\ IsFiniteSet(Live \cup {k})
        /\ Cardinality(Live \cup {k}) = IF k \in Live THEN Cardinality(Live)
                                                      ELSE Cardinality(Live) + 1
    BY FS_AddElement
  <2>4. Cardinality(Live \cup {k}) <= MaxSize
    BY <1>0, <1>1, <2>3
  <2>5. IsFiniteSet(Live') /\ Cardinality(Live') <= Cardinality(Live \cup {k})
    BY <2>2, <2>3, FS_Subset
  <2>6. Cardinality(Live') \in Nat /\ Cardinality(Live \cup {k}) \in Nat
    BY <2>3, <2>5, FS_CardinalityType
  <2>7. QED
    BY <2>4, <2>5, <2>6
<1>2. ASSUME ~(k \in Live \/ Cardinality(Live) < MaxSize) PROVE SizeInv'
  <2>1. PICK x \in Evictable : cache' = [cache EXCEPT ![x] = None, ![k] = e]
    BY <1>2 DEF Stored
  <2>2. x \in Live
    BY DEF Evictable
  <2>3. /\ IsFiniteSet(Live \ {x})
        /\ Cardinality(Live \ {x}) = Cardinality(Live) - 1
    BY <2>2, FS_RemoveElement
  <2>4. Live' \subseteq (Live \ {x}) \cup {k}
    BY <2>1, <2>2 DEF Live, TypeOK
  <2>5. k \notin Live \ {x}
    BY <1>2
  <2>6. /\ IsFiniteSet((Live \ {x}) \cup {k})
        /\ Cardinality((Live \ {x}) \cup {k}) = Cardinality(Live \ {x}) + 1
    BY <2>3, <2>5, FS_AddElement
  <2>7. IsFiniteSet(Live') /\ Cardinality(Live') <= Cardinality((Live \ {x}) \cup {k})
    BY <2>4, <2>6, FS_Subset
  <2>8. Cardinality(Live') \in Nat
    BY <2>7, FS_CardinalityType
  <2>9. Cardinality(Live') <= Cardinality(Live)
    BY <1>0, <2>3, <2>6, <2>7
  <2>10. QED
    BY <1>0, <2>7, <2>8, <2>9
<1>3. QED
  BY <1>1, <1>2

\* The cache never outgrows its size, whatever is pinned.
THEOREM SizeCappedHolds == Spec => []SizeCapped
<1>1. Init => SizeInv
  <2> SUFFICES ASSUME Init PROVE SizeInv
    OBVIOUS
  <2>1. Live = {}
    BY DEF Init, Live
  <2>2. QED
    BY <2>1, FS_EmptySet, SizeAssumption DEF SizeInv, SizeCapped
<1>2. TypeOK /\ SizeInv /\ [Next]_vars => SizeInv'
  <2> SUFFICES ASSUME TypeOK, SizeInv, [Next]_vars PROVE SizeInv'
    OBVIOUS
  <2>1. ASSUME NEW l \in Lookups, StoreResult(l) PROVE SizeInv'
    <3>1. work[l].key \in Keys
      BY <2>1 DEF StoreResult, At, TypeOK, Work
    <3>2. QED
      BY <2>1, <3>1, StoredSize DEF StoreResult
  <2>2. ASSUME Live' \subseteq Live PROVE SizeInv'
    <3>1. IsFiniteSet(Live') /\ Cardinality(Live') <= Cardinality(Live)
      BY <2>2, FS_Subset DEF SizeInv
    <3>2. Cardinality(Live') \in Nat /\ Cardinality(Live) \in Nat
      BY <3>1, FS_CardinalityType DEF SizeInv
    <3>3. QED
      BY <3>1, <3>2, SizeAssumption DEF SizeInv, SizeCapped
  <2>3. ASSUME NEW k \in Keys, Expire(k) PROVE Live' \subseteq Live
    BY <2>3 DEF Expire, Live, TypeOK
  <2>4. ASSUME Invalidate PROVE Live' \subseteq Live
    BY <2>4 DEF Invalidate, Live
  <2>5. ASSUME cache' = cache PROVE Live' \subseteq Live
    BY <2>5 DEF Live
  <2>6. QED
    BY <2>1, <2>2, <2>3, <2>4, <2>5
       DEF Next, LookupStep, Snapshot, Hit, Miss, Fail, DropResult, Swap, Reconcile,
           Rollback, vars, reloadVars
<1>3. SizeInv => SizeCapped
  BY DEF SizeInv
<1>4. QED
  BY <1>1, <1>2, <1>3, TypeCorrect, PTL DEF Spec

\* No store evicts a plain entry while there is a suffixed one to evict.
THEOREM PlainPinnedHolds == Spec => PlainPinned
<1> DEFINE Pinned == \A p \in Plain, k \in Keys :
                       (/\ cache[p] # None /\ cache'[p] = None
                        /\ cache[k] # cache'[k] /\ cache'[k] # None)
                         => \A x \in Suffixed : cache[x] = None
<1>1. TypeOK /\ [Next]_vars => Pinned
  <2> SUFFICES ASSUME TypeOK, [Next]_vars PROVE Pinned
    OBVIOUS
  <2>1. ASSUME NEW l \in Lookups, StoreResult(l) PROVE Pinned
    <3> DEFINE j == work[l].key
               e == work[l].entry
    <3>1. cache' \in Stored(j, e) /\ j \in Keys
      BY <2>1 DEF StoreResult, At, TypeOK, Work
    <3> HIDE DEF j, e
    <3>2. CASE cache' = [cache EXCEPT ![j] = e]
      BY <3>1, <3>2 DEF TypeOK, Keys
    <3>3. ASSUME NEW x \in Evictable, cache' = [cache EXCEPT ![x] = None, ![j] = e]
          PROVE  Pinned
      BY <3>1, <3>3, KeysAssumption DEF Evictable, Live, TypeOK, Keys
    <3>4. QED
      BY <3>1, <3>2, <3>3 DEF Stored
  <2>2. ASSUME NEW k \in Keys, Expire(k) PROVE Pinned
    BY <2>2 DEF Expire, TypeOK
  <2>3. CASE Invalidate
    BY <2>3 DEF Invalidate
  <2>4. CASE cache' = cache
    BY <2>4
  <2>5. QED
    BY <2>1, <2>2, <2>3, <2>4
       DEF Next, LookupStep, Snapshot, Hit, Miss, Fail, DropResult, Swap, Reconcile,
           Rollback, vars, reloadVars
<1>2. QED
  BY <1>1, TypeCorrect, PTL DEF Spec, PlainPinned
-----------------------------------------------------------------------------
(* The reload that the cache meets keeps the promise of the holder.          *)
THEOREM HolderKept == Spec => ImplementsHolder
<1>1. Init => Holder!Init
  BY ReloadsAssumption DEF Init, Holder!Init
<1>2. TypeOK /\ [Next]_vars => [Holder!Next]_(Holder!configVars)
  <2> SUFFICES ASSUME TypeOK, [Next]_vars PROVE [Holder!Next]_(Holder!configVars)
    OBVIOUS
  <2> USE DEF Holder!configVars
  <2>1. CASE UNCHANGED reloadVars
    BY <2>1 DEF reloadVars
  <2>2. CASE Swap
    <3>1. reload = "idle" /\ reload' = "swapped" /\ previous' = config
          /\ config' = attempts + 1 /\ attempts + 1 \in 0..MaxReloads
      BY <2>2, ReloadsAssumption DEF Swap, TypeOK
    <3>2. Holder!Replace(attempts + 1)
      BY <3>1 DEF Holder!Replace
    <3>3. QED
      BY <3>1, <3>2 DEF Holder!Next
  <2>3. CASE Reconcile
    BY <2>3 DEF Reconcile, Holder!Next, Holder!Keep
  <2>4. CASE Rollback
    BY <2>4 DEF Rollback, Holder!Next, Holder!PutBack
  <2>5. CASE Invalidate
    BY <2>5 DEF Invalidate
  <2>6. QED
    BY <2>1, <2>2, <2>3, <2>4, <2>5 DEF Next, LookupStep, vars, Snapshot, Hit, Miss, Fail,
       StoreResult, DropResult, Expire
<1>3. QED
  BY <1>1, <1>2, TypeCorrect, PTL DEF Spec, Holder!Spec, ImplementsHolder
=============================================================================
