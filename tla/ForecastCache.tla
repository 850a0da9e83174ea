---------------------------- MODULE ForecastCache ----------------------------
(***************************************************************************)
(* The on-demand forecast cache (interactive/cache.py) between the bot's   *)
(* lookups and a configuration reload on the main thread.                  *)
(*                                                                         *)
(* A lookup is several steps: the handler takes its configuration          *)
(* snapshot (bot.on_message, wiring._dispatch), awaits, then an executor   *)
(* thread probes the cache under the lock, fetches without it and stores   *)
(* under it.  A reload swaps the holder, reconciles the jobs, and then     *)
(* either invalidates the cache or rolls the holder back.                  *)
(***************************************************************************)
EXTENDS Naturals, FiniteSets

CONSTANTS Lookups,     \* concurrent lookups
          Plain,       \* keys of !weather: the location id
          Suffixed,    \* keys of forecasts: (location id, suffix)
          MaxSize,     \* the cache's maxsize
          MaxReloads,  \* bound: reloads attempted
          None         \* no entry

ASSUME SizeAssumption == MaxSize \in Nat \ {0}
ASSUME ReloadsAssumption == MaxReloads \in Nat
ASSUME KeysAssumption == Plain \cap Suffixed = {}

Keys == Plain \cup Suffixed

VARIABLES
  config,      \* ConfigHolder: the version of the live configuration
  reload,      \* the reload in progress: idle, swapped or committed
  previous,    \* the configuration a reload in progress rolls back to
  attempts,    \* history: reloads attempted, which numbers the versions
  rejected,    \* history: versions that were rolled back
  cache,       \* cache[k]: the entry of key k
  generation,  \* ForecastCache._generation
  work         \* work[l]: the lookup l is in, or None

reloadVars == <<config, reload, previous, attempts, rejected>>
vars == <<reloadVars, cache, generation, work>>

\* An entry: the configuration it was fetched under, the generation when
\* that snapshot was taken, and the generation at the miss.
Entries == [cfg : Nat, snapGen : Nat, missGen : Nat]

\* A lookup in progress: where it is, its key and the entry it would store.
Work == [at : {"snapshot", "fetch"}, key : Keys, entry : Entries]

Init ==
  /\ config = 0
  /\ reload = "idle"
  /\ previous = 0
  /\ attempts = 0
  /\ rejected = {}
  /\ cache = [k \in Keys |-> None]
  /\ generation = 0
  /\ work = [l \in Lookups |-> None]

At(l, place) == work[l] # None /\ work[l].at = place
Done(l) == work' = [work EXCEPT ![l] = None]

Live == {k \in Keys : cache[k] # None}

-----------------------------------------------------------------------------
(* The handler reads holder.current() once and then awaits. *)
Snapshot(l, k) ==
  /\ work[l] = None
  /\ work' = [work EXCEPT ![l] =
       [at |-> "snapshot", key |-> k,
        entry |-> [cfg |-> config, snapGen |-> generation, missGen |-> generation]]]
  /\ UNCHANGED <<reloadVars, cache, generation>>

(* lookup, first critical section: a hit answers from the cache. *)
Hit(l) ==
  /\ At(l, "snapshot")
  /\ cache[work[l].key] # None
  /\ Done(l)
  /\ UNCHANGED <<reloadVars, cache, generation>>

\* A miss captures the generation in the same critical section.
Miss(l) ==
  /\ At(l, "snapshot")
  /\ cache[work[l].key] = None
  /\ work' = [work EXCEPT ![l].at = "fetch", ![l].entry.missGen = generation]
  /\ UNCHANGED <<reloadVars, cache, generation>>

\* resolve_location or lookup_weather raises: nothing is stored.
Fail(l) ==
  /\ work[l] # None
  /\ Done(l)
  /\ UNCHANGED <<reloadVars, cache, generation>>

\* Mutant of Evictable: plain TTLCache eviction, nothing is pinned.
EvictAnything == Live

\* The keys popitem may evict to make room: suffixed ones while there are any.
Evictable == IF Live \cap Suffixed # {} THEN Live \cap Suffixed ELSE Live

\* Mutant of Stored: the size is not looked at.
StoredAnyway(k, e) == {[cache EXCEPT ![k] = e]}

\* The caches that hold entry e under k, one key evicted if it was full.
Stored(k, e) ==
  IF k \in Live \/ Cardinality(Live) < MaxSize
    THEN {[cache EXCEPT ![k] = e]}
    ELSE {[cache EXCEPT ![x] = None, ![k] = e] : x \in Evictable}

\* Mutant of StoreResult: what is stored is the lookup, not its result.
StoreWork(l) ==
  /\ At(l, "fetch")
  /\ work[l].entry.missGen = generation
  /\ cache' \in Stored(work[l].key, work[l])
  /\ Done(l)
  /\ UNCHANGED <<reloadVars, generation>>

(* lookup, second critical section, after the fetch. *)
StoreResult(l) ==
  /\ At(l, "fetch")
  /\ work[l].entry.missGen = generation
  /\ cache' \in Stored(work[l].key, work[l].entry)
  /\ Done(l)
  /\ UNCHANGED <<reloadVars, generation>>

\* Mutant of DropResult: no generation guard, the old result is stored.
StoreStale(l) ==
  /\ At(l, "fetch")
  /\ work[l].entry.missGen # generation
  /\ cache' \in Stored(work[l].key, work[l].entry)
  /\ Done(l)
  /\ UNCHANGED <<reloadVars, generation>>

\* The generation moved while the fetch was in flight: the result is dropped.
DropResult(l) ==
  /\ At(l, "fetch")
  /\ work[l].entry.missGen # generation
  /\ Done(l)
  /\ UNCHANGED <<reloadVars, cache, generation>>

\* Mutant of Expire: a pinned entry outlives its time to live.
ExpireSuffixed(k) ==
  /\ cache[k] # None
  /\ k \in Suffixed
  /\ cache' = [cache EXCEPT ![k] = None]
  /\ UNCHANGED <<reloadVars, generation, work>>

\* The TTL of an entry passes.
Expire(k) ==
  /\ cache[k] # None
  /\ cache' = [cache EXCEPT ![k] = None]
  /\ UNCHANGED <<reloadVars, generation, work>>

-----------------------------------------------------------------------------
(* ReloadEngine: swap, reconcile, then commit or roll back. *)
Swap ==
  /\ reload = "idle"
  /\ attempts < MaxReloads
  /\ attempts' = attempts + 1
  /\ previous' = config
  /\ config' = attempts + 1
  /\ reload' = "swapped"
  /\ UNCHANGED <<rejected, cache, generation, work>>

Reconcile ==
  /\ reload = "swapped"
  /\ reload' = "committed"
  /\ UNCHANGED <<config, previous, attempts, rejected, cache, generation, work>>

\* register_jobs raised: keep the old configuration; no hook runs.
Rollback ==
  /\ reload = "swapped"
  /\ config' = previous
  /\ rejected' = rejected \cup {config}
  /\ reload' = "idle"
  /\ UNCHANGED <<previous, attempts, cache, generation, work>>

\* Mutant of Invalidate: clear without a new generation (before F13).
ClearOnly ==
  /\ reload = "committed"
  /\ cache' = [k \in Keys |-> None]
  /\ reload' = "idle"
  /\ UNCHANGED <<config, previous, attempts, rejected, generation, work>>

\* on_applied: invalidate, before the slow post.
Invalidate ==
  /\ reload = "committed"
  /\ cache' = [k \in Keys |-> None]
  /\ generation' = generation + 1
  /\ reload' = "idle"
  /\ UNCHANGED <<config, previous, attempts, rejected, work>>

LookupStep(l) == Hit(l) \/ Miss(l) \/ Fail(l) \/ StoreResult(l) \/ DropResult(l)

Next == \/ \E l \in Lookups, k \in Keys : Snapshot(l, k)
        \/ \E l \in Lookups : LookupStep(l)
        \/ \E k \in Keys : Expire(k)
        \/ Swap \/ Reconcile \/ Rollback \/ Invalidate

\* The TTL timer runs, a lookup ends, a reload in progress is carried through.
Fairness == /\ \A k \in Keys : WF_vars(Expire(k))
            /\ \A l \in Lookups : WF_vars(LookupStep(l))
            /\ WF_vars(Reconcile \/ Rollback) /\ WF_vars(Invalidate)

Spec == Init /\ [][Next]_vars

FairSpec == Spec /\ Fairness

-----------------------------------------------------------------------------
(* Properties *)

\* Types of the holder, the reload, the cache and the lookups.
TypeOK ==
  /\ config \in Nat /\ previous \in Nat /\ attempts \in Nat /\ generation \in Nat
  /\ reload \in {"idle", "swapped", "committed"}
  /\ rejected \in SUBSET Nat
  /\ cache \in [Keys -> Entries \cup {None}]
  /\ work \in [Lookups -> Work \cup {None}]

\* A fetch that missed before an invalidation is never in the cache after
\* it: the generation guard of lookup (D-03 / F13).
NoResurrection == \A k \in Live : cache[k].missGen = generation

\* Between reloads an entry is of the live configuration, except for the two
\* ways round the guard: a snapshot older than the last invalidation, and a
\* snapshot of a configuration that was rolled back.
FreshEntry ==
  reload = "idle" =>
    \A k \in Live : \/ cache[k].cfg = config
                    \/ cache[k].snapGen < generation
                    \/ cache[k].cfg \in rejected

\* The claim of ForecastCache.lookup, that the generation guard drops a
\* pre-reload snapshot "so a stale entry is never served to TTL": FreshEntry
\* without the exception for the age of the snapshot.
NeverStale ==
  reload = "idle" => \A k \in Live : cache[k].cfg = config \/ cache[k].cfg \in rejected

\* The cache keeps to its size.
SizeCapped == Cardinality(Live) <= MaxSize

\* Storing an entry evicts a plain one only if there is no suffixed one (D-04).
PlainPinned ==
  [][\A p \in Plain, k \in Keys :
       (/\ cache[p] # None /\ cache'[p] = None
        /\ cache[k] # cache'[k] /\ cache'[k] # None)
         => \A x \in Suffixed : cache[x] = None]_vars

\* The reload as this module has it keeps the holder's promise to the lookups.
Holder == INSTANCE LiveConfig WITH
            Configs <- 0..MaxReloads, live <- config,
            fallback <- IF reload = "swapped" THEN {previous} ELSE {}

\* What a lookup snapshots is live, or may be again: nothing but a reload and
\* its rollback moves the configuration under it.
ImplementsHolder == Holder!Spec

\* A stale entry is gone, or replaced, when its time to live has passed.
StaleEnds ==
  \A k \in Keys :
    (cache[k] # None /\ cache[k].cfg # config) ~> (cache[k] = None \/ cache[k].cfg = config)
=============================================================================
