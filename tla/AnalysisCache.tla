--------------------------- MODULE AnalysisCache ---------------------------
(***************************************************************************)
(* The cache of analysis results (analysis/cache.go): a map of bounded     *)
(* size under one mutex, with an expiry time for each entry, eviction of   *)
(* the entry that was not used for the longest time, and a goroutine that  *)
(* removes what has expired.  Every operation is one critical section.     *)
(***************************************************************************)
EXTENDS Naturals, FiniteSets

CONSTANTS
  Key, Value,
  MaxSize,
  DefaultTTL,
  TTLs,         \* the argument ttl of Set; 0 stands for the default
  MaxClock      \* bound of the model: the last instant

ASSUME CacheConstants ==
  /\ IsFiniteSet(Key)
  /\ MaxSize \in Nat /\ DefaultTTL \in Nat /\ TTLs \subseteq Nat
  /\ MaxClock \in Nat \ {0}

VARIABLES
  items,        \* c.items: [value, expiresAt, accessedAt] by key
  statsSize,    \* c.stats.Size
  clock,        \* time.Now(), which two operations may read alike
  noted,        \* history: the items of a cache without a bound
  lastUse       \* history: when a key was last set or found, 0 if never

cacheVars == <<items, statsSize, clock, noted, lastUse>>

Item == [value : Value, expiresAt : Nat, accessedAt : Nat]

NoItems == [k \in {} |-> {}]

Without(m, K) == [k \in DOMAIN m \ K |-> m[k]]
With(m, key, i) == [k \in DOMAIN m \cup {key} |-> IF k = key THEN i ELSE m[k]]

Expired(i) == clock > i.expiresAt

Store(m) == items' = m /\ statsSize' = Cardinality(DOMAIN m)

CacheInit ==
  /\ items = NoItems /\ statsSize = 0 /\ clock = 1
  /\ noted = NoItems /\ lastUse = [k \in Key |-> 0]

CacheTypeOK ==
  /\ DOMAIN items \subseteq Key /\ DOMAIN noted \subseteq Key
  /\ \A k \in DOMAIN items : items[k] \in Item
  /\ \A k \in DOMAIN noted : noted[k] \in Item
  /\ statsSize \in Nat /\ clock \in 1 .. MaxClock
  /\ lastUse \in [Key -> 0 .. clock]

\* A key that is there is used, or removed when it has expired.
Get(k) ==
  /\ k \in DOMAIN items
  /\ IF Expired(items[k])
       THEN /\ Store(Without(items, {k})) /\ noted' = Without(noted, {k})
            /\ UNCHANGED lastUse
       ELSE LET used == [items[k] EXCEPT !.accessedAt = clock]
            IN  /\ items' = With(items, k, used) /\ UNCHANGED statsSize
                /\ noted' = With(noted, k, used)
                /\ lastUse' = [lastUse EXCEPT ![k] = clock]
  /\ UNCHANGED clock

\* Mutant: the entry that was used last goes.
MostRecent(m) ==
  {k \in DOMAIN m : \A j \in DOMAIN m : m[j].accessedAt <= m[k].accessedAt}

\* The keys that evictLRU may pick, which goes through the map in any order.
LeastRecent(m) ==
  {k \in DOMAIN m : \A j \in DOMAIN m : m[k].accessedAt <= m[j].accessedAt}

\* A full cache evicts an entry, even if the key is there already.
Set(k, v, ttl) ==
  /\ LET i == [value |-> v, accessedAt |-> clock,
               expiresAt |-> clock + (IF ttl = 0 THEN DefaultTTL ELSE ttl)]
     IN  /\ IF Cardinality(DOMAIN items) >= MaxSize /\ items # NoItems
              THEN \E old \in LeastRecent(items) :
                     Store(With(Without(items, {old}), k, i))
              ELSE Store(With(items, k, i))
         /\ noted' = With(noted, k, i)
  /\ lastUse' = [lastUse EXCEPT ![k] = clock]
  /\ UNCHANGED clock

Delete(k) ==
  /\ Store(Without(items, {k})) /\ noted' = Without(noted, {k})
  /\ UNCHANGED <<clock, lastUse>>

Clear == /\ Store(NoItems) /\ noted' = NoItems
         /\ UNCHANGED <<clock, lastUse>>

\* The ticker of the cleanup goroutine.
CleanUp ==
  /\ LET old == {k \in DOMAIN items : Expired(items[k])}
     IN  Store(Without(items, old)) /\ noted' = Without(noted, old)
  /\ UNCHANGED <<clock, lastUse>>

CacheTick == clock < MaxClock /\ clock' = clock + 1
             /\ UNCHANGED <<items, statsSize, noted, lastUse>>

CacheNext ==
  \/ \E k \in Key : Get(k) \/ Delete(k)
  \/ \E k \in Key, v \in Value, ttl \in TTLs : Set(k, v, ttl)
  \/ Clear \/ CleanUp \/ CacheTick

-----------------------------------------------------------------------------
(* Property. *)

\* cache.go: what is in the cache is what was set last under that key; there
\* is never more than the bound allows, and the statistics say how much; and
\* an entry that has not expired is gone only if as many other keys as fit
\* beside it and the entry that is being set have been used since.
CacheSound ==
  /\ \A k \in DOMAIN items : k \in DOMAIN noted /\ items[k] = noted[k]
  /\ statsSize = Cardinality(DOMAIN items)
  /\ statsSize <= (IF MaxSize = 0 THEN 1 ELSE MaxSize)
  /\ \A k \in DOMAIN noted :
       \/ k \in DOMAIN items \/ Expired(noted[k])
       \/ Cardinality({j \in Key \ {k} : lastUse[j] >= lastUse[k]}) + 1 >= MaxSize

=============================================================================
