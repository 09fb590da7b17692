---------------------------- MODULE ToolsProofs ----------------------------
(***************************************************************************)
(* Theorems about the tools: the analysis and its cache, a call and what   *)
(* it waits for, the languages asked in parallel, results in pages, edits, *)
(* the types of all variables, and, with the lemmas of LookupProofs, the   *)
(* names of files.                                                         *)
(***************************************************************************)
EXTENDS MCTools, LookupProofs, SequenceTheorems, FunctionTheorems,
        FiniteSetTheorems, WellFoundedInduction, TLAPS

-----------------------------------------------------------------------------
(* AnalysisCache. *)

\* The keys that were used since k was.
UsedSince(k) == {j \in Key \ {k} : lastUse[j] >= lastUse[k]}

CacheItems ==
  /\ items \in [DOMAIN items -> Item] /\ DOMAIN items \subseteq Key
  /\ noted \in [DOMAIN noted -> Item] /\ DOMAIN noted \subseteq Key
  /\ clock \in 1 .. MaxClock /\ lastUse \in [Key -> 0 .. clock]
  /\ \A k \in DOMAIN items : /\ k \in DOMAIN noted /\ items[k] = noted[k]
                             /\ items[k].accessedAt = lastUse[k]

CacheSize ==
  /\ statsSize = Cardinality(DOMAIN items)
  /\ statsSize <= (IF MaxSize = 0 THEN 1 ELSE MaxSize)

CacheForgets ==
  \A k \in DOMAIN noted :
    k \in DOMAIN items \/ Expired(noted[k]) \/ Cardinality(UsedSince(k)) + 1 >= MaxSize

CacheInv == CacheItems /\ CacheSize /\ CacheForgets

\* The keys in the cache are finitely many.
LEMMA KeysFinite ==
  ASSUME NEW K \in SUBSET Key
  PROVE  /\ IsFiniteSet(K) /\ Cardinality(K) \in Nat
         /\ \A k : /\ IsFiniteSet(K \cup {k}) /\ IsFiniteSet(K \ {k})
                   /\ Cardinality(K \cup {k}) <= Cardinality(K) + 1
                   /\ k \in K => Cardinality(K \ {k}) = Cardinality(K) - 1
<1>1. IsFiniteSet(K) /\ Cardinality(K) \in Nat
  BY CacheConstants, FS_Subset, FS_CardinalityType
<1>2. \A k : /\ IsFiniteSet(K \cup {k})
             /\ Cardinality(K \cup {k}) <= Cardinality(K) + 1
  BY <1>1, FS_AddElement
<1>3. \A k : /\ IsFiniteSet(K \ {k})
             /\ k \in K => Cardinality(K \ {k}) = Cardinality(K) - 1
  BY <1>1, FS_RemoveElement
<1> QED
  BY <1>1, <1>2, <1>3

\* A key that is forgotten stays behind the others while they are used.
LEMMA UseGrows ==
  ASSUME CacheItems, NEW k \in Key, NEW j \in Key, NEW n \in Nat, k # j,
         clock <= n, lastUse' = [lastUse EXCEPT ![j] = n]
  PROVE  Cardinality(UsedSince(k)') >= Cardinality(UsedSince(k))
<1>1. UsedSince(k) \subseteq UsedSince(k)'
  <2>1. ASSUME NEW i \in Key, lastUse[i] >= lastUse[k] PROVE lastUse'[i] >= lastUse'[k]
    <3>1. /\ clock \in Nat /\ lastUse[i] \in Nat /\ lastUse[k] \in Nat
          /\ lastUse[i] <= clock /\ lastUse[k] <= clock
      BY CacheConstants DEF CacheItems
    <3>2. lastUse'[k] = lastUse[k] /\ lastUse'[i] = IF i = j THEN n ELSE lastUse[i]
      BY DEF CacheItems
    <3> QED
      BY <2>1, <3>1, <3>2
  <2> QED
    BY <2>1 DEF UsedSince
<1>2. UsedSince(k)' \in SUBSET Key
  BY DEF UsedSince
<1>3. IsFiniteSet(UsedSince(k)')
  BY <1>2, KeysFinite
<1>4. Cardinality(UsedSince(k)) <= Cardinality(UsedSince(k)')
  BY <1>1, <1>3, FS_Subset
<1>5. /\ Cardinality(UsedSince(k)) \in Nat /\ Cardinality(UsedSince(k)') \in Nat
  BY <1>2, KeysFinite DEF UsedSince
<1> QED
  BY <1>4, <1>5

LEMMA InitCache == CacheInit => CacheInv
<1> SUFFICES ASSUME CacheInit PROVE CacheInv
  OBVIOUS
<1>1. DOMAIN items = {} /\ DOMAIN noted = {} /\ Cardinality({}) = 0
  BY FS_EmptySet DEF CacheInit, NoItems
<1>2. items \in [DOMAIN items -> Item] /\ noted \in [DOMAIN noted -> Item]
  BY DEF CacheInit, NoItems
<1>3. clock \in 1 .. MaxClock /\ lastUse \in [Key -> 0 .. clock]
  BY CacheConstants DEF CacheInit
<1>4. CacheItems
  BY <1>1, <1>2, <1>3 DEF CacheItems
<1>5. CacheSize /\ CacheForgets
  BY <1>1, CacheConstants DEF CacheSize, CacheForgets, CacheInit
<1> QED
  BY <1>4, <1>5 DEF CacheInv

\* Entries that are removed from the cache and from the notes alike.
LEMMA RemovedAlike ==
  ASSUME CacheInv, NEW K \in SUBSET Key,
         Store(Without(items, K)), noted' = Without(noted, K),
         UNCHANGED <<clock, lastUse>>
  PROVE  CacheInv'
<1>0. CacheItems /\ CacheSize /\ CacheForgets
  BY DEF CacheInv
<1>1. /\ items' \in [DOMAIN items \ K -> Item] /\ DOMAIN items' = DOMAIN items \ K
      /\ \A k \in DOMAIN items \ K : items'[k] = items[k]
      /\ noted' \in [DOMAIN noted \ K -> Item] /\ DOMAIN noted' = DOMAIN noted \ K
      /\ \A k \in DOMAIN noted \ K : noted'[k] = noted[k]
  <2>1. items \in [DOMAIN items -> Item] /\ noted \in [DOMAIN noted -> Item]
    BY <1>0 DEF CacheItems
  <2>2. items' = Without(items, K)
    BY DEF Store
  <2>3. PICK I, N : I = DOMAIN items /\ N = DOMAIN noted
    OBVIOUS
  <2>4. items \in [I -> Item] /\ noted \in [N -> Item]
    BY <2>1, <2>3
  <2>5. /\ items' \in [I \ K -> Item] /\ DOMAIN items' = I \ K
        /\ \A k \in I \ K : items'[k] = items[k]
    BY <2>2, <2>4 DEF Without
  <2>6. /\ noted' \in [N \ K -> Item] /\ DOMAIN noted' = N \ K
        /\ \A k \in N \ K : noted'[k] = noted[k]
    BY <2>4 DEF Without
  <2> QED
    BY <2>3, <2>5, <2>6
<1>2. CacheItems'
  BY <1>0, <1>1 DEF CacheItems
<1>3. CacheSize'
  <2>1. /\ IsFiniteSet(DOMAIN items) /\ Cardinality(DOMAIN items) \in Nat
        /\ Cardinality(DOMAIN items') <= Cardinality(DOMAIN items)
        /\ Cardinality(DOMAIN items') \in Nat
    BY <1>0, <1>1, KeysFinite, FS_Subset DEF CacheItems
  <2> QED
    BY <1>0, <1>1, <2>1, CacheConstants DEF CacheSize, Store
<1>4. CacheForgets'
  <2>1. \A k : UsedSince(k)' = UsedSince(k)
    BY DEF UsedSince
  <2>2. ASSUME NEW k \in DOMAIN noted', k \notin DOMAIN items',
               ~(clock' > noted'[k].expiresAt)
        PROVE  Cardinality(UsedSince(k)') + 1 >= MaxSize
    <3>1. k \in DOMAIN noted \ K /\ noted'[k] = noted[k]
      BY <1>1, <2>2
    <3>2. k \notin DOMAIN items /\ ~Expired(noted[k])
      BY <1>1, <2>2, <3>1 DEF Expired
    <3> QED
      BY <1>0, <2>1, <3>1, <3>2 DEF CacheForgets
  <2> QED
    BY <2>2 DEF CacheForgets, Expired
<1> QED
  BY <1>2, <1>3, <1>4 DEF CacheInv

\* An entry that is put into the cache and into the notes alike, the items
\* being m before.
LEMMA PutAlike ==
  ASSUME CacheInv, NEW k \in Key, NEW i \in Item, i.accessedAt = clock,
         NEW K \in SUBSET Key,
         items' = With(Without(items, K), k, i), noted' = With(noted, k, i),
         lastUse' = [lastUse EXCEPT ![k] = clock], clock' = clock,
         statsSize' = Cardinality(DOMAIN items'),
         statsSize' <= (IF MaxSize = 0 THEN 1 ELSE MaxSize),
         \A old \in K : Cardinality(UsedSince(old)) + 1 >= MaxSize
  PROVE  CacheInv'
<1>0. CacheItems /\ CacheSize /\ CacheForgets
  BY DEF CacheInv
<1>1. /\ items' \in [(DOMAIN items \ K) \cup {k} -> Item]
      /\ DOMAIN items' = (DOMAIN items \ K) \cup {k}
      /\ items'[k] = i
      /\ \A j \in (DOMAIN items \ K) \ {k} : items'[j] = items[j]
      /\ noted' \in [DOMAIN noted \cup {k} -> Item]
      /\ DOMAIN noted' = DOMAIN noted \cup {k}
      /\ noted'[k] = i
      /\ \A j \in DOMAIN noted \ {k} : noted'[j] = noted[j]
  <2>1. PICK I, N : I = DOMAIN items /\ N = DOMAIN noted
    OBVIOUS
  <2>2. items \in [I -> Item] /\ noted \in [N -> Item]
    BY <1>0, <2>1 DEF CacheItems
  <2>3. PICK m : m = Without(items, K)
    OBVIOUS
  <2>4. m \in [I \ K -> Item] /\ \A j \in I \ K : m[j] = items[j]
    BY <2>2, <2>3 DEF Without
  <2>5. PICK M : M = I \ K
    OBVIOUS
  <2>6. m \in [M -> Item]
    BY <2>4, <2>5
  <2>7. /\ items' \in [M \cup {k} -> Item] /\ DOMAIN items' = M \cup {k}
        /\ items'[k] = i /\ \A j \in M \ {k} : items'[j] = m[j]
    <3>1. items' = With(m, k, i)
      BY <2>3
    <3> QED
      BY <2>6, <3>1 DEF With
  <2>8. /\ noted' \in [N \cup {k} -> Item] /\ DOMAIN noted' = N \cup {k}
        /\ noted'[k] = i /\ \A j \in N \ {k} : noted'[j] = noted[j]
    BY <2>2 DEF With
  <2> QED
    BY <2>1, <2>4, <2>5, <2>7, <2>8
<1>2. CacheItems'
  <2>1. clock \in Nat /\ clock \in 0 .. clock
    BY <1>0, CacheConstants DEF CacheItems
  <2>2. lastUse' \in [Key -> 0 .. clock']
    BY <1>0, <2>1 DEF CacheItems
  <2>3. lastUse'[k] = clock /\ \A j \in Key \ {k} : lastUse'[j] = lastUse[j]
    BY <1>0 DEF CacheItems
  <2>4. ASSUME NEW j \in DOMAIN items'
        PROVE  /\ j \in DOMAIN noted' /\ items'[j] = noted'[j]
               /\ items'[j].accessedAt = lastUse'[j]
    <3>1. CASE j = k
      BY <1>1, <2>3, <3>1
    <3>2. CASE j # k
      BY <1>0, <1>1, <2>3, <3>2 DEF CacheItems
    <3> QED
      BY <3>1, <3>2
  <2> QED
    BY <1>0, <1>1, <2>2, <2>4 DEF CacheItems
<1>3. CacheForgets'
  <2>1. ASSUME NEW j \in DOMAIN noted', j \notin DOMAIN items',
               ~(clock' > noted'[j].expiresAt)
        PROVE  Cardinality(UsedSince(j)') + 1 >= MaxSize
    <3>1. j # k /\ j \in DOMAIN noted /\ noted'[j] = noted[j] /\ j \in Key
      BY <1>0, <1>1, <2>1 DEF CacheItems
    <3>2. Cardinality(UsedSince(j)) + 1 >= MaxSize
      <4>1. CASE j \in K
        BY <4>1
      <4>2. CASE j \notin K
        BY <1>0, <1>1, <2>1, <3>1, <4>2 DEF CacheForgets, Expired
      <4> QED
        BY <4>1, <4>2
    <3>3. clock \in Nat /\ clock <= clock
      BY <1>0, CacheConstants DEF CacheItems
    <3>4. Cardinality(UsedSince(j)') >= Cardinality(UsedSince(j))
      BY <1>0, <3>1, <3>3, UseGrows
    <3>5. /\ Cardinality(UsedSince(j)) \in Nat /\ Cardinality(UsedSince(j)') \in Nat
      BY KeysFinite DEF UsedSince
    <3> QED
      BY <3>2, <3>4, <3>5, CacheConstants
  <2> QED
    BY <2>1 DEF CacheForgets, Expired
<1>4. CacheSize'
  BY DEF CacheSize
<1> QED
  BY <1>2, <1>3, <1>4 DEF CacheInv

\* cache.go: the operations of the cache.
LEMMA NextCache == CacheInv /\ [CacheNext]_cacheVars => CacheInv'
<1> SUFFICES ASSUME CacheInv, [CacheNext]_cacheVars PROVE CacheInv'
  OBVIOUS
<1>0. CacheItems /\ CacheSize /\ CacheForgets
  BY DEF CacheInv
<1>c. clock \in Nat /\ DOMAIN items \in SUBSET Key
  BY <1>0, CacheConstants DEF CacheItems
<1>n. Cardinality(DOMAIN items) \in Nat
  BY <1>c, KeysFinite
<1>e. PICK none \in SUBSET Key : none = {}
  OBVIOUS
<1>w. Without(items, none) = items
  BY <1>0, <1>e DEF Without, CacheItems
<1>1. ASSUME NEW k \in Key, Get(k) PROVE CacheInv'
  <2>1. CASE Expired(items[k])
    <3>1. {k} \in SUBSET Key
      OBVIOUS
    <3> QED
      BY <1>1, <2>1, <3>1, RemovedAlike DEF Get
  <2>2. CASE ~Expired(items[k])
    <3>1. PICK i : i = [items[k] EXCEPT !.accessedAt = clock]
      OBVIOUS
    <3>2. k \in DOMAIN items /\ items[k] \in Item
      BY <1>0, <1>1 DEF Get, CacheItems
    <3>3. i \in Item /\ i.accessedAt = clock
      BY <1>c, <3>1, <3>2 DEF Item
    <3>4. /\ items' = With(items, k, i) /\ noted' = With(noted, k, i)
          /\ lastUse' = [lastUse EXCEPT ![k] = clock]
          /\ UNCHANGED <<statsSize, clock>>
      BY <1>1, <2>2, <3>1 DEF Get
    <3>5. DOMAIN items' = DOMAIN items
      BY <3>2, <3>4 DEF With
    <3>6. /\ statsSize' = Cardinality(DOMAIN items')
          /\ statsSize' <= (IF MaxSize = 0 THEN 1 ELSE MaxSize)
      BY <1>0, <3>4, <3>5 DEF CacheSize
    <3>7. items' = With(Without(items, none), k, i)
      BY <1>w, <3>4
    <3> QED
      BY <1>e, <3>3, <3>4, <3>6, <3>7, PutAlike
  <2> QED
    BY <2>1, <2>2
<1>2. ASSUME NEW k \in Key, NEW v \in Value, NEW ttl \in TTLs, Set(k, v, ttl)
      PROVE  CacheInv'
  <2>1. PICK i : i = [value |-> v, accessedAt |-> clock,
                      expiresAt |-> clock + (IF ttl = 0 THEN DefaultTTL ELSE ttl)]
    OBVIOUS
  <2>2. i \in Item /\ i.accessedAt = clock
    BY <1>c, <2>1, CacheConstants DEF Item
  <2>3. /\ IF Cardinality(DOMAIN items) >= MaxSize /\ items # NoItems
             THEN \E old \in LeastRecent(items) :
                    Store(With(Without(items, {old}), k, i))
             ELSE Store(With(items, k, i))
        /\ noted' = With(noted, k, i) /\ clock' = clock
        /\ lastUse' = [lastUse EXCEPT ![k] = clock]
    BY <1>2, <2>1 DEF Set
  <2>4. CASE Cardinality(DOMAIN items) >= MaxSize /\ items # NoItems
    <3>1. PICK old \in LeastRecent(items) :
                 Store(With(Without(items, {old}), k, i))
      BY <2>3, <2>4
    <3>2. /\ old \in DOMAIN items /\ {old} \in SUBSET Key
          /\ \A j \in DOMAIN items : lastUse[old] <= lastUse[j]
      BY <1>0 DEF LeastRecent, CacheItems
    <3>3. Cardinality(UsedSince(old)) + 1 >= MaxSize
      <4>1. DOMAIN items \ {old} \subseteq UsedSince(old)
        <5>1. ASSUME NEW j \in DOMAIN items PROVE lastUse[j] >= lastUse[old]
          <6>1. lastUse[j] \in Int /\ lastUse[old] \in Int
            BY <1>0, <1>c, <3>2 DEF CacheItems
          <6> QED
            BY <3>2, <6>1
        <5> QED
          BY <1>c, <5>1 DEF UsedSince
      <4>2. /\ UsedSince(old) \in SUBSET Key /\ IsFiniteSet(UsedSince(old))
            /\ Cardinality(UsedSince(old)) \in Nat
        BY KeysFinite DEF UsedSince
      <4>3. Cardinality(DOMAIN items \ {old}) <= Cardinality(UsedSince(old))
        BY <4>1, <4>2, FS_Subset
      <4>4. Cardinality(DOMAIN items \ {old}) = Cardinality(DOMAIN items) - 1
        BY <1>c, <3>2, KeysFinite
      <4> QED
        BY <1>n, <2>4, <4>2, <4>3, <4>4, CacheConstants
    <3>4. /\ statsSize' = Cardinality(DOMAIN items')
          /\ items' = With(Without(items, {old}), k, i)
      BY <3>1 DEF Store
    <3>5. DOMAIN items' = (DOMAIN items \ {old}) \cup {k}
      BY <3>4 DEF With, Without
    <3>6. PICK rest : rest = DOMAIN items \ {old}
      OBVIOUS
    <3>7. /\ rest \in SUBSET Key /\ Cardinality(rest) = Cardinality(DOMAIN items) - 1
          /\ Cardinality(rest \cup {k}) <= Cardinality(rest) + 1
          /\ Cardinality(rest \cup {k}) \in Nat
      <4>1. rest \in SUBSET Key /\ rest \cup {k} \in SUBSET Key
        BY <1>c, <3>6
      <4>2. Cardinality(rest) = Cardinality(DOMAIN items) - 1
        BY <1>c, <3>2, <3>6, KeysFinite
      <4> QED
        BY <4>1, <4>2, KeysFinite
    <3>8. statsSize' <= (IF MaxSize = 0 THEN 1 ELSE MaxSize)
      BY <1>0, <1>n, <3>4, <3>5, <3>6, <3>7, CacheConstants DEF CacheSize
    <3>9. \A o \in {old} : Cardinality(UsedSince(o)) + 1 >= MaxSize
      BY <3>3
    <3> QED
      BY <2>2, <2>3, <3>2, <3>4, <3>8, <3>9, PutAlike
  <2>5. CASE ~(Cardinality(DOMAIN items) >= MaxSize /\ items # NoItems)
    <3>1. /\ statsSize' = Cardinality(DOMAIN items')
          /\ items' = With(Without(items, none), k, i)
      BY <1>w, <2>3, <2>5 DEF Store
    <3>2. DOMAIN items' = DOMAIN items \cup {k}
      BY <1>w, <3>1 DEF With
    <3>3. statsSize' <= (IF MaxSize = 0 THEN 1 ELSE MaxSize)
      <4>1. CASE items = NoItems
        <5>1. DOMAIN items = {}
          BY <4>1 DEF NoItems
        <5>2. DOMAIN items' = {k}
          BY <3>2, <5>1
        <5>3. Cardinality({k}) = 1
          BY FS_Singleton
        <5> QED
          BY <3>1, <5>2, <5>3, CacheConstants
      <4>2. CASE ~(Cardinality(DOMAIN items) >= MaxSize)
        <5>1. Cardinality(DOMAIN items \cup {k}) <= Cardinality(DOMAIN items) + 1
          BY <1>c, KeysFinite
        <5>2. Cardinality(DOMAIN items \cup {k}) \in Nat
          <6>1. DOMAIN items \cup {k} \in SUBSET Key
            BY <1>c
          <6> QED
            BY <6>1, KeysFinite
        <5>3. Cardinality(DOMAIN items) < MaxSize /\ MaxSize # 0
          BY <1>n, <4>2, CacheConstants
        <5> QED
          BY <1>n, <3>1, <3>2, <5>1, <5>2, <5>3, CacheConstants
      <4> QED
        BY <2>5, <4>1, <4>2
    <3> QED
      BY <1>e, <2>2, <2>3, <3>1, <3>3, PutAlike
  <2> QED
    BY <2>4, <2>5
<1>3. ASSUME NEW k \in Key, Delete(k) PROVE CacheInv'
  <2>1. {k} \in SUBSET Key
    OBVIOUS
  <2> QED
    BY <1>3, <2>1, RemovedAlike DEF Delete
<1>4. CASE Clear
  <2>1. Without(items, Key) = NoItems /\ Without(noted, Key) = NoItems
    BY <1>0 DEF Without, NoItems, CacheItems
  <2> QED
    BY <1>4, <2>1, RemovedAlike DEF Clear
<1>5. CASE CleanUp
  <2>1. PICK K \in SUBSET Key : K = {k \in DOMAIN items : Expired(items[k])}
    BY <1>c
  <2> QED
    BY <1>5, <2>1, RemovedAlike DEF CleanUp
<1>6. CASE CacheTick
  <2>1. clock' = clock + 1 /\ clock' \in 1 .. MaxClock
    BY <1>0, <1>6, CacheConstants DEF CacheTick, CacheItems
  <2>2. UNCHANGED <<items, statsSize, noted, lastUse>>
    BY <1>6 DEF CacheTick
  <2>3. lastUse' \in [Key -> 0 .. clock']
    <3>1. \A k \in Key : lastUse[k] \in 0 .. clock'
      BY <1>0, <1>c, <2>1 DEF CacheItems
    <3> QED
      BY <1>0, <2>2, <3>1 DEF CacheItems
  <2>4. CacheItems' /\ CacheSize'
    BY <1>0, <2>1, <2>2, <2>3 DEF CacheItems, CacheSize
  <2>5. ASSUME NEW k \in DOMAIN noted, ~(clock' > noted[k].expiresAt)
        PROVE  ~Expired(noted[k])
    <3>1. noted[k].expiresAt \in Nat
      BY <1>0 DEF CacheItems, Item
    <3> QED
      BY <1>c, <2>1, <2>5, <3>1 DEF Expired
  <2>6. CacheForgets'
    <3>1. \A k : UsedSince(k)' = UsedSince(k)
      BY <2>2 DEF UsedSince
    <3> QED
      BY <1>0, <2>2, <2>5, <3>1 DEF CacheForgets, Expired
  <2> QED
    BY <2>4, <2>6 DEF CacheInv
<1>7. CASE UNCHANGED cacheVars
  BY <1>0, <1>7 DEF cacheVars, CacheInv, CacheItems, CacheSize, CacheForgets,
                    UsedSince, Expired
<1> QED
  BY <1>1, <1>2, <1>3, <1>4, <1>5, <1>6, <1>7 DEF CacheNext

-----------------------------------------------------------------------------
(* AnalysisEngine. *)

\* Goroutines that have read the list of errors and will store it.
Appending == {t \in DOMAIN anTask : anTask[t].pc = "append"}

TaskState == [pc : {"new", "append", "done"}, read : Nat]

AnValues ==
  /\ anRequest \in AnRequest
  /\ anStage \in {"idle", "search", "tasks", "failed"}
  /\ anLeft \subseteq AnLanguage /\ anErrors \in Nat
  /\ anTask \in [Tasks(anRequest.kind) -> TaskState]
  /\ anFailed \subseteq AnLanguage \cup (Asking \cap Tasks(anRequest.kind))
  /\ anRuns \in 0 .. MaxRuns
  /\ anResult.ok \in BOOLEAN /\ anResult.err \in BOOLEAN

\* While the clients are asked, each failure is one error.
AnSearch ==
  anStage = "search" =>
    /\ anRequest.kind \in {"workspace", "relationships"}
    /\ \A t \in DOMAIN anTask : anTask[t].pc = "new"
    /\ anFailed \subseteq AnLanguage \ anLeft
    /\ anErrors = Cardinality(anFailed)
    /\ anSections = IF anRequest.kind = "workspace"
                    THEN AnLanguage \ (anLeft \cup anFailed) ELSE {}

\* The sections and the failures of the goroutines.
AnSections ==
  anStage = "tasks" =>
    /\ anRequest.kind \notin {"workspace", "unsupported"}
    /\ \A t \in DOMAIN anTask : /\ anTask[t].pc = "new" => t \notin anFailed
                                /\ anTask[t].pc = "append" => t \in anFailed
    /\ anSections \cap (AnLanguage \cup Tasks(anRequest.kind)) =
         {t \in DOMAIN anTask : anTask[t].pc = "done"} \ anFailed
    /\ "refactor" \in anSections => anRequest.complex

\* The lengths that were read leave room for the errors still to be stored,
\* and are never below the number of errors of the search.
AnErrors ==
  anStage = "tasks" =>
    /\ anErrors + Cardinality(Appending) <= Cardinality(anFailed)
    /\ anErrors >= Cardinality(anFailed \cap AnLanguage)
    /\ \A t \in Appending :
         /\ anTask[t].read + Cardinality(Appending) <= Cardinality(anFailed)
         /\ anTask[t].read >= Cardinality(anFailed \cap AnLanguage)
    /\ \A t \in DOMAIN anTask :
         anTask[t].pc = "done" /\ t \in anFailed => anErrors >= 1

\* A result that tells what has failed.
Telling(r) ==
  /\ r.ok = TRUE /\ r.err = FALSE
  /\ r.sections \cap (AnLanguage \cup Tasks(anRequest.kind)) =
       (IF anRequest.kind = "workspace" THEN AnLanguage ELSE DOMAIN anTask)
         \ anFailed
  /\ r.errors <= Cardinality(anFailed)
  /\ r.errors >= Cardinality(anFailed \cap AnLanguage)
  /\ r.errors = 0 <=> anFailed = {}
  /\ "refactor" \in r.sections => anRequest.complex

AnDelivered ==
  /\ anStage # "tasks" => Appending = {}
  /\ anStage = "idle" /\ anResult # NotYet =>
       (anResult.ok = FALSE /\ anResult.err = TRUE) \/ Telling(anResult)
  /\ anCached # NotCached => anStage = "idle" /\ Telling(anCached)

AnInv == AnValues /\ AnSearch /\ AnSections /\ AnErrors /\ AnDelivered

\* The names of the sections, and how many requests can fail.
LEMMA AnalysisFacts ==
  ASSUME AnValues
  PROVE  /\ Tasks(anRequest.kind) \subseteq SectionNames
         /\ AnLanguage \cap SectionNames = {}
         /\ Tasks(anRequest.kind) \cap {"incoming", "outgoing", "refactor"} = {}
         /\ DOMAIN anTask = Tasks(anRequest.kind)
         /\ IsFiniteSet(anFailed) /\ Cardinality(anFailed) \in Nat
         /\ IsFiniteSet(Appending) /\ Cardinality(Appending) \in Nat
         /\ IsFiniteSet(anFailed \cap AnLanguage)
         /\ Cardinality(anFailed \cap AnLanguage) \in Nat
         /\ Cardinality(anFailed \cap AnLanguage) <= Cardinality(anFailed)
         /\ anRequest.kind \in {"workspace", "unsupported"} =>
              Tasks(anRequest.kind) = {}
<1>1. /\ Tasks(anRequest.kind) \subseteq SectionNames
      /\ Tasks(anRequest.kind) \cap {"incoming", "outgoing", "refactor"} = {}
      /\ anRequest.kind \in {"workspace", "unsupported"} =>
              Tasks(anRequest.kind) = {}
  BY DEF Tasks, SectionNames, AnValues, AnRequest, Kinds
<1>2. IsFiniteSet(SectionNames)
  <2>1. ASSUME NEW s, NEW t PROVE IsFiniteSet({s} \cup {t})
    BY FS_Singleton, FS_Union
  <2>2. ASSUME NEW s, NEW t, NEW u PROVE IsFiniteSet({s, t, u})
    <3>1. {s, t, u} = ({s} \cup {t}) \cup {u}
      OBVIOUS
    <3>2. IsFiniteSet(({s} \cup {t}) \cup {u})
      BY <2>1, FS_Singleton, FS_Union
    <3> QED
      BY <3>1, <3>2
  <2>3. \A s, t, u : \A K : IsFiniteSet(K) => IsFiniteSet(K \cup {s, t, u})
    BY <2>2, FS_Union
  <2>4. SectionNames =
          {"references", "definition", "callHierarchy"}
          \cup {"implementation", "typeHierarchy", "complexity"}
          \cup {"importExport", "crossFile", "codeQuality"}
          \cup {"recommendations", "instances", "trend"}
          \cup {"incoming", "outgoing", "refactor"}
    BY DEF SectionNames
  <2> QED
    BY <2>2, <2>3, <2>4
<1>3. IsFiniteSet(AnLanguage \cup SectionNames)
  BY <1>2, AnalysisConstants, FS_Union
<1>4. DOMAIN anTask = Tasks(anRequest.kind)
  BY DEF AnValues
<1>5. /\ anFailed \subseteq AnLanguage \cup SectionNames
      /\ anFailed \cap AnLanguage \subseteq anFailed
      /\ Appending \subseteq AnLanguage \cup SectionNames
  BY <1>1, <1>4 DEF AnValues, Appending
<1>6. /\ IsFiniteSet(anFailed) /\ Cardinality(anFailed) \in Nat
      /\ IsFiniteSet(Appending) /\ Cardinality(Appending) \in Nat
  BY <1>3, <1>5, FS_Subset, FS_CardinalityType
<1>7. /\ IsFiniteSet(anFailed \cap AnLanguage)
      /\ Cardinality(anFailed \cap AnLanguage) \in Nat
      /\ Cardinality(anFailed \cap AnLanguage) <= Cardinality(anFailed)
  BY <1>5, <1>6, FS_Subset, FS_CardinalityType
<1> QED
  BY <1>1, <1>4, <1>6, <1>7, AnalysisConstants

LEMMA InitAnalysis == AnInit => AnInv
<1> SUFFICES ASSUME AnInit PROVE AnInv
  OBVIOUS
<1>1. anTask \in [Tasks(anRequest.kind) -> TaskState]
  BY DEF AnInit, TaskState
<1>2. AnValues
  <2>1. anResult.ok \in BOOLEAN /\ anResult.err \in BOOLEAN
    BY DEF AnInit, NotYet, Returned
  <2>2. anRuns \in 0 .. MaxRuns /\ anErrors \in Nat
    BY AnalysisConstants DEF AnInit
  <2> QED
    BY <1>1, <2>1, <2>2 DEF AnInit, AnValues
<1>3. Appending = {}
  BY DEF AnInit, Appending
<1>4. AnSearch /\ AnSections /\ AnErrors /\ AnDelivered
  BY <1>3 DEF AnInit, AnSearch, AnSections, AnErrors, AnDelivered
<1> QED
  BY <1>2, <1>4 DEF AnInv

\* A request that failed is one more, and no more of the search if it is of a
\* goroutine.
LEMMA OneMoreFailed ==
  ASSUME AnValues, NEW r \in AnLanguage \cup SectionNames, r \notin anFailed,
         anFailed' = anFailed \cup {r}
  PROVE  /\ Cardinality(anFailed') = Cardinality(anFailed) + 1
         /\ r \notin AnLanguage => anFailed' \cap AnLanguage = anFailed \cap AnLanguage
<1>1. IsFiniteSet(anFailed)
  BY AnalysisFacts
<1>2. Cardinality(anFailed \cup {r}) = Cardinality(anFailed) + 1
  BY <1>1, FS_AddElement
<1> QED
  BY <1>2

\* The goroutines have ended: the result tells what has failed.
LEMMA TasksTell ==
  ASSUME AnInv, anStage = "tasks", \A t \in DOMAIN anTask : anTask[t].pc = "done"
  PROVE  Telling(Returned(TRUE, FALSE, anErrors, anSections))
<1>0. AnValues /\ AnSections /\ AnErrors
  BY DEF AnInv
<1>1. Appending = {} /\ Cardinality({}) = 0
  BY FS_EmptySet DEF Appending
<1>2. PICK n \in Nat, m \in Nat : /\ n = Cardinality(anFailed)
                                  /\ m = Cardinality(anFailed \cap AnLanguage)
  BY <1>0, AnalysisFacts
<1>3. anErrors <= n /\ anErrors >= m
  BY <1>0, <1>1, <1>2 DEF AnErrors, AnValues
<1>4. anErrors = 0 => anFailed = {}
  <2> SUFFICES ASSUME anErrors = 0 PROVE anFailed = {}
    OBVIOUS
  <2>1. \A t \in DOMAIN anTask : t \notin anFailed
    BY <1>0 DEF AnErrors
  <2>2. anFailed \cap AnLanguage = anFailed
    BY <1>0, <2>1, AnalysisFacts DEF AnValues
  <2>3. n = 0
    BY <1>2, <1>3, <2>2
  <2> QED
    BY <1>0, <1>2, <2>3, AnalysisFacts, FS_EmptySet
<1>5. anFailed = {} => anErrors = 0
  <2> SUFFICES ASSUME anFailed = {} PROVE anErrors = 0
    OBVIOUS
  <2>1. n = 0
    BY <1>1, <1>2
  <2> QED
    BY <1>0, <1>3, <2>1 DEF AnValues
<1>6. anSections \cap (AnLanguage \cup Tasks(anRequest.kind)) =
        (IF anRequest.kind = "workspace" THEN AnLanguage ELSE DOMAIN anTask)
          \ anFailed
  BY <1>0 DEF AnSections
<1>7. "refactor" \in anSections => anRequest.complex
  BY <1>0 DEF AnSections
<1> QED
  BY <1>2, <1>3, <1>4, <1>5, <1>6, <1>7 DEF Telling, Returned

\* Every client was asked: the result of a workspace tells what has failed.
LEMMA SearchTells ==
  ASSUME AnInv, anStage = "search", anLeft = {}, anRequest.kind = "workspace"
  PROVE  Telling(Returned(TRUE, FALSE, anErrors, anSections))
<1>0. AnValues /\ AnSearch
  BY DEF AnInv
<1>1. /\ anFailed \subseteq AnLanguage /\ anErrors = Cardinality(anFailed)
      /\ anSections = AnLanguage \ anFailed
  BY <1>0 DEF AnSearch
<1>2. anFailed \cap AnLanguage = anFailed /\ Tasks(anRequest.kind) = {}
  BY <1>0, <1>1, AnalysisFacts
<1>3. "refactor" \notin anSections
  BY <1>1, AnalysisConstants DEF SectionNames
<1>4. Cardinality(anFailed) \in Nat /\ (Cardinality(anFailed) = 0 <=> anFailed = {})
  BY <1>0, AnalysisFacts, FS_EmptySet
<1>5. anSections \cap (AnLanguage \cup Tasks(anRequest.kind)) = AnLanguage \ anFailed
  BY <1>1, <1>2
<1> QED
  BY <1>1, <1>2, <1>3, <1>4, <1>5 DEF Telling, Returned

\* The result is given to the caller and to the cache.
LEMMA ReturnTells ==
  ASSUME AnInv, Telling(Returned(TRUE, FALSE, anErrors, anSections)),
         Appending = {}, ReturnResult
  PROVE  AnInv'
<1>0. AnValues /\ AnDelivered
  BY DEF AnInv
<1>1. PICK r : r = Returned(TRUE, FALSE, anErrors, anSections)
  OBVIOUS
<1>2. /\ anResult' = r /\ anCached' = r /\ anStage' = "idle"
      /\ UNCHANGED <<anRequest, anLeft, anErrors, anTask, anSections, anFailed, anRuns>>
  BY <1>1 DEF ReturnResult, Deliver
<1>3. r.ok = TRUE /\ r.err = FALSE /\ Telling(r)
  BY <1>1 DEF Telling
<1>4. AnValues'
  BY <1>0, <1>2, <1>3 DEF AnValues
<1>5. AnSearch' /\ AnSections' /\ AnErrors'
  BY <1>2 DEF AnSearch, AnSections, AnErrors
<1>6. Telling(anResult)' /\ Telling(anCached)'
  BY <1>2, <1>3 DEF Telling
<1>7. Appending' = {}
  BY <1>2 DEF Appending
<1>8. AnDelivered'
  BY <1>2, <1>6, <1>7 DEF AnDelivered
<1> QED
  BY <1>4, <1>5, <1>8 DEF AnInv

\* What is no result of this step leaves what was returned as it is.
LEMMA StillDelivered ==
  ASSUME AnInv, anStage \in {"search", "tasks", "failed"}, anStage' # "idle",
         anStage' # "tasks" => Appending' = {},
         UNCHANGED anCached
  PROVE  AnDelivered'
BY DEF AnInv, AnDelivered

\* The clients are asked.
LEMMA NextSearch ==
  ASSUME AnInv, NEW l \in AnLanguage,
         AskFails(l) \/ AskFinds(l) \/ AskFindsNothing(l)
  PROVE  AnInv'
<1>0. AnValues /\ AnSearch /\ AnDelivered
  BY DEF AnInv
<1>s. anStage = "search" /\ l \in anLeft /\ UNCHANGED <<anRequest, anTask, anCached, anResult, anRuns>>
  BY DEF AskFails, AskFinds, AskFindsNothing
<1>q. /\ anRequest.kind \in {"workspace", "relationships"}
      /\ \A t \in DOMAIN anTask : anTask[t].pc = "new"
      /\ anFailed \subseteq AnLanguage \ anLeft
      /\ anErrors = Cardinality(anFailed)
      /\ anSections = IF anRequest.kind = "workspace"
                      THEN AnLanguage \ (anLeft \cup anFailed) ELSE {}
  BY <1>0, <1>s DEF AnSearch
<1>a. Appending = {} /\ Appending' = {} /\ Cardinality({}) = 0
  BY <1>q, <1>s, FS_EmptySet DEF Appending
<1>1. CASE AskFails(l)
  <2>1. /\ anLeft' = anLeft \ {l} /\ anErrors' = anErrors + 1
        /\ anFailed' = anFailed \cup {l} /\ UNCHANGED <<anStage, anSections>>
    BY <1>1 DEF AskFails
  <2>2. l \notin anFailed
    BY <1>q, <1>s
  <2>3. Cardinality(anFailed') = Cardinality(anFailed) + 1
    BY <1>0, <2>1, <2>2, OneMoreFailed
  <2>4. AnValues'
    BY <1>0, <1>s, <2>1 DEF AnValues
  <2>5. AnSearch'
    <3>1. anSections' = IF anRequest'.kind = "workspace"
                        THEN AnLanguage \ (anLeft' \cup anFailed') ELSE {}
      BY <1>q, <1>s, <2>1
    <3>2. anFailed' \subseteq AnLanguage \ anLeft'
      BY <1>q, <1>s, <2>1
    <3> QED
      BY <1>q, <1>s, <2>1, <2>3, <3>1, <3>2 DEF AnSearch
  <2>6. AnSections' /\ AnErrors'
    BY <1>s, <2>1 DEF AnSections, AnErrors
  <2>7. AnDelivered'
    BY <1>s, <1>a, <2>1, StillDelivered
  <2> QED
    BY <2>4, <2>5, <2>6, <2>7 DEF AnInv
<1>2. CASE AskFinds(l) /\ anRequest.kind = "workspace"
  <2>1. /\ anLeft' = anLeft \ {l} /\ anSections' = anSections \cup {l}
        /\ UNCHANGED <<anStage, anErrors, anFailed>>
    BY <1>2 DEF AskFinds
  <2>4. AnValues'
    BY <1>0, <1>s, <2>1 DEF AnValues
  <2>5. AnSearch'
    <3>1. anSections' = IF anRequest'.kind = "workspace"
                        THEN AnLanguage \ (anLeft' \cup anFailed') ELSE {}
      BY <1>q, <1>s, <1>2, <2>1
    <3> QED
      BY <1>q, <1>s, <2>1, <3>1 DEF AnSearch
  <2>6. AnSections' /\ AnErrors'
    BY <1>s, <2>1 DEF AnSections, AnErrors
  <2>7. AnDelivered'
    BY <1>s, <1>a, <2>1, StillDelivered
  <2> QED
    BY <2>4, <2>5, <2>6, <2>7 DEF AnInv
<1>3. CASE AskFinds(l) /\ anRequest.kind # "workspace"
  <2>1. /\ anLeft' = {} /\ anStage' = "tasks"
        /\ UNCHANGED <<anErrors, anFailed, anSections>>
    BY <1>3 DEF AskFinds
  <2>2. anRequest.kind = "relationships" /\ anSections = {}
    BY <1>3, <1>q
  <2>4. AnValues'
    BY <1>0, <1>s, <2>1 DEF AnValues
  <2>5. AnSearch'
    BY <2>1 DEF AnSearch
  <2>6. AnSections'
    <3>1. \A t \in DOMAIN anTask : t \notin anFailed
      BY <1>0, <1>q, AnalysisFacts
    <3> QED
      BY <1>q, <1>s, <2>1, <2>2, <3>1 DEF AnSections
  <2>7. AnErrors'
    <3>1. anFailed \cap AnLanguage = anFailed
      BY <1>q
    <3>2. Cardinality(anFailed) \in Nat
      BY <1>0, AnalysisFacts
    <3>3. \A t \in DOMAIN anTask' : anTask'[t].pc # "done"
      BY <1>q, <1>s
    <3>4. /\ anErrors' + Cardinality(Appending') <= Cardinality(anFailed')
          /\ anErrors' >= Cardinality(anFailed' \cap AnLanguage)
      BY <1>a, <1>q, <2>1, <3>1, <3>2
    <3> QED
      BY <1>a, <3>3, <3>4 DEF AnErrors
  <2>8. AnDelivered'
    BY <1>s, <1>a, <2>1, StillDelivered
  <2> QED
    BY <2>4, <2>5, <2>6, <2>7, <2>8 DEF AnInv
<1>4. CASE AskFindsNothing(l)
  <2>1. /\ anLeft' = anLeft \ {l} /\ anRequest.kind = "relationships"
        /\ UNCHANGED <<anStage, anErrors, anFailed, anSections>>
    BY <1>4 DEF AskFindsNothing
  <2>4. AnValues'
    BY <1>0, <1>s, <2>1 DEF AnValues
  <2>5. AnSearch'
    BY <1>q, <1>s, <2>1 DEF AnSearch
  <2>6. AnSections' /\ AnErrors'
    BY <1>s, <2>1 DEF AnSections, AnErrors
  <2>7. AnDelivered'
    BY <1>s, <1>a, <2>1, StillDelivered
  <2> QED
    BY <2>4, <2>5, <2>6, <2>7 DEF AnInv
<1> QED
  BY <1>1, <1>2, <1>3, <1>4

\* A goroutine does its step.
LEMMA NextTask ==
  ASSUME AnInv, NEW t \in DOMAIN anTask,
         TaskFills(t) \/ TaskFails(t) \/ TaskAppends(t)
  PROVE  AnInv'
<1>0. AnValues /\ AnSections /\ AnErrors /\ AnDelivered
  BY DEF AnInv
<1>d. /\ DOMAIN anTask = Tasks(anRequest.kind) /\ t \in Tasks(anRequest.kind)
      /\ anTask \in [Tasks(anRequest.kind) -> TaskState] /\ anTask[t] \in TaskState
      /\ t \in SectionNames /\ t \notin AnLanguage
      /\ t \notin {"incoming", "outgoing", "refactor"}
      /\ AnLanguage \cap SectionNames = {}
      /\ Tasks(anRequest.kind) \cap {"incoming", "outgoing", "refactor"} = {}
  BY <1>0, AnalysisFacts DEF AnValues
<1>s. /\ anStage = "tasks" /\ anStage' = "tasks"
      /\ UNCHANGED <<anRequest, anLeft, anCached, anResult, anRuns>>
  BY <1>0 DEF TaskFills, TaskFails, TaskAppends, AnDelivered, Appending
<1>q. /\ anRequest.kind \notin {"workspace", "unsupported"}
      /\ \A u \in DOMAIN anTask : /\ anTask[u].pc = "new" => u \notin anFailed
                                  /\ anTask[u].pc = "append" => u \in anFailed
      /\ anSections \cap (AnLanguage \cup Tasks(anRequest.kind)) =
           {u \in DOMAIN anTask : anTask[u].pc = "done"} \ anFailed
      /\ "refactor" \in anSections => anRequest.complex
  BY <1>0, <1>s DEF AnSections
<1>n. PICK n \in Nat, m \in Nat, p \in Nat :
        /\ n = Cardinality(anFailed) /\ m = Cardinality(anFailed \cap AnLanguage)
        /\ p = Cardinality(Appending) /\ IsFiniteSet(Appending)
  BY <1>0, AnalysisFacts
<1>e. /\ anErrors \in Nat /\ anErrors + p <= n /\ anErrors >= m
      /\ \A u \in Appending : anTask[u].read + p <= n /\ anTask[u].read >= m
      /\ \A u \in DOMAIN anTask :
           anTask[u].pc = "done" /\ u \in anFailed => anErrors >= 1
  BY <1>0, <1>s, <1>n DEF AnErrors, AnValues
<1>i. AnSearch' /\ AnDelivered'
  BY <1>s, StillDelivered DEF AnSearch
<1>1. CASE TaskFills(t)
  <2>1. /\ anTask[t].pc = "new" /\ UNCHANGED <<anErrors, anFailed>>
        /\ anTask' = [anTask EXCEPT ![t].pc = "done"]
    BY <1>1 DEF TaskFills
  <2>2. /\ anTask' \in [Tasks(anRequest.kind) -> TaskState]
        /\ anTask'[t].pc = "done"
        /\ \A u \in DOMAIN anTask \ {t} : anTask'[u] = anTask[u]
    BY <1>d, <2>1 DEF TaskState
  <2>3. Appending' = Appending
    BY <1>d, <2>1, <2>2 DEF Appending
  <2>4. AnValues'
    BY <1>0, <1>s, <2>1, <2>2 DEF AnValues
  <2>5. AnErrors'
    <3>1. \A u \in Appending : u # t /\ u \in DOMAIN anTask
      BY <2>1 DEF Appending
    <3>2. \A u \in Appending : anTask'[u].read = anTask[u].read
      BY <2>2, <3>1
    <3>3. \A u \in DOMAIN anTask' :
            anTask'[u].pc = "done" /\ u \in anFailed' => anErrors' >= 1
      BY <1>d, <1>e, <1>q, <2>1, <2>2
    <3>4. /\ Cardinality(Appending') = p /\ Cardinality(anFailed') = n
          /\ Cardinality(anFailed' \cap AnLanguage) = m /\ anErrors' = anErrors
      BY <1>n, <2>1, <2>3
    <3>5. \A u \in Appending' : anTask'[u].read + p <= n /\ anTask'[u].read >= m
      BY <1>e, <2>3, <3>2
    <3> QED
      BY <1>e, <3>3, <3>4, <3>5 DEF AnErrors
  <2>6. AnSections'
    <3>1. PICK more \in Filled(t) : anSections' = anSections \cup more
      BY <1>1 DEF TaskFills
    <3>2. /\ t \in more /\ more \subseteq {t, "incoming", "outgoing", "refactor"}
          /\ "refactor" \in more => anRequest.complex
      BY <1>d, <3>1 DEF Filled
    <3>3. /\ anSections' \cap (AnLanguage \cup Tasks(anRequest.kind))
             = (anSections \cap (AnLanguage \cup Tasks(anRequest.kind))) \cup {t}
      BY <1>d, <3>1, <3>2 DEF SectionNames
    <3>4. {u \in DOMAIN anTask' : anTask'[u].pc = "done"}
            = {u \in DOMAIN anTask : anTask[u].pc = "done"} \cup {t}
      BY <1>d, <2>2
    <3>5. anSections' \cap (AnLanguage \cup Tasks(anRequest'.kind))
            = {u \in DOMAIN anTask' : anTask'[u].pc = "done"} \ anFailed'
      BY <1>q, <1>s, <2>1, <3>3, <3>4
    <3>6. "refactor" \in anSections' => anRequest'.complex
      BY <1>q, <1>s, <3>1, <3>2
    <3>7. \A u \in DOMAIN anTask' : /\ anTask'[u].pc = "new" => u \notin anFailed'
                                    /\ anTask'[u].pc = "append" => u \in anFailed'
      BY <1>d, <1>q, <2>1, <2>2
    <3> QED
      BY <1>q, <1>s, <3>5, <3>6, <3>7 DEF AnSections
  <2> QED
    BY <1>i, <2>4, <2>5, <2>6 DEF AnInv
<1>2. CASE TaskFails(t)
  <2>1. /\ t \in Asking /\ anTask[t].pc = "new" /\ UNCHANGED <<anErrors, anSections>>
        /\ anTask' = [anTask EXCEPT ![t] = [pc |-> "append", read |-> anErrors]]
        /\ anFailed' = anFailed \cup {t}
    BY <1>2 DEF TaskFails
  <2>2. /\ anTask' \in [Tasks(anRequest.kind) -> TaskState]
        /\ anTask'[t] = [pc |-> "append", read |-> anErrors]
        /\ \A u \in DOMAIN anTask \ {t} : anTask'[u] = anTask[u]
    <3>1. [pc |-> "append", read |-> anErrors] \in TaskState
      BY <1>e DEF TaskState
    <3> QED
      BY <1>d, <2>1, <3>1
  <2>3. Appending' = Appending \cup {t} /\ t \notin Appending
    BY <1>d, <2>1, <2>2 DEF Appending
  <2>c. /\ Cardinality(Appending') = p + 1 /\ Cardinality(anFailed') = n + 1
        /\ Cardinality(anFailed' \cap AnLanguage) = m
    <3>1. t \notin anFailed
      BY <1>q, <2>1
    <3>2. Cardinality(Appending \cup {t}) = p + 1
      BY <1>n, <2>3, FS_AddElement
    <3> QED
      BY <1>0, <1>d, <1>n, <2>1, <2>3, <3>1, <3>2, OneMoreFailed
  <2>4. AnValues'
    BY <1>0, <1>d, <1>s, <2>1, <2>2 DEF AnValues
  <2>5. AnErrors'
    <3>1. \A u \in Appending' :
            anTask'[u].read + (p + 1) <= n + 1 /\ anTask'[u].read >= m
      <4>1. ASSUME NEW u \in Appending, u # t
            PROVE  anTask'[u].read + (p + 1) <= n + 1 /\ anTask'[u].read >= m
        <5>1. anTask'[u] = anTask[u] /\ anTask[u].read \in Nat
          BY <1>d, <2>2, <4>1 DEF Appending, TaskState
        <5> QED
          BY <1>e, <4>1, <5>1
      <4> QED
        BY <1>e, <2>2, <2>3, <4>1
    <3>2. \A u \in DOMAIN anTask' :
            anTask'[u].pc = "done" /\ u \in anFailed' => anErrors' >= 1
      BY <1>d, <1>e, <2>1, <2>2
    <3>3. anErrors' + (p + 1) <= n + 1 /\ anErrors' >= m
      BY <1>e, <2>1
    <3> QED
      BY <2>c, <3>1, <3>2, <3>3 DEF AnErrors
  <2>6. AnSections'
    <3>1. {u \in DOMAIN anTask' : anTask'[u].pc = "done"}
            = {u \in DOMAIN anTask : anTask[u].pc = "done"}
      BY <1>d, <2>1, <2>2
    <3>2. t \notin {u \in DOMAIN anTask : anTask[u].pc = "done"}
      BY <2>1
    <3>5. anSections' \cap (AnLanguage \cup Tasks(anRequest'.kind))
            = {u \in DOMAIN anTask' : anTask'[u].pc = "done"} \ anFailed'
      BY <1>q, <1>s, <2>1, <3>1, <3>2
    <3>7. \A u \in DOMAIN anTask' : /\ anTask'[u].pc = "new" => u \notin anFailed'
                                    /\ anTask'[u].pc = "append" => u \in anFailed'
      BY <1>d, <1>q, <2>1, <2>2
    <3> QED
      BY <1>q, <1>s, <2>1, <3>5, <3>7 DEF AnSections
  <2> QED
    BY <1>i, <2>4, <2>5, <2>6 DEF AnInv
<1>3. CASE TaskAppends(t)
  <2>1. /\ anTask[t].pc = "append" /\ UNCHANGED <<anFailed, anSections>>
        /\ anErrors' = anTask[t].read + 1
        /\ anTask' = [anTask EXCEPT ![t].pc = "done"]
    BY <1>3 DEF TaskAppends
  <2>2. /\ anTask' \in [Tasks(anRequest.kind) -> TaskState]
        /\ anTask'[t].pc = "done"
        /\ \A u \in DOMAIN anTask \ {t} : anTask'[u] = anTask[u]
    BY <1>d, <2>1 DEF TaskState
  <2>3. Appending' = Appending \ {t} /\ t \in Appending
    BY <1>d, <2>1, <2>2 DEF Appending
  <2>r. /\ anTask[t].read \in Nat /\ anTask[t].read + p <= n /\ anTask[t].read >= m
    BY <1>d, <1>e, <2>3 DEF TaskState
  <2>c. Cardinality(Appending') = p - 1
    BY <1>n, <2>3, FS_RemoveElement
  <2>4. AnValues'
    <3>1. anErrors' \in Nat
      BY <2>1, <2>r
    <3> QED
      BY <1>0, <1>s, <2>1, <2>2, <3>1 DEF AnValues
  <2>5. AnErrors'
    <3>1. \A u \in Appending' :
            anTask'[u].read + (p - 1) <= n /\ anTask'[u].read >= m
      <4>1. ASSUME NEW u \in Appending, u # t
            PROVE  anTask'[u].read + (p - 1) <= n /\ anTask'[u].read >= m
        <5>1. anTask'[u] = anTask[u] /\ anTask[u].read \in Nat
          BY <1>d, <2>2, <4>1 DEF Appending, TaskState
        <5> QED
          BY <1>e, <4>1, <5>1
      <4> QED
        BY <2>3, <4>1
    <3>3. anErrors' + (p - 1) <= n /\ anErrors' >= m /\ anErrors' >= 1
      BY <1>e, <2>1, <2>r
    <3>4. Cardinality(anFailed') = n /\ Cardinality(anFailed' \cap AnLanguage) = m
      BY <1>n, <2>1
    <3> QED
      BY <2>c, <3>1, <3>3, <3>4 DEF AnErrors
  <2>6. AnSections'
    <3>1. {u \in DOMAIN anTask' : anTask'[u].pc = "done"}
            = {u \in DOMAIN anTask : anTask[u].pc = "done"} \cup {t}
      BY <1>d, <2>2
    <3>2. t \in anFailed
      BY <1>q, <2>1
    <3>5. anSections' \cap (AnLanguage \cup Tasks(anRequest'.kind))
            = {u \in DOMAIN anTask' : anTask'[u].pc = "done"} \ anFailed'
      BY <1>q, <1>s, <2>1, <3>1, <3>2
    <3>7. \A u \in DOMAIN anTask' : /\ anTask'[u].pc = "new" => u \notin anFailed'
                                    /\ anTask'[u].pc = "append" => u \in anFailed'
      BY <1>d, <1>q, <2>1, <2>2
    <3> QED
      BY <1>q, <1>s, <2>1, <3>5, <3>7 DEF AnSections
  <2> QED
    BY <1>i, <2>4, <2>5, <2>6 DEF AnInv
<1> QED
  BY <1>1, <1>2, <1>3

\* engine.go: the steps of Analyze.
LEMMA NextAnalysis == AnInv /\ [AnNext]_anVars => AnInv'
<1> SUFFICES ASSUME AnInv, [AnNext]_anVars PROVE AnInv'
  OBVIOUS
<1>0. AnValues /\ AnSearch /\ AnSections /\ AnErrors /\ AnDelivered
  BY DEF AnInv
<1>d. DOMAIN anTask = Tasks(anRequest.kind)
  BY <1>0, AnalysisFacts
<1>1. CASE FromCache
  <2>1. PICK r : r = [anCached EXCEPT !.err = FALSE]
    OBVIOUS
  <2>2. /\ anResult' = r /\ anStage = "idle" /\ anStage' = "idle"
        /\ anRuns' = anRuns + 1 /\ anRuns < MaxRuns
        /\ UNCHANGED <<anRequest, anLeft, anErrors, anTask, anSections, anFailed,
                       anCached>>
    BY <1>1, <2>1 DEF FromCache, Deliver
  <2>3. /\ Telling(anCached) /\ r.ok = anCached.ok
        /\ r.errors = anCached.errors /\ r.sections = anCached.sections
    BY <1>0, <1>1, <2>1 DEF FromCache, AnDelivered
  <2>4. r.err = FALSE /\ r.ok = TRUE
    BY <1>0, <1>1, <2>1, <2>3 DEF FromCache, AnDelivered, Telling
  <2>5. AnValues'
    <3>1. anRuns' \in 0 .. MaxRuns
      BY <1>0, <2>2, AnalysisConstants DEF AnValues
    <3>2. anResult'.ok \in BOOLEAN /\ anResult'.err \in BOOLEAN
      BY <2>2, <2>4
    <3> QED
      BY <1>0, <2>2, <3>1, <3>2 DEF AnValues
  <2>6. AnSearch' /\ AnSections' /\ AnErrors'
    BY <2>2 DEF AnSearch, AnSections, AnErrors
  <2>7. Telling(anCached)' /\ Telling(anResult)'
    BY <2>2, <2>3, <2>4 DEF Telling
  <2>8. Appending' = {}
    BY <1>0, <2>2 DEF AnDelivered, Appending
  <2> QED
    BY <2>2, <2>5, <2>6, <2>7, <2>8 DEF AnInv, AnDelivered
<1>2. CASE StartAnalysis
  <2>1. /\ anRuns' = anRuns + 1 /\ anRuns < MaxRuns
        /\ anErrors' = 0 /\ anSections' = {} /\ anFailed' = {}
        /\ anTask' = [t \in DOMAIN anTask |-> [pc |-> "new", read |-> 0]]
        /\ anCached = NotCached /\ UNCHANGED <<anRequest, anCached>>
        /\ anLeft' = IF anRequest.kind \in {"workspace", "relationships"}
                     THEN AnLanguage ELSE {}
    BY <1>2 DEF StartAnalysis
  <2>2. \/ /\ anRequest.kind = "unsupported" /\ anStage' = "idle"
           /\ anResult' = Returned(FALSE, TRUE, 0, {})
        \/ /\ anRequest.kind # "unsupported" /\ UNCHANGED anResult
           /\ anStage' = IF anRequest.kind \in {"workspace", "relationships"}
                         THEN "search"
                         ELSE IF anRequest.kind = "file" /\ ~anRequest.detected
                         THEN "failed" ELSE "tasks"
    BY <1>2 DEF StartAnalysis, Deliver
  <2>3. /\ anTask' \in [Tasks(anRequest.kind) -> TaskState]
        /\ \A t \in DOMAIN anTask' : anTask'[t].pc = "new"
    BY <1>d, <2>1 DEF TaskState
  <2>4. Appending' = {} /\ Cardinality({}) = 0
    BY <2>3, FS_EmptySet DEF Appending
  <2>5. AnValues'
    <3>1. anResult'.ok \in BOOLEAN /\ anResult'.err \in BOOLEAN
      <4>1. CASE anResult' = Returned(FALSE, TRUE, 0, {})
        BY <4>1 DEF Returned
      <4>2. CASE UNCHANGED anResult
        BY <1>0, <4>2 DEF AnValues
      <4> QED
        BY <2>2, <4>1, <4>2
    <3>2. anRuns' \in 0 .. MaxRuns /\ anErrors' \in Nat
      BY <1>0, <2>1, AnalysisConstants DEF AnValues
    <3>3. anStage' \in {"idle", "search", "tasks", "failed"}
      BY <2>2
    <3>4. anLeft' \subseteq AnLanguage /\ anFailed' = {}
      BY <2>1
    <3> QED
      BY <1>0, <2>1, <2>3, <3>1, <3>2, <3>3, <3>4 DEF AnValues
  <2>6. AnSearch'
    <3> SUFFICES ASSUME anStage' = "search"
                 PROVE  /\ anRequest.kind \in {"workspace", "relationships"}
                        /\ anLeft' = AnLanguage
      BY <2>1, <2>3, <2>4 DEF AnSearch
    <3> QED
      BY <2>1, <2>2
  <2>7. AnSections'
    <3> SUFFICES ASSUME anStage' = "tasks"
                 PROVE  anRequest.kind \notin {"workspace", "unsupported"}
      BY <2>1, <2>3 DEF AnSections
    <3> QED
      BY <2>2
  <2>8. AnErrors'
    BY <2>1, <2>3, <2>4 DEF AnErrors
  <2>9. AnDelivered'
    <3>1. anStage' = "idle" => anResult'.ok = FALSE /\ anResult'.err = TRUE
      BY <2>2 DEF Returned
    <3> QED
      BY <2>1, <2>4, <3>1 DEF AnDelivered
  <2> QED
    BY <2>5, <2>6, <2>7, <2>8, <2>9 DEF AnInv
<1>3. ASSUME NEW l \in AnLanguage, AskFails(l) \/ AskFinds(l) \/ AskFindsNothing(l)
      PROVE  AnInv'
  BY <1>3, NextSearch
<1>4. CASE SearchEnds
  <2>1. Appending = {}
    BY <1>0, <1>4 DEF SearchEnds, AnDelivered
  <2>2. CASE anRequest.kind = "workspace" /\ ReturnResult
    BY <1>4, <2>1, <2>2, SearchTells, ReturnTells DEF SearchEnds
  <2>3. CASE /\ anStage' = "failed"
             /\ UNCHANGED <<anRequest, anLeft, anErrors, anTask, anSections,
                            anFailed, anCached, anResult, anRuns>>
    <3>1. AnValues' /\ AnSearch' /\ AnSections' /\ AnErrors'
      BY <1>0, <2>3 DEF AnValues, AnSearch, AnSections, AnErrors
    <3>2. AnDelivered'
      <4>1. anStage = "search" /\ Appending' = {}
        BY <1>4, <2>1, <2>3 DEF SearchEnds, Appending
      <4> QED
        BY <2>3, <4>1, StillDelivered
    <3> QED
      BY <3>1, <3>2 DEF AnInv
  <2> QED
    BY <1>4, <2>2, <2>3 DEF SearchEnds
<1>5. ASSUME NEW t \in DOMAIN anTask, TaskFills(t) \/ TaskFails(t) \/ TaskAppends(t)
      PROVE  AnInv'
  BY <1>5, NextTask
<1>6. CASE TasksEnd
  <2>1. anStage = "tasks" /\ \A t \in DOMAIN anTask : anTask[t].pc = "done"
    BY <1>6 DEF TasksEnd
  <2>e. Appending = {}
    BY <2>1 DEF Appending
  <2>2. CASE ReturnResult
    BY <2>1, <2>2, <2>e, TasksTell, ReturnTells
  <2>3. CASE /\ anStage' = "failed"
             /\ UNCHANGED <<anRequest, anLeft, anErrors, anTask, anSections,
                            anFailed, anCached, anResult, anRuns>>
    <3>1. AnValues' /\ AnSearch' /\ AnSections' /\ AnErrors'
      BY <1>0, <2>3 DEF AnValues, AnSearch, AnSections, AnErrors
    <3>2. AnDelivered'
      <4>1. Appending' = {}
        BY <2>e, <2>3 DEF Appending
      <4> QED
        BY <2>1, <2>3, <4>1, StillDelivered
    <3> QED
      BY <3>1, <3>2 DEF AnInv
  <2> QED
    BY <1>6, <2>2, <2>3 DEF TasksEnd
<1>7. CASE ReturnError
  <2>1. PICK n \in Nat : n = anErrors
    BY <1>0 DEF AnValues
  <2>2. ~ContinueAfter(n + 1)
    BY DEF ContinueAfter
  <2>3. /\ anStage = "failed" /\ anStage' = "idle" /\ anErrors' = n + 1
        /\ anResult' = Returned(FALSE, TRUE, n + 1, {}) /\ UNCHANGED anCached
        /\ UNCHANGED <<anRequest, anLeft, anTask, anSections, anFailed, anRuns>>
    BY <1>7, <2>1, <2>2 DEF ReturnError, Deliver
  <2>4. anResult'.ok = FALSE /\ anResult'.err = TRUE
    BY <2>3 DEF Returned
  <2>5. AnValues'
    <3>1. anErrors' \in Nat
      BY <2>3
    <3> QED
      BY <1>0, <2>3, <2>4, <3>1 DEF AnValues
  <2>6. AnSearch' /\ AnSections' /\ AnErrors'
    BY <2>3 DEF AnSearch, AnSections, AnErrors
  <2>7. anCached' = NotCached /\ Appending' = {}
    BY <1>0, <2>3 DEF AnDelivered, Appending
  <2>8. AnDelivered'
    BY <2>3, <2>4, <2>7 DEF AnDelivered, NotCached
  <2> QED
    BY <2>5, <2>6, <2>8 DEF AnInv
<1>8. CASE UNCHANGED anVars
  BY <1>0, <1>8 DEF anVars, AnInv, AnValues, AnSearch, AnSections, AnErrors,
                    AnDelivered, Telling, Appending
<1> QED
  BY <1>1, <1>2, <1>3, <1>4, <1>5, <1>6, <1>7, <1>8 DEF AnNext, AnSteps

\* The inductive invariants imply what the runs check.
LEMMA AnalyzerImplied == AnInv /\ CacheInv => AnalyzerSound
<1> SUFFICES ASSUME AnInv, CacheInv PROVE AnalyzerSound
  OBVIOUS
<1>1. AnalysisSound
  <2>1. DOMAIN anTask = Tasks(anRequest.kind)
    BY AnalysisFacts DEF AnInv
  <2> QED
    BY <2>1 DEF AnInv, AnDelivered, Telling, AnalysisSound
<1>2. CacheSound
  BY DEF CacheInv, CacheItems, CacheSize, CacheForgets, UsedSince, CacheSound
<1> QED
  BY <1>1, <1>2 DEF AnalyzerSound

\* engine.go and cache.go: for any languages, keys and limits, and however the
\* goroutines interleave, Analyze returns a result or an error, tells of
\* failures, and the cache forgets only what was used least recently.
THEOREM AnalyzerCorrect == ToolsSpec => []AnalyzerSound
<1>1. ToolsInit => AnInv /\ CacheInv
  BY InitAnalysis, InitCache DEF ToolsInit
<1>2. AnInv /\ CacheInv /\ [ToolsNext]_vars => AnInv' /\ CacheInv'
  <2>1. [ToolsNext]_vars => [AnNext]_anVars /\ [CacheNext]_cacheVars
    BY DEF ToolsNext, Rest, vars
  <2> QED
    BY <2>1, NextAnalysis, NextCache
<1>3. AnInv /\ CacheInv => AnalyzerSound
  BY AnalyzerImplied
<1> QED
  BY <1>1, <1>2, <1>3, PTL DEF ToolsSpec

-----------------------------------------------------------------------------
(* ToolCalls. *)

\* The methods of the clients.
Methods ==
  {"didChangeWatchedFiles", "didChangeConfiguration", "definition", "hover",
   "signatureHelp", "codeAction", "rename", "formatting", "rangeFormatting",
   "prepareRename", "foldingRange", "selectionRange", "documentLink",
   "documentColor", "colorPresentation", "executeCommand",
   "prepareCallHierarchy", "semanticTokens", "incomingCalls", "outgoingCalls",
   "diagnostic"}

\* The functions that call_hierarchy asks.
HierarchyFns == {"PrepareCallHierarchy", "IncomingCalls", "OutgoingCalls"}

\* bridge.go: one function answers a failure with an empty list, and one
\* renames.
LEMMA BridgeFacts ==
  \A fn \in DOMAIN Bridge :
    /\ Bridge[fn].method \in Methods
    /\ Bridge[fn].onError = IF fn = "FindSymbolDefinitions" THEN "empty" ELSE "error"
    /\ fn = "RenameSymbol" => Bridge[fn].method = "rename"
<1> DEFINE Fit(f) ==
  \A n \in DOMAIN f :
    /\ f[n].method \in Methods
    /\ f[n].onError = IF n = "FindSymbolDefinitions" THEN "empty" ELSE "error"
    /\ n = "RenameSymbol" => f[n].method = "rename"
<1>1. Fit(BridgeDefinitions)
  <2>1. Given("definition") = [from |-> "given", opens |-> FALSE,
                               method |-> "definition", onError |-> "error"]
    <3>1. PICK r : r = [OnUri("definition") EXCEPT !.from = "given"]
      OBVIOUS
    <3>2. r = [from |-> "given", opens |-> TRUE,
               method |-> "definition", onError |-> "error"]
      BY <3>1 DEF OnUri
    <3>3. Given("definition") = [r EXCEPT !.opens = FALSE]
      BY <3>1, <3>2 DEF Given, OnUri
    <3> QED
      BY <3>2, <3>3
  <2> QED
    BY <2>1 DEF Methods, BridgeDefinitions
<1>2. Fit(BridgeHover) /\ Fit(BridgeSignatureHelp) /\ Fit(BridgeDiagnostics)
  BY DEF Methods, BridgeHover, BridgeSignatureHelp, BridgeDiagnostics, OnUri
<1>3. Fit(BridgeActions) /\ Fit(BridgeRename)
  BY DEF Methods, BridgeActions, BridgeRename, OnUri
<1>4. Fit(BridgeCommands)
  <2>1. \A m : Given(m).method = m /\ Given(m).onError = "error"
    BY DEF Given, OnUri
  <2> QED
    BY <2>1 DEF Methods, BridgeCommands
<1>5. Fit(BridgeRanges)
  BY DEF Methods, BridgeRanges, OnUri
<1>6. Fit(BridgeLinks) /\ Fit(BridgeSemanticTokens)
  BY DEF Methods, BridgeLinks, BridgeSemanticTokens, OnUri
<1>7. Fit(BridgeHierarchy)
  <2>1. ASSUME NEW m
        PROVE  /\ [OnUri(m) EXCEPT !.from = "item", !.opens = FALSE].method = m
               /\ [OnUri(m) EXCEPT !.from = "item", !.opens = FALSE].onError = "error"
    BY DEF OnUri
  <2>2. /\ BridgeHierarchy["PrepareCallHierarchy"].method = "prepareCallHierarchy"
        /\ BridgeHierarchy["PrepareCallHierarchy"].onError = "error"
    BY DEF BridgeHierarchy, OnUri
  <2>3. /\ BridgeHierarchy["IncomingCalls"].method = "incomingCalls"
        /\ BridgeHierarchy["IncomingCalls"].onError = "error"
    BY <2>1 DEF BridgeHierarchy
  <2>4. /\ BridgeHierarchy["OutgoingCalls"].method = "outgoingCalls"
        /\ BridgeHierarchy["OutgoingCalls"].onError = "error"
    BY <2>1 DEF BridgeHierarchy
  <2>5. DOMAIN BridgeHierarchy = HierarchyFns
    BY DEF BridgeHierarchy, HierarchyFns
  <2> QED
    BY <2>2, <2>3, <2>4, <2>5 DEF Methods, HierarchyFns
<1>8. \A f, g : Fit(f) /\ Fit(g) => Fit(Beside(f, g))
  BY DEF Beside
<1> HIDE DEF Fit
<1>9. Fit(Bridge)
  BY <1>1, <1>2, <1>3, <1>4, <1>5, <1>6, <1>7, <1>8 DEF Bridge
<1> QED
  BY <1>9 DEF Fit

\* client.go and session_adapter.go: what the adapter asks is what the session
\* manager knows, and it asks for a renaming.
LEMMA ClientFacts ==
  /\ DOMAIN Direct = Methods /\ DOMAIN Adapter = Methods
  /\ \A m \in Methods :
       /\ Direct[m] \in {"sent", "nil", "empty"}
       /\ Direct[m] = "sent" => m \in Notifications
       /\ m = "rename" => Direct[m] = "empty"
       /\ Adapter[m] \in {"asks", "stub", "refuses"}
       /\ Adapter[m] = "asks" => m \in Forwarded
       /\ m = "rename" => Adapter[m] = "asks"
<1>1. DOMAIN Direct = Methods
  BY DEF Direct, Beside, DirectNotifications, DirectNavigation, DirectEdits,
         DirectRanges, DirectCalls, Methods
<1>2. \A m \in DOMAIN Direct : /\ Direct[m] \in {"sent", "nil", "empty"}
                               /\ Direct[m] = "sent" => m \in Notifications
                               /\ m = "rename" => Direct[m] = "empty"
  BY SMTT(30) DEF Direct, Beside, DirectNotifications, DirectNavigation,
                  DirectEdits, DirectRanges, DirectCalls, Notifications
<1>3. DOMAIN Adapter = Methods
  BY DEF Adapter, Beside, AdapterNavigation, AdapterCalls, AdapterEdits,
         AdapterDiagnostics, AdapterStubs, AdapterNotifications, Methods
<1>4. \A m \in DOMAIN Adapter : /\ Adapter[m] \in {"asks", "stub", "refuses"}
                                /\ Adapter[m] = "asks" => m \in Forwarded
                                /\ m = "rename" => Adapter[m] = "asks"
  BY SMTT(30) DEF Adapter, Beside, AdapterNavigation, AdapterCalls,
                  AdapterEdits, AdapterDiagnostics, AdapterStubs,
                  AdapterNotifications, Forwarded
<1> QED
  BY <1>1, <1>2, <1>3, <1>4

\* The tools: which function each one asks, and that only rename applies what
\* it has not looked at.
LEMMA ToolFacts ==
  /\ \A n \in DOMAIN Tools : /\ Tools[n].asks \in DOMAIN Bridge
                             /\ Tools[n].applies = "always" => n = "rename"
  /\ Tools["call_hierarchy"].asks = "PrepareCallHierarchy"
  /\ Tools["rename"].asks = "RenameSymbol"
  /\ HierarchyFns \subseteq DOMAIN Bridge
<1> DEFINE Fns == DOMAIN Bridge
<1>1. \A fn, v :
        /\ PlainTool(fn).applies = "no" /\ PlainTool(fn).asks = fn
        /\ [PlainTool(fn) EXCEPT !.late = v].applies = "no"
        /\ [PlainTool(fn) EXCEPT !.late = v].asks = fn
        /\ [PlainTool(fn) EXCEPT !.infers = v].applies = "no"
        /\ [PlainTool(fn) EXCEPT !.infers = v].asks = fn
        /\ [PlainTool(fn) EXCEPT !.applies = v].applies = v
        /\ [PlainTool(fn) EXCEPT !.applies = v].asks = fn
        /\ [PlainTool(fn) EXCEPT !.late = v, !.infers = TRUE].applies = "no"
        /\ [PlainTool(fn) EXCEPT !.late = v, !.infers = TRUE].asks = fn
  BY DEF PlainTool
<1>2. /\ HoverTool.applies # "always" /\ DefinitionTool.applies # "always"
      /\ SignatureHelpTool.applies # "always"
      /\ PrepareRenameTool.applies # "always"
      /\ FoldingRangeTool.applies # "always"
      /\ SelectionRangeTool.applies # "always"
      /\ DocumentLinkTool.applies # "always"
      /\ DocumentColorTool.applies # "always"
      /\ ColorPresentationTool.applies # "always"
      /\ SemanticTokensTool.applies # "always"
      /\ CodeActionsTool.applies # "always"
      /\ ExecuteCommandTool.applies # "always"
      /\ DidChangeWatchedFilesTool.applies # "always"
      /\ DidChangeConfigurationTool.applies # "always"
      /\ FormatDocumentTool.applies # "always"
      /\ RangeFormattingTool.applies # "always"
      /\ DocumentDiagnosticsTool.applies # "always"
      /\ CallHierarchyTool.applies # "always"
  BY <1>1 DEF HoverTool, DefinitionTool, SignatureHelpTool, PrepareRenameTool,
              FoldingRangeTool, SelectionRangeTool, DocumentLinkTool,
              DocumentColorTool, ColorPresentationTool, SemanticTokensTool,
              CodeActionsTool, ExecuteCommandTool, DidChangeWatchedFilesTool,
              DidChangeConfigurationTool, FormatDocumentTool,
              RangeFormattingTool, DocumentDiagnosticsTool, CallHierarchyTool
<1>3. \A n \in DOMAIN Tools : Tools[n].applies = "always" => n = "rename"
  BY <1>2 DEF Tools
<1>4. {"GetHoverInformation", "FindSymbolDefinitions", "GetSignatureHelp",
       "PrepareRename", "FoldingRange", "SelectionRange", "DocumentLink",
       "DocumentColor", "ColorPresentation", "SemanticTokens",
       "GetCodeActions", "ExecuteCommand", "DidChangeWatchedFiles",
       "DidChangeConfiguration", "RenameSymbol", "FormatDocument",
       "RangeFormatting", "GetDocumentDiagnostics", "PrepareCallHierarchy",
       "IncomingCalls", "OutgoingCalls"}
        \subseteq Fns
  BY DEF Bridge, Beside, BridgeDefinitions, BridgeHover, BridgeSignatureHelp,
         BridgeActions, BridgeRanges, BridgeLinks, BridgeRename,
         BridgeCommands, BridgeSemanticTokens, BridgeHierarchy,
         BridgeDiagnostics
<1> HIDE DEF Fns
<1>5. /\ HoverTool.asks \in Fns /\ DefinitionTool.asks \in Fns
      /\ SignatureHelpTool.asks \in Fns /\ PrepareRenameTool.asks \in Fns
      /\ FoldingRangeTool.asks \in Fns /\ SelectionRangeTool.asks \in Fns
      /\ DocumentLinkTool.asks \in Fns /\ DocumentColorTool.asks \in Fns
      /\ ColorPresentationTool.asks \in Fns /\ SemanticTokensTool.asks \in Fns
      /\ CodeActionsTool.asks \in Fns /\ ExecuteCommandTool.asks \in Fns
      /\ DidChangeWatchedFilesTool.asks \in Fns
      /\ DidChangeConfigurationTool.asks \in Fns /\ RenameTool.asks \in Fns
      /\ FormatDocumentTool.asks \in Fns /\ RangeFormattingTool.asks \in Fns
      /\ DocumentDiagnosticsTool.asks \in Fns /\ CallHierarchyTool.asks \in Fns
  BY <1>1, <1>4 DEF HoverTool, DefinitionTool, SignatureHelpTool,
                   PrepareRenameTool, FoldingRangeTool, SelectionRangeTool,
                   DocumentLinkTool, DocumentColorTool, ColorPresentationTool,
                   SemanticTokensTool, CodeActionsTool, ExecuteCommandTool,
                   DidChangeWatchedFilesTool, DidChangeConfigurationTool,
                   RenameTool, FormatDocumentTool, RangeFormattingTool,
                   DocumentDiagnosticsTool, CallHierarchyTool
<1>6. \A n \in DOMAIN Tools : Tools[n].asks \in Fns
  BY <1>5 DEF Tools
<1>7. /\ Tools["call_hierarchy"].asks = "PrepareCallHierarchy"
      /\ Tools["rename"].asks = "RenameSymbol"
  BY DEF Tools, PlainTool, CallHierarchyTool, RenameTool
<1>8. HierarchyFns \subseteq Fns
  BY <1>4 DEF HierarchyFns
<1> QED
  BY <1>3, <1>6, <1>7, <1>8 DEF Fns

\* The stages of a function of the bridge, and those before the first one.
Serving == {"client", "open", "ask", "waiting"}
Starting == {"parameters", "ready", "prepare"}

Came == [fn : DOMAIN Bridge,
         reply : Replies \cup Failures \cup {"stub", "sent"},
         answer : {"value", "empty", "nil", "error", "sent"}]

CallValues ==
  /\ call.tool \in DOMAIN Tools /\ call.mode \in {"session", "direct"}
  /\ call.direction \in {"incoming", "outgoing", "both"}
  /\ stage \in Starting \cup Serving \cup {"tool", "done"}
  /\ linkUp \in BOOLEAN /\ pending \in Seq(DOMAIN Bridge) /\ came \in Seq(Came)
  /\ outcome.kind \in {"none", "text", "error", "panic"}

\* What is asked next and what came back, at each stage.
CallShape ==
  /\ stage # "done" => pending # << >> /\ outcome = NoOutcome
  /\ stage \in Starting => came = << >>
  /\ stage = "tool" => came # << >>
  /\ IF call.tool = "call_hierarchy"
     THEN /\ \A i \in DOMAIN pending : pending[i] \in HierarchyFns
          /\ \A i \in DOMAIN came : came[i].fn \in HierarchyFns
     ELSE /\ pending = <<Tools[call.tool].asks>>
          /\ \A i \in DOMAIN came : came[i].fn = Tools[call.tool].asks
          /\ stage \in Serving => came = << >>
          /\ Len(came) <= 1
  /\ stage = "waiting" /\ call.mode = "session" => Bridge[Fn].method \in Forwarded

\* How often the servers are asked.
CallLength ==
  /\ Len(came) <= 1 + 2 * MaxItems
  /\ stage # "done" =>
       Len(came) + Len(pending) <= 1 + 2 * MaxItems + (IF stage = "tool" THEN 1 ELSE 0)

\* What came back agrees with what has happened.
HasFailed(e) ==
  e.reply \in Failures /\ ~(e.fn = "FindSymbolDefinitions" /\ e.reply # "no client")

Accounts(e) ==
  /\ e.answer = "error" <=> HasFailed(e)
  /\ e.answer \in {"nil", "empty"} =>
       \/ e.reply \in {"null", "empty"}
       \/ e.reply = "stub" /\ call.mode = "session"
       \/ e.fn = "FindSymbolDefinitions" /\ e.reply \in Failures
  /\ e.reply # "unknown method"
  /\ e.fn = "RenameSymbol" /\ e.answer = "nil" =>
       call.mode = "session" /\ e.reply = "null"

CallInv ==
  /\ CallValues /\ CallShape /\ CallLength
  /\ \A i \in DOMAIN came : Accounts(came[i])
  /\ AnswersSound

LEMMA InitCall == CallInit => CallInv
<1> SUFFICES ASSUME CallInit PROVE CallInv
  OBVIOUS
<1>1. /\ call.tool \in DOMAIN Tools /\ call.mode \in {"session", "direct"}
      /\ call.direction \in {"incoming", "outgoing", "both"}
  BY DEF CallInit
<1>2. PICK fn \in DOMAIN Bridge : fn = Tools[call.tool].asks
  BY <1>1, ToolFacts
<1>3. /\ stage = "parameters" /\ pending = <<fn>> /\ linkUp = FALSE
      /\ came = << >> /\ outcome = NoOutcome
  BY <1>2 DEF CallInit
<1>4. /\ pending \in Seq(DOMAIN Bridge) /\ came \in Seq(Came)
      /\ pending # << >> /\ Len(came) = 0 /\ Len(pending) = 1
  BY <1>3
<1>5. CallValues
  BY <1>1, <1>3, <1>4 DEF CallValues, NoOutcome, Starting
<1>6. CallShape
  BY <1>2, <1>3, <1>4, ToolFacts DEF CallShape, HierarchyFns, Serving
<1>7. CallLength
  BY <1>3, <1>4, ToolCallsConstants DEF CallLength
<1>8. AnswersSound
  BY <1>3 DEF AnswersSound, FailuresReported, NothingIsAnAnswer,
              AdapterIsUnderstood, OnlyNilRenamePanics, NoOutcome
<1> QED
  BY <1>3, <1>5, <1>6, <1>7, <1>8 DEF CallInv

\* Nothing has been said before the tool returns.
LEMMA NotYetSaid ==
  ASSUME stage' # "done", outcome' = NoOutcome,
         \A i \in DOMAIN came' : came'[i].reply # "unknown method"
  PROVE  AnswersSound'
<1>1. outcome'.kind = "none" /\ outcome'.says = "none"
  BY DEF NoOutcome
<1>2. FailuresReported' /\ NothingIsAnAnswer'
  BY DEF FailuresReported, NothingIsAnAnswer
<1>3. AdapterIsUnderstood' /\ OnlyNilRenamePanics'
  BY <1>1 DEF AdapterIsUnderstood, OnlyNilRenamePanics
<1> QED
  BY <1>2, <1>3 DEF AnswersSound

\* The tool says what came of the calls.
LEMMA Saying ==
  ASSUME CallInv, stage # "done",
         NEW k \in {"text", "error", "panic"}, NEW s, NEW p,
         Finish(Outcome(k, s, p)), UNCHANGED <<call, pending, linkUp, came>>,
         \/ k = "error"
         \/ p = Problems
         \/ \A i \in DOMAIN came : came[i].answer # "error",
         s = "nothing" => came # << >> /\ Latest.answer \in {"nil", "empty"},
         k = "panic" => /\ came # << >> /\ Latest.answer = "nil"
                        /\ call.tool = "rename"
  PROVE  CallInv'
<1>0. CallValues /\ CallShape /\ CallLength /\ \A i \in DOMAIN came : Accounts(came[i])
  BY DEF CallInv
<1>1. /\ stage' = "done" /\ outcome' = Outcome(k, s, p)
      /\ UNCHANGED <<call, pending, linkUp, came>>
  BY DEF Finish
<1>2. outcome'.kind = k /\ outcome'.says = s /\ outcome'.problems = p
  BY <1>1 DEF Outcome
<1>3. CallValues'
  BY <1>0, <1>1, <1>2 DEF CallValues
<1>4. CallShape'
  BY <1>0, <1>1 DEF CallShape, Serving, Starting
<1>5. CallLength' /\ \A i \in DOMAIN came' : Accounts(came[i])'
  BY <1>0, <1>1 DEF CallLength, Accounts, HasFailed
<1>l. came # << >> => Len(came) \in DOMAIN came
  BY <1>0 DEF CallValues
<1>6. FailuresReported'
  <2>1. {i \in DOMAIN came : HasFailed(came[i])}
          = {i \in DOMAIN came : came[i].answer = "error"}
    BY <1>0 DEF Accounts
  <2>2. PICK F : F = {i \in DOMAIN came : HasFailed(came[i])}
    OBVIOUS
  <2>3. k = "error" \/ p = Cardinality(F) \/ F = {}
    BY <2>1, <2>2 DEF Problems
  <2>4. outcome'.kind = "error" \/ outcome'.problems = Cardinality(F) \/ F = {}
    BY <1>2, <2>3
  <2>5. F = {i \in DOMAIN came' :
               /\ came'[i].reply \in Failures
               /\ ~(/\ came'[i].fn = "FindSymbolDefinitions"
                    /\ came'[i].reply # "no client")}
    BY <1>1, <2>2 DEF HasFailed
  <2> QED
    BY <2>4, <2>5 DEF FailuresReported
<1>7. NothingIsAnAnswer'
  <2> SUFFICES ASSUME s = "nothing"
               PROVE  \/ Latest.reply \in {"null", "empty"}
                      \/ Latest.reply = "stub" /\ call.mode = "session"
                      \/ Latest.fn = "FindSymbolDefinitions" /\ Latest.reply \in Failures
    BY <1>1, <1>2 DEF NothingIsAnAnswer, Latest
  <2> QED
    BY <1>0, <1>l DEF Accounts, Latest
<1>8. AdapterIsUnderstood'
  BY <1>0, <1>1 DEF AdapterIsUnderstood, Accounts
<1>9. OnlyNilRenamePanics'
  <2> SUFFICES ASSUME k = "panic"
               PROVE  /\ call.tool = "rename" /\ call.mode = "session"
                      /\ Latest.reply = "null"
    BY <1>1, <1>2 DEF OnlyNilRenamePanics, Latest
  <2>1. Latest.fn = "RenameSymbol"
    BY <1>0, <1>l, ToolFacts DEF CallShape, Latest
  <2> QED
    BY <1>0, <1>l, <2>1 DEF Accounts, Latest
<1> QED
  BY <1>3, <1>4, <1>5, <1>6, <1>7, <1>8, <1>9 DEF CallInv, AnswersSound

\* A function of the bridge returns.
LEMMA Returning ==
  ASSUME CallInv, stage \in Serving, NEW e \in Came, e.fn = Fn, Accounts(e),
         came' = Append(came, e), stage' = "tool",
         UNCHANGED <<call, pending, linkUp, outcome>>
  PROVE  CallInv'
<1>0. CallValues /\ CallShape /\ CallLength /\ \A i \in DOMAIN came : Accounts(came[i])
  BY DEF CallInv
<1>1. stage # "done" /\ stage # "tool" /\ stage \notin Starting
  BY DEF Serving, Starting
<1>2. PICK n \in Nat : n = Len(came)
  BY <1>0 DEF CallValues
<1>3. /\ came \in Seq(Came) /\ came' \in Seq(Came) /\ Len(came') = n + 1
      /\ DOMAIN came' = DOMAIN came \cup {n + 1} /\ came'[n + 1] = e
      /\ \A i \in DOMAIN came : came'[i] = came[i]
  BY <1>0, <1>2 DEF CallValues
<1>4. /\ pending \in Seq(DOMAIN Bridge) /\ pending # << >> /\ outcome = NoOutcome
      /\ Fn = pending[1] /\ 1 \in DOMAIN pending
  BY <1>0, <1>1 DEF CallValues, CallShape, Fn
<1>5. CallValues'
  BY <1>0, <1>3 DEF CallValues
<1>6. CallShape'
  <2>1. came' # << >>
    BY <1>3
  <2>2. CASE call.tool = "call_hierarchy"
    <3>1. \A i \in DOMAIN came' : came'[i].fn \in HierarchyFns
      BY <1>0, <1>3, <1>4, <2>2 DEF CallShape
    <3> QED
      BY <1>0, <1>1, <1>4, <2>1, <2>2, <3>1 DEF CallShape, Serving, Starting
  <2>3. CASE call.tool # "call_hierarchy"
    <3>1. pending = <<Tools[call.tool].asks>> /\ came = << >>
      BY <1>0, <2>3 DEF CallShape
    <3>2. n = 0 /\ Fn = Tools[call.tool].asks
      BY <1>2, <1>4, <3>1
    <3>3. \A i \in DOMAIN came' : came'[i].fn = Tools[call.tool].asks
      BY <1>3, <3>1, <3>2
    <3> QED
      BY <1>0, <1>1, <1>3, <1>4, <2>1, <2>3, <3>1, <3>2, <3>3
      DEF CallShape, Serving, Starting
  <2> QED
    BY <2>2, <2>3
<1>7. CallLength'
  <2>1. PICK m \in Nat : m = Len(pending)
    BY <1>4
  <2>2. m >= 1
    BY <1>4, <2>1
  <2>3. n + m <= 1 + 2 * MaxItems
    BY <1>0, <1>1, <1>2, <2>1, ToolCallsConstants DEF CallLength
  <2> QED
    BY <1>3, <2>1, <2>2, <2>3, ToolCallsConstants DEF CallLength
<1>8. \A i \in DOMAIN came' : Accounts(came[i])'
  <2>1. \A i \in DOMAIN came' : Accounts(came'[i])
    BY <1>0, <1>3
  <2> QED
    BY <2>1 DEF Accounts, HasFailed
<1>9. AnswersSound'
  <2>1. stage' # "done" /\ outcome' = NoOutcome
    BY <1>4
  <2>2. \A i \in DOMAIN came' : came'[i].reply # "unknown method"
    BY <1>8 DEF Accounts
  <2> QED
    BY <2>1, <2>2, NotYetSaid
<1> QED
  BY <1>5, <1>6, <1>7, <1>8, <1>9 DEF CallInv

\* The call goes on, with nothing come back and nothing said.
LEMMA GoingOn ==
  ASSUME CallInv, stage # "done", stage' \in Starting \cup Serving,
         stage' \in Starting => stage \in Starting,
         stage = "tool" => call.tool = "call_hierarchy",
         stage' = "waiting" /\ call.mode = "session" =>
           Bridge[Fn].method \in Forwarded,
         linkUp' \in BOOLEAN, stage # "tool" => UNCHANGED pending,
         stage = "tool" =>
           /\ pending' \in Seq(HierarchyFns) /\ pending' # << >>
           /\ stage' # "waiting" /\ Len(came) + Len(pending') <= 1 + 2 * MaxItems,
         UNCHANGED <<call, came, outcome>>
  PROVE  CallInv'
<1>0. CallValues /\ CallShape /\ CallLength /\ \A i \in DOMAIN came : Accounts(came[i])
  BY DEF CallInv
<1>1. pending' \in Seq(DOMAIN Bridge) /\ pending' # << >>
  <2>1. CASE stage = "tool"
    BY <2>1, ToolFacts
  <2>2. CASE stage # "tool"
    BY <1>0, <2>2 DEF CallValues, CallShape
  <2> QED
    BY <2>1, <2>2
<1>2. stage' # "done" /\ stage' # "tool"
  BY DEF Starting, Serving
<1>3. CallValues'
  BY <1>0, <1>1 DEF CallValues
<1>4. CallShape'
  <2>1. CASE stage = "tool"
    <3>1. stage' \in Serving /\ stage' \notin Starting
      BY <2>1 DEF Starting, Serving
    <3>2. \A i \in DOMAIN pending' : pending'[i] \in HierarchyFns
      BY <2>1
    <3> QED
      BY <1>0, <1>1, <1>2, <2>1, <3>1, <3>2 DEF CallShape
  <2>2. CASE stage # "tool"
    <3>1. stage' = "waiting" /\ call.mode = "session" =>
            Bridge[Head(pending')].method \in Forwarded
      BY <2>2 DEF Fn
    <3>2. stage \in Starting \cup Serving
      BY <1>0, <2>2 DEF CallValues
    <3> QED
      BY <1>0, <1>1, <1>2, <2>2, <3>1, <3>2 DEF CallShape, Fn
  <2> QED
    BY <2>1, <2>2
<1>5. CallLength'
  <2>1. Len(came) + Len(pending') <= 1 + 2 * MaxItems
    <3>1. CASE stage = "tool"
      BY <3>1
    <3>2. CASE stage # "tool"
      <4>1. PICK n \in Nat, m \in Nat : n = Len(came) /\ m = Len(pending)
        BY <1>0 DEF CallValues
      <4>2. n + m <= 1 + 2 * MaxItems
        BY <1>0, <3>2, <4>1, ToolCallsConstants DEF CallLength
      <4> QED
        BY <3>2, <4>1, <4>2
    <3> QED
      BY <3>1, <3>2
  <2> QED
    BY <1>0, <1>2, <2>1, ToolCallsConstants DEF CallLength
<1>6. \A i \in DOMAIN came' : Accounts(came[i])'
  BY <1>0 DEF Accounts, HasFailed
<1>7. AnswersSound'
  <2>1. outcome' = NoOutcome
    BY <1>0 DEF CallShape
  <2>2. \A i \in DOMAIN came' : came'[i].reply # "unknown method"
    BY <1>6 DEF Accounts
  <2> QED
    BY <1>2, <2>1, <2>2, NotYetSaid
<1> QED
  BY <1>3, <1>4, <1>5, <1>6, <1>7 DEF CallInv

\* What the functions of call_hierarchy are asked for, item after item.
LEMMA ItemsAsked ==
  ASSUME NEW n \in 1 .. MaxItems, NEW direction \in {"incoming", "outgoing", "both"}
  PROVE  LET each == ItemCalls(direction)
             asked == [i \in 1 .. n * Len(each) |-> each[((i - 1) % Len(each)) + 1]]
         IN  /\ asked \in Seq(HierarchyFns) /\ asked # << >>
             /\ Len(asked) <= 2 * MaxItems
<1> DEFINE each == ItemCalls(direction)
           asked == [i \in 1 .. n * Len(each) |-> each[((i - 1) % Len(each)) + 1]]
<1>0. n \in Nat /\ n >= 1 /\ n <= MaxItems /\ MaxItems \in Nat
  BY ToolCallsConstants
<1>1. \/ Len(each) = 1 /\ each[1] \in HierarchyFns
      \/ Len(each) = 2 /\ each[1] \in HierarchyFns /\ each[2] \in HierarchyFns
  BY DEF ItemCalls, HierarchyFns
<1> HIDE DEF each
<1>2. PICK d \in Nat : /\ d = Len(each) /\ d \in {1, 2}
                       /\ \A j \in 1 .. d : each[j] \in HierarchyFns
  <2>1. CASE Len(each) = 1 /\ each[1] \in HierarchyFns
    <3>1. \A j \in 1 .. 1 : each[j] \in HierarchyFns
      BY <2>1
    <3> QED
      BY <2>1, <3>1
  <2>2. CASE Len(each) = 2 /\ each[1] \in HierarchyFns /\ each[2] \in HierarchyFns
    <3>1. \A j \in 1 .. 2 : each[j] \in HierarchyFns
      BY <2>2
    <3> QED
      BY <2>2, <3>1
  <2> QED
    BY <1>1, <2>1, <2>2
<1>3. PICK k \in Nat : k = n * d /\ 1 <= k /\ k <= 2 * MaxItems
  BY <1>0, <1>2
<1>4. asked = [i \in 1 .. k |-> each[((i - 1) % d) + 1]]
  BY <1>2, <1>3
<1>5. \A i \in 1 .. k : ((i - 1) % d) + 1 \in 1 .. d
  <2>1. CASE d = 1
    BY <2>1
  <2>2. CASE d = 2
    BY <2>2
  <2> QED
    BY <1>2, <2>1, <2>2
<1>6. asked \in [1 .. k -> HierarchyFns]
  BY <1>2, <1>4, <1>5
<1> HIDE DEF asked
<1>7. asked \in Seq(HierarchyFns) /\ Len(asked) = k /\ asked # << >>
  BY <1>3, <1>6
<1> QED
  BY <1>3, <1>7 DEF asked, each

\* The method of the client is one that both clients have.
LEMMA NextFn ==
  ASSUME CallInv, stage \in Serving
  PROVE  /\ Fn \in DOMAIN Bridge /\ Bridge[Fn].method \in Methods
         /\ Bridge[Fn].onError =
              (IF Fn = "FindSymbolDefinitions" THEN "empty" ELSE "error")
         /\ Fn = "RenameSymbol" => Bridge[Fn].method = "rename"
<1>1. pending \in Seq(DOMAIN Bridge) /\ pending # << >>
  BY DEF CallInv, CallValues, CallShape, Serving
<1>2. Fn \in DOMAIN Bridge
  BY <1>1 DEF Fn
<1> QED
  BY <1>2, BridgeFacts

\* A failure arrives, other than that there is no client.
LEMMA FailureArrives ==
  ASSUME CallInv, stage \in {"ask", "waiting"},
         NEW reply \in Failures \ {"no client", "unknown method"},
         Arrived(reply, "error"), UNCHANGED <<call, pending, linkUp, outcome>>
  PROVE  CallInv'
<1>1. PICK e : e = [fn |-> Fn, reply |-> reply, answer |-> Bridge[Fn].onError]
  OBVIOUS
<1>2. came' = Append(came, e) /\ stage' = "tool"
  BY <1>1 DEF Arrived
<1>3. stage \in Serving
  BY DEF Serving
<1>4. e \in Came /\ e.fn = Fn
  BY <1>1, <1>3, NextFn DEF Came
<1>5. reply # "null" /\ reply # "empty" /\ reply # "stub"
  BY DEF Failures
<1>6. Accounts(e)
  BY <1>1, <1>3, <1>5, NextFn DEF Accounts, HasFailed
<1> QED
  BY <1>2, <1>3, <1>4, <1>6, Returning

\* An answer arrives.
LEMMA AnswerArrives ==
  ASSUME CallInv, stage \in {"ask", "waiting"},
         NEW reply \in {"value", "empty", "null", "stub", "sent"},
         NEW answer \in {"value", "empty", "nil", "sent"},
         answer = "empty" => reply \in {"empty", "null"},
         answer = "nil" => reply = "null" \/ (reply = "stub" /\ call.mode = "session"),
         answer = "nil" /\ Fn = "RenameSymbol" =>
           call.mode = "session" /\ reply = "null",
         Arrived(reply, answer), UNCHANGED <<call, pending, linkUp, outcome>>
  PROVE  CallInv'
<1>1. PICK e : e = [fn |-> Fn, reply |-> reply, answer |-> answer]
  OBVIOUS
<1>2. came' = Append(came, e) /\ stage' = "tool"
  BY <1>1 DEF Arrived
<1>3. stage \in Serving
  BY DEF Serving
<1>4. e \in Came /\ e.fn = Fn
  BY <1>1, <1>3, NextFn DEF Came, Replies
<1>5. reply \notin Failures /\ reply # "unknown method"
  BY DEF Failures
<1>6. Accounts(e)
  BY <1>1, <1>5 DEF Accounts, HasFailed
<1> QED
  BY <1>2, <1>3, <1>4, <1>6, Returning

\* client.go, bridge.go and the handlers: the steps of a call.
LEMMA NextCall == CallInv /\ [CallNext]_toolVars => CallInv'
<1> SUFFICES ASSUME CallInv, [CallNext]_toolVars PROVE CallInv'
  OBVIOUS
<1>0. CallValues /\ CallShape /\ CallLength /\ \A i \in DOMAIN came : Accounts(came[i])
  BY DEF CallInv
<1>n. linkUp \in BOOLEAN /\ (stage \in Starting => came = << >>)
  BY <1>0 DEF CallValues, CallShape
<1>1. CASE CheckParameters
  <2>1. stage = "parameters" /\ stage \in Starting /\ came = << >>
    BY <1>1, <1>n DEF CheckParameters, Starting
  <2>2. CASE stage' = "ready" /\ UNCHANGED outcome
    BY <1>1, <1>n, <2>1, <2>2, GoingOn DEF CheckParameters, Starting
  <2>3. CASE Finish(Outcome("error", "parameters", 0))
    BY <1>1, <2>1, <2>3, Saying DEF CheckParameters
  <2> QED
    BY <1>1, <2>2, <2>3 DEF CheckParameters
<1>2. CASE CheckReady
  <2>1. stage = "ready" /\ stage \in Starting /\ came = << >>
    BY <1>2, <1>n DEF CheckReady, Starting
  <2>2. CASE stage' = "prepare" /\ UNCHANGED outcome
    BY <1>2, <1>n, <2>1, <2>2, GoingOn DEF CheckReady, Starting
  <2>3. CASE Finish(Outcome("text", "not ready", 0))
    <3>1. \A i \in DOMAIN came : came[i].answer # "error"
      BY <2>1
    <3> QED
      BY <1>2, <2>1, <2>3, <3>1, Saying DEF CheckReady
  <2> QED
    BY <1>2, <2>2, <2>3 DEF CheckReady
<1>3. CASE Prepare
  <2>1. stage = "prepare" /\ stage \in Starting /\ came = << >>
    BY <1>3, <1>n DEF Prepare, Starting
  <2>2. CASE stage' = "client" /\ UNCHANGED outcome
    <3>1. stage' \in Serving /\ stage' \notin Starting
      BY <2>2 DEF Serving, Starting
    <3> QED
      BY <1>3, <1>n, <2>1, <2>2, <3>1, GoingOn DEF Prepare
  <2>3. CASE Finish(Outcome("error", "parameters", 0))
    BY <1>3, <2>1, <2>3, Saying DEF Prepare
  <2> QED
    BY <1>3, <2>2, <2>3 DEF Prepare
<1>4. CASE FindClient
  <2>1. stage = "client" /\ stage \in Serving /\ UNCHANGED <<call, pending, outcome>>
    BY <1>4 DEF FindClient, Serving
  <2>2. CASE /\ stage' = IF Bridge[Fn].opens THEN "open" ELSE "ask"
             /\ linkUp' = TRUE /\ UNCHANGED came
    <3>1. stage' \in Serving /\ stage' \notin Starting /\ stage' # "waiting"
      BY <2>2 DEF Serving, Starting
    <3> QED
      BY <2>1, <2>2, <3>1, GoingOn
  <2>3. CASE /\ came' = Append(came, [fn |-> Fn, reply |-> "no client",
                                      answer |-> "error"])
             /\ stage' = "tool" /\ UNCHANGED linkUp
    <3>1. PICK e : e = [fn |-> Fn, reply |-> "no client", answer |-> "error"]
      OBVIOUS
    <3>2. e \in Came /\ e.fn = Fn
      BY <2>1, <3>1, NextFn DEF Came, Failures
    <3>3. Accounts(e)
      BY <3>1 DEF Accounts, HasFailed, Failures
    <3> QED
      BY <2>1, <2>3, <3>1, <3>2, <3>3, Returning
  <2> QED
    BY <1>4, <2>2, <2>3 DEF FindClient
<1>5. CASE OpenDocument
  BY <1>5, <1>n, GoingOn DEF OpenDocument, Serving, Starting
<1>6. CASE AskServer
  <2>1. PICK method, does : method = Bridge[Fn].method /\ does = Client[method]
    OBVIOUS
  <2>2. /\ stage = "ask" /\ stage \in Serving
        /\ UNCHANGED <<call, pending, linkUp, outcome>>
    BY <1>6 DEF AskServer, Serving
  <2>3. /\ method \in Methods /\ (Fn = "RenameSymbol" => method = "rename")
        /\ call.mode \in {"session", "direct"}
    BY <1>0, <2>1, <2>2, NextFn DEF CallValues
  <2>4. /\ call.mode = "session" => does = Adapter[method]
        /\ call.mode # "session" => does = Direct[method]
    BY <2>1 DEF Client
  <2>5. CASE /\ does = "stub"
             /\ Arrived("stub", IF method \in Notifications THEN "sent" ELSE "nil")
    <3>1. call.mode = "session" /\ method # "rename"
      BY <2>3, <2>4, <2>5, ClientFacts
    <3>2. PICK answer : answer = IF method \in Notifications THEN "sent" ELSE "nil"
      OBVIOUS
    <3>3. answer \in {"sent", "nil"} /\ Arrived("stub", answer)
      BY <2>5, <3>2
    <3>4. Fn # "RenameSymbol"
      BY <2>3, <3>1
    <3> QED
      BY <2>2, <3>1, <3>3, <3>4, AnswerArrives
  <2>6. CASE Arrived("refused", "error")
    BY <2>2, <2>6, FailureArrives DEF Failures
  <2>7. CASE Arrived("lost", "error")
    BY <2>2, <2>7, FailureArrives DEF Failures
  <2>8. CASE Arrived("sent", "sent")
    BY <2>2, <2>8, AnswerArrives
  <2>9. CASE /\ does \in {"asks", "nil", "empty"}
             /\ stage' = "waiting" /\ UNCHANGED came
    <3>1. call.mode = "session" => method \in Forwarded
      BY <2>3, <2>4, <2>9, ClientFacts
    <3>2. stage' \in Serving /\ stage' \notin Starting
      BY <2>9 DEF Serving, Starting
    <3> QED
      BY <1>n, <2>1, <2>2, <2>9, <3>1, <3>2, GoingOn
  <2> QED
    BY <1>6, <2>1, <2>5, <2>6, <2>7, <2>8, <2>9 DEF AskServer
<1>7. CASE Reply
  <2>1. PICK method : method = Bridge[Fn].method
    OBVIOUS
  <2>2. /\ stage = "waiting" /\ stage \in Serving
        /\ UNCHANGED <<call, pending, linkUp, outcome>>
    BY <1>7 DEF Reply, Serving
  <2>3. /\ method \in Methods /\ (Fn = "RenameSymbol" => method = "rename")
        /\ call.mode \in {"session", "direct"}
        /\ call.mode = "session" => method \in Forwarded
    BY <1>0, <2>1, <2>2, NextFn DEF CallValues, CallShape
  <2>4. CASE Arrived("lost", "error")
    BY <2>2, <2>4, FailureArrives DEF Failures
  <2>5. ASSUME NEW reply \in Replies,
               method \in Notifications => reply \in {"value", "error", "late"},
               Arrived(reply, Answer(method, reply))
        PROVE  CallInv'
    <3>1. CASE reply \in {"error", "malformed", "late"}
      <4>1. Answer(method, reply) = "error"
        BY <3>1 DEF Answer
      <4>2. reply \in Failures \ {"no client", "unknown method"}
        BY <3>1 DEF Failures
      <4> QED
        BY <2>2, <2>5, <4>1, <4>2, FailureArrives
    <3>2. CASE reply \in {"value", "empty"}
      <4>1. Answer(method, reply) = reply
        BY <3>2 DEF Answer
      <4>2. Arrived(reply, reply)
        BY <2>5, <4>1
      <4>3. reply = "nil" => FALSE
        BY <3>2
      <4> QED
        BY <2>2, <3>2, <4>2, <4>3, AnswerArrives
    <3>3. CASE reply = "null"
      <4>1. method \notin Notifications
        BY <2>5, <3>3
      <4>2. PICK answer : answer = Answer(method, "null")
        OBVIOUS
      <4>3. answer = IF call.mode = "session" THEN "nil" ELSE Direct[method]
        BY <4>2 DEF Answer
      <4>4. answer \in {"nil", "empty"}
        BY <2>3, <4>1, <4>3, ClientFacts
      <4>5. answer = "nil" /\ Fn = "RenameSymbol" => call.mode = "session"
        BY <2>3, <4>3, ClientFacts
      <4>6. Arrived("null", answer)
        BY <2>5, <3>3, <4>2
      <4> QED
        BY <2>2, <4>4, <4>5, <4>6, AnswerArrives
    <3> QED
      BY <3>1, <3>2, <3>3 DEF Replies
  <2> QED
    BY <1>7, <2>1, <2>3, <2>4, <2>5 DEF Reply
<1>l. stage = "tool" => /\ came # << >> /\ Len(came) \in Nat /\ Len(came) >= 1
                        /\ Len(came) \in DOMAIN came
                        /\ Latest.answer \in {"value", "empty", "nil", "error", "sent"}
  <2> SUFFICES ASSUME stage = "tool"
               PROVE  /\ came # << >> /\ Len(came) \in Nat /\ Len(came) >= 1
                      /\ Len(came) \in DOMAIN came
                      /\ Latest.answer \in {"value", "empty", "nil", "error", "sent"}
    OBVIOUS
  <2>1. came # << >> /\ came \in Seq(Came)
    BY <1>0 DEF CallValues, CallShape
  <2>2. Len(came) \in Nat /\ Len(came) >= 1 /\ Len(came) \in DOMAIN came
    BY <2>1
  <2>3. came[Len(came)] \in Came
    BY <2>1, <2>2
  <2> QED
    BY <2>1, <2>2, <2>3 DEF Latest, Came
<1>8. CASE ToolEnds
  <2>1. /\ stage = "tool" /\ call.tool # "call_hierarchy"
        /\ UNCHANGED <<call, pending, linkUp, came>>
    BY <1>8 DEF ToolEnds
  <2>2. Len(came) = 1
    <3>1. PICK n \in Nat : n = Len(came) /\ n >= 1
      BY <1>l, <2>1
    <3>2. n <= 1
      BY <1>0, <2>1, <3>1 DEF CallShape
    <3> QED
      BY <3>1, <3>2
  <2>3. \A i \in DOMAIN came : came[i] = Latest
    <3>1. DOMAIN came = 1 .. Len(came)
      BY <1>0 DEF CallValues
    <3> QED
      BY <2>2, <3>1 DEF Latest
  <2>4. PICK applies : applies = Tools[call.tool].applies
    OBVIOUS
  <2>5. applies = "always" => call.tool = "rename"
    BY <1>0, <2>4, ToolFacts DEF CallValues
  <2>6. CASE Finish(Outcome("error", "failed", 1))
    BY <2>1, <2>6, Saying
  <2>7. CASE Latest.answer # "error"
    <3>1. \A i \in DOMAIN came : came[i].answer # "error"
      BY <2>3, <2>7
    <3>2. CASE /\ applies = "always" /\ Latest.answer = "nil"
               /\ Finish(Outcome("panic", "nothing", 0))
      BY <1>l, <2>1, <2>5, <3>1, <3>2, Saying
    <3>3. CASE Finish(Outcome("text", "applied", 0))
      BY <2>1, <3>1, <3>3, Saying
    <3>4. CASE Finish(Outcome("error", "not applied", 0))
      BY <2>1, <3>4, Saying
    <3>5. CASE Finish(Outcome("text", Says, 0))
      <4>1. Says = "nothing" => Latest.answer \in {"nil", "empty"}
        BY <1>l, <2>1 DEF Says
      <4> QED
        BY <1>l, <2>1, <3>1, <3>5, <4>1, Saying
    <3> QED
      BY <1>8, <2>4, <2>7, <3>2, <3>3, <3>4, <3>5 DEF ToolEnds
  <2> QED
    BY <1>8, <2>6, <2>7 DEF ToolEnds
<1>9. CASE HierarchyPrepared
  <2>1. /\ stage = "tool" /\ call.tool = "call_hierarchy" /\ Len(came) = 1
        /\ UNCHANGED <<call, linkUp, came>>
    BY <1>9 DEF HierarchyPrepared
  <2>2. CASE Finish(Outcome("error", "failed", 1)) /\ UNCHANGED pending
    BY <2>1, <2>2, Saying
  <2>3. CASE /\ Latest.answer \in {"nil", "empty"}
             /\ Finish(Outcome("text", "nothing", 0)) /\ UNCHANGED pending
    <3>1. \A i \in DOMAIN came : came[i] = Latest
      <4>1. DOMAIN came = 1 .. Len(came)
        BY <1>0 DEF CallValues
      <4> QED
        BY <2>1, <4>1 DEF Latest
    <3>2. \A i \in DOMAIN came : came[i].answer # "error"
      BY <2>3, <3>1
    <3> QED
      BY <1>l, <2>1, <2>3, <3>2, Saying
  <2>4. CASE /\ \E n \in 1 .. MaxItems :
                  LET each == ItemCalls(call.direction)
                  IN  pending' = [i \in 1 .. n * Len(each) |->
                                    each[((i - 1) % Len(each)) + 1]]
             /\ stage' = "client" /\ UNCHANGED outcome
    <3>1. PICK n \in 1 .. MaxItems :
                 LET each == ItemCalls(call.direction)
                 IN  pending' = [i \in 1 .. n * Len(each) |->
                                   each[((i - 1) % Len(each)) + 1]]
      BY <2>4
    <3>2. call.direction \in {"incoming", "outgoing", "both"}
      BY <1>0 DEF CallValues
    <3>3. /\ pending' \in Seq(HierarchyFns) /\ pending' # << >>
          /\ Len(pending') <= 2 * MaxItems
      BY <3>1, <3>2, ItemsAsked
    <3>4. PICK m \in Nat : m = Len(pending')
      BY <3>3
    <3>5. Len(came) + Len(pending') <= 1 + 2 * MaxItems
      BY <2>1, <3>3, <3>4, ToolCallsConstants
    <3>6. stage' \in Serving /\ stage' \notin Starting /\ stage' # "waiting"
      BY <2>4 DEF Serving, Starting
    <3> QED
      BY <1>n, <2>1, <2>4, <3>3, <3>5, <3>6, GoingOn
  <2> QED
    BY <1>9, <2>2, <2>3, <2>4 DEF HierarchyPrepared
<1>10. CASE HierarchyItem
  <2>1. /\ stage = "tool" /\ call.tool = "call_hierarchy"
        /\ UNCHANGED <<call, linkUp, came>>
    BY <1>10 DEF HierarchyItem
  <2>2. CASE Finish(Outcome("text", "value", Problems)) /\ UNCHANGED pending
    BY <2>1, <2>2, Saying
  <2>3. CASE /\ Len(pending) > 1 /\ pending' = Tail(pending)
             /\ stage' = "client" /\ UNCHANGED outcome
    <3>1. pending \in Seq(DOMAIN Bridge) /\ \A i \in DOMAIN pending : pending[i] \in HierarchyFns
      BY <1>0, <2>1 DEF CallValues, CallShape
    <3>2. pending \in Seq(HierarchyFns)
      BY <3>1
    <3>3. PICK m \in Nat : m = Len(pending) /\ m > 1
      BY <2>3, <3>2
    <3>4. pending' \in Seq(HierarchyFns) /\ Len(pending') = m - 1 /\ pending' # << >>
      <4>1. pending # << >>
        BY <3>3
      <4>2. Tail(pending) \in Seq(HierarchyFns) /\ Len(Tail(pending)) = m - 1
        BY <3>2, <3>3, <4>1, HeadTailProperties
      <4>3. PICK rest \in Seq(HierarchyFns) : rest = pending' /\ Len(rest) = m - 1
        BY <2>3, <4>2
      <4>4. rest # << >>
        BY <3>3, <4>3
      <4> QED
        BY <4>3, <4>4
    <3>5. Len(came) + Len(pending') <= 1 + 2 * MaxItems
      <4>1. PICK n \in Nat : n = Len(came)
        BY <1>l, <2>1
      <4>2. n + m <= 1 + 2 * MaxItems + 1
        BY <1>0, <2>1, <3>3, <4>1 DEF CallLength
      <4> QED
        BY <3>3, <3>4, <4>1, <4>2, ToolCallsConstants
    <3>6. stage' \in Serving /\ stage' \notin Starting /\ stage' # "waiting"
      BY <2>3 DEF Serving, Starting
    <3> QED
      BY <1>n, <2>1, <2>3, <3>4, <3>5, <3>6, GoingOn
  <2> QED
    BY <1>10, <2>2, <2>3 DEF HierarchyItem
<1>11. CASE LinkBreaks
  <2>1. /\ stage \in {"open", "ask", "waiting"} /\ linkUp' = FALSE
        /\ UNCHANGED <<call, stage, pending, came, outcome>>
    BY <1>11 DEF LinkBreaks
  <2>2. stage' \in Serving /\ stage' \notin Starting /\ stage # "tool" /\ stage # "done"
    BY <2>1 DEF Serving, Starting
  <2>3. stage' = "waiting" /\ call.mode = "session" => Bridge[Fn].method \in Forwarded
    BY <1>0, <2>1 DEF CallShape
  <2> QED
    BY <2>1, <2>2, <2>3, GoingOn
<1>12. CASE UNCHANGED toolVars
  <2>1. UNCHANGED <<call, stage, pending, linkUp, came, outcome>>
    BY <1>12 DEF toolVars
  <2>2. CallValues' /\ CallLength'
    BY <1>0, <2>1 DEF CallValues, CallLength
  <2>3. CallShape'
    BY <1>0, <2>1 DEF CallShape, Fn
  <2>4. \A i \in DOMAIN came' : Accounts(came[i])'
    BY <1>0, <2>1 DEF Accounts, HasFailed
  <2>5. AnswersSound'
    BY <2>1 DEF CallInv, AnswersSound, FailuresReported, NothingIsAnAnswer,
                AdapterIsUnderstood, OnlyNilRenamePanics, Latest
  <2> QED
    BY <2>2, <2>3, <2>4, <2>5 DEF CallInv
<1> QED
  BY <1>1, <1>2, <1>3, <1>4, <1>5, <1>6, <1>7, <1>8, <1>9, <1>10, <1>11, <1>12
  DEF CallNext, CallSteps

\* client.go, bridge.go and the handlers: however many items a call hierarchy
\* has and wherever a request fails or the connection breaks, what the tool
\* tells is what came of its requests, and only the rename without an answer
\* ends the process.
THEOREM CallsCorrect == ToolsSpec => []AnswersSound
<1>1. ToolsInit => CallInv
  BY InitCall DEF ToolsInit
<1>2. CallInv /\ [ToolsNext]_vars => CallInv'
  <2>1. [ToolsNext]_vars => [CallNext]_toolVars
    BY DEF ToolsNext, Rest, vars
  <2> QED
    BY <2>1, NextCall
<1>3. CallInv => AnswersSound
  BY DEF CallInv
<1> QED
  BY <1>1, <1>2, <1>3, PTL DEF ToolsSpec

-----------------------------------------------------------------------------
(* ParallelCalls. *)

ParResult == [key : Language, answer : Answers]

\* A sequence with one element more.
LEMMA Appended ==
  ASSUME NEW S, NEW p \in Seq(S), NEW r \in S, NEW q, q = Append(p, r)
  PROVE  \E n \in Nat : /\ n = Len(p) /\ DOMAIN p = 1 .. n
                        /\ q \in Seq(S) /\ DOMAIN q = 1 .. n + 1 /\ Len(q) = n + 1
                        /\ q[n + 1] = r /\ \A i \in 1 .. n : q[i] = p[i]
                        /\ \A i \in 1 .. n + 1 : i = n + 1 \/ i \in 1 .. n
<1>1. PICK n \in Nat : n = Len(p)
  OBVIOUS
<1> QED
  BY <1>1

\* Counting one result after the other is counting the places.
LEMMA Counted3 ==
  ASSUME gathered \in Seq(ParResult), NEW an
  PROVE  Count3(an) = Cardinality({i \in DOMAIN gathered : gathered[i].answer = an})
<1>1. PICK n \in Nat : n = Len(gathered)
  OBVIOUS
<1> DEFINE Upto(i) == {j \in 1 .. i : gathered[j].answer = an}
           Sum == [i \in 0 .. n |-> Cardinality(Upto(i))]
           Rec(h) == h = [i \in 0 .. n |->
                            IF i = 0 THEN 0
                            ELSE h[i - 1] + (IF gathered[i].answer = an THEN 1 ELSE 0)]
<1>2. \A i \in Nat : IsFiniteSet(Upto(i)) /\ Cardinality(Upto(i)) \in Nat
  <2> TAKE i \in Nat
  <2>1. IsFiniteSet(1 .. i)
    BY FS_Interval
  <2> QED
    BY <2>1, FS_Subset, FS_CardinalityType
<1>3. Upto(0) = {} /\ Cardinality({}) = 0
  BY FS_EmptySet
<1>4. \A i \in 1 .. n :
        Cardinality(Upto(i)) =
          Cardinality(Upto(i - 1)) + (IF gathered[i].answer = an THEN 1 ELSE 0)
  <2> TAKE i \in 1 .. n
  <2>1. IsFiniteSet(Upto(i - 1)) /\ i \notin Upto(i - 1) /\ Cardinality(Upto(i - 1)) \in Nat
    BY <1>2
  <2>2. CASE gathered[i].answer = an
    <3>1. Upto(i) = Upto(i - 1) \cup {i}
      BY <2>2
    <3> QED
      BY <2>1, <2>2, <3>1, FS_AddElement
  <2>3. CASE gathered[i].answer # an
    <3>1. Upto(i) = Upto(i - 1)
      BY <2>3
    <3> HIDE DEF Upto
    <3> QED
      BY <2>1, <2>3, <3>1
  <2> QED
    BY <2>2, <2>3
<1>5. Rec(Sum)
  <2>1. \A i \in 0 .. n : Sum[i] = Cardinality(Upto(i))
    OBVIOUS
  <2> HIDE DEF Upto
  <2>2. ASSUME NEW i \in 0 .. n
        PROVE  Sum[i] = IF i = 0 THEN 0
                        ELSE Sum[i - 1] + (IF gathered[i].answer = an THEN 1 ELSE 0)
    <3>1. CASE i = 0
      BY <1>3, <2>1, <3>1
    <3>2. CASE i # 0
      <4>1. i \in 1 .. n /\ i - 1 \in 0 .. n
        BY <3>2
      <4>2. Sum[i - 1] = Cardinality(Upto(i - 1)) /\ Sum[i] = Cardinality(Upto(i))
        BY <2>1, <4>1
      <4> QED
        BY <1>4, <3>2, <4>1, <4>2
    <3> QED
      BY <3>1, <3>2
  <2>3. Sum = [i \in 0 .. n |-> Sum[i]]
    OBVIOUS
  <2> HIDE DEF Sum
  <2> QED
    BY <2>2, <2>3
<1> DEFINE Num == CHOOSE h : Rec(h)
<1>6. Count3(an) = Num[n]
  BY <1>1 DEF Count3
<1>7. Rec(Num)
  <2> HIDE DEF Rec, Sum
  <2> QED
    BY <1>5
<1> HIDE DEF Num
<1>8. \A i \in 0 .. n :
        Num[i] = IF i = 0 THEN 0
                ELSE Num[i - 1] + (IF gathered[i].answer = an THEN 1 ELSE 0)
  BY <1>7
<1>9. Num[n] = Cardinality(Upto(n))
  <2> DEFINE Bad == {i \in 0 .. n : Num[i] # Cardinality(Upto(i))}
  <2> HIDE DEF Upto
  <2> SUFFICES ASSUME Bad # {} PROVE FALSE
    BY <1>1
  <2>0. Bad \in SUBSET Nat
    OBVIOUS
  <2>1. PICK i \in Bad : \A j \in Bad : i <= j
    <3> HIDE DEF Bad
    <3> QED
      BY <2>0, LeastNumber
  <2>2. i # 0
    BY <1>3, <1>8, <2>1
  <2>3. i - 1 \in 0 .. n /\ i - 1 \notin Bad /\ i \in 1 .. n
    BY <2>1, <2>2
  <2>4. Num[i - 1] = Cardinality(Upto(i - 1))
    BY <2>3
  <2>5. Num[i] = Cardinality(Upto(i))
    BY <1>4, <1>8, <2>2, <2>3, <2>4
  <2> QED
    BY <2>1, <2>5
<1>10. Upto(n) = {i \in DOMAIN gathered : gathered[i].answer = an}
  BY <1>1
<1> QED
  BY <1>6, <1>9, <1>10

ParValues ==
  /\ parTool \in ParallelTools /\ detected \subseteq Language
  /\ fork \in [Language -> {"idle", "connecting", "connected", "no client",
                            "asking", "answered", "ended"}]
  /\ channel \in Seq(ParResult) /\ gathered \in Seq(ParResult)
  /\ parStage \in {"languages", "clients", "collecting", "done"}
  /\ parOutcome.kind \in {"none", "text", "error"}

\* What the goroutines do at each stage.
ParStages ==
  /\ parStage = "languages" => \A l \in Language : fork[l] = "idle"
  /\ parStage = "clients" =>
       \A l \in Language :
         IF l \in detected THEN fork[l] \in {"connecting", "connected", "no client"}
                           ELSE fork[l] = "idle"
  /\ parStage \in {"collecting", "done"} =>
       \A l \in Language : fork[l] \in {"idle", "no client", "asking", "answered", "ended"}

\* No client is heard twice: each one whose result is on the way or there has
\* ended.
HeardOnce ==
  /\ \A i \in DOMAIN channel : fork[channel[i].key] = "ended"
  /\ \A i \in DOMAIN gathered : fork[gathered[i].key] = "ended"
  /\ \A i, j \in DOMAIN channel : channel[i].key = channel[j].key => i = j
  /\ \A i, j \in DOMAIN gathered : gathered[i].key = gathered[j].key => i = j
  /\ \A i \in DOMAIN channel, j \in DOMAIN gathered : channel[i].key # gathered[j].key

ParTold ==
  /\ parOutcome.kind = "text" => parStage = "done"
  /\ GatheredOnce

ParInv == ParValues /\ ParStages /\ HeardOnce /\ ParTold

LEMMA ResultKeys ==
  ASSUME ParValues
  PROVE  /\ \A i \in DOMAIN channel : channel[i] \in ParResult /\ channel[i].key \in Language
         /\ \A i \in DOMAIN gathered : gathered[i] \in ParResult /\ gathered[i].key \in Language
<1>1. channel \in Seq(ParResult) /\ gathered \in Seq(ParResult)
  BY DEF ParValues
<1>2. /\ \A i \in DOMAIN channel : channel[i] \in ParResult
      /\ \A i \in DOMAIN gathered : gathered[i] \in ParResult
  BY <1>1
<1> QED
  BY <1>2 DEF ParResult

LEMMA InitParallel == ParInit => ParInv
<1> SUFFICES ASSUME ParInit PROVE ParInv
  OBVIOUS
<1>1. /\ channel = << >> /\ gathered = << >> /\ DOMAIN channel = {} /\ DOMAIN gathered = {}
      /\ channel \in Seq(ParResult) /\ gathered \in Seq(ParResult)
  BY DEF ParInit
<1>2. parOutcome.kind = "none"
  BY DEF ParInit, ParOutcome
<1>3. ParValues /\ ParStages
  BY <1>1, <1>2 DEF ParInit, ParValues, ParStages
<1>4. HeardOnce /\ ParTold
  BY <1>1, <1>2 DEF HeardOnce, ParTold, GatheredOnce
<1> QED
  BY <1>3, <1>4 DEF ParInv

\* The text comes when each client was heard.
LEMMA AllHeard ==
  ASSUME ParInv, parStage = "collecting", Len(gathered) = Cardinality(Clients)
  PROVE  {gathered[i].key : i \in DOMAIN gathered} = Clients
<1> DEFINE keys == {gathered[i].key : i \in DOMAIN gathered}
           key == [i \in DOMAIN gathered |-> gathered[i].key]
<1>1. gathered \in Seq(ParResult) /\ Clients \subseteq Language
  BY DEF ParInv, ParValues, Clients
<1>2. keys \subseteq Clients
  <2>1. ASSUME NEW i \in DOMAIN gathered PROVE gathered[i].key \in Clients
    <3>1. gathered[i] \in ParResult
      BY <1>1
    <3>2. gathered[i].key \in Language /\ fork[gathered[i].key] = "ended"
      BY <3>1 DEF ParInv, HeardOnce, ParResult
    <3> QED
      BY <3>2 DEF Clients
  <2> QED
    BY <2>1
<1>3. IsFiniteSet(Clients)
  BY <1>1, ParallelConstants, FS_Subset
<1>4. PICK n \in Nat : n = Len(gathered) /\ DOMAIN gathered = 1 .. n
  BY <1>1
<1>5. key \in Bijection(1 .. n, keys)
  <2>1. key \in [1 .. n -> keys]
    BY <1>4
  <2>2. \A i, j \in 1 .. n : key[i] = key[j] => i = j
    BY <1>4 DEF ParInv, HeardOnce
  <2>3. \A k \in keys : \E i \in 1 .. n : key[i] = k
    BY <1>4
  <2> HIDE DEF key, keys
  <2> QED
    BY <2>1, <2>2, <2>3 DEF Bijection, Injection, Surjection, IsInjective
<1> HIDE DEF key, keys
<1>6. Cardinality(keys) = n
  <2>1. IsFiniteSet(1 .. n) /\ Cardinality(1 .. n) = n
    BY FS_Interval
  <2>2. ExistsBijection(1 .. n, keys)
    BY <1>5 DEF ExistsBijection
  <2> QED
    BY <2>1, <2>2, FS_Bijection
<1>7. keys = Clients
  BY <1>2, <1>3, <1>4, <1>6, FS_Subset
<1> QED
  BY <1>7 DEF keys

\* After the text nothing happens any more.
LEMMA TextIsLast ==
  ASSUME ParInv, parOutcome.kind = "text"
  PROVE  \A l \in Language : fork[l] \notin {"asking", "answered"}
<1> SUFFICES ASSUME NEW l \in Language, fork[l] \in {"asking", "answered"} PROVE FALSE
  OBVIOUS
<1>1. l \in Clients
  BY DEF Clients
<1>2. PICK i \in DOMAIN gathered : gathered[i].key = l
  BY <1>1 DEF ParInv, ParTold, GatheredOnce
<1> QED
  BY <1>2 DEF ParInv, HeardOnce

\* search_worker.go, async: the goroutines and the tool that collects.
LEMMA NextParallel == ParInv /\ [ParNext]_parVars => ParInv'
<1> SUFFICES ASSUME ParInv, [ParNext]_parVars PROVE ParInv'
  OBVIOUS
<1>0. ParValues /\ ParStages /\ HeardOnce /\ ParTold
  BY DEF ParInv
<1>f. fork \in [Language -> {"idle", "connecting", "connected", "no client",
                             "asking", "answered", "ended"}]
  BY <1>0 DEF ParValues
<1>e. ASSUME NEW r, r = ParOutcome("error", 0, 0), ParFinish(r) PROVE ParTold'
  BY <1>e DEF ParFinish, ParOutcome, ParTold, GatheredOnce
<1>u. ASSUME UNCHANGED parOutcome, parOutcome.kind # "text" PROVE ParTold'
  BY <1>u DEF ParTold, GatheredOnce
<1>1. CASE DetectLanguages
  <2>1. /\ parStage = "languages" /\ \A l \in Language : fork[l] = "idle"
        /\ UNCHANGED <<parTool, channel, gathered>>
    BY <1>0, <1>1 DEF DetectLanguages, ParStages
  <2>5. CASE ParFinish(ParOutcome("text", 0, 0)) /\ UNCHANGED <<detected, fork>>
    <3>1. ParValues' /\ ParStages' /\ HeardOnce'
      BY <1>0, <2>1, <2>5
      DEF ParValues, ParStages, HeardOnce, ParFinish, ParOutcome
    <3>2. DOMAIN gathered = {}
      <4>1. ASSUME NEW i \in DOMAIN gathered PROVE FALSE
        BY <1>0, <2>1, ResultKeys DEF HeardOnce
      <4> QED
        BY <4>1
    <3>3. gathered = << >> /\ Len(gathered) = 0
      <4>1. gathered \in Seq(ParResult)
        BY <1>0 DEF ParValues
      <4> QED
        BY <3>2, <4>1
    <3>4. Clients' = {} /\ Cardinality({}) = 0
      BY <2>1, <2>5, FS_EmptySet DEF Clients
    <3>5. /\ parOutcome'.found = 0 /\ parOutcome'.problems = 0 /\ parStage' = "done"
          /\ gathered' = gathered
      BY <2>1, <2>5 DEF ParFinish, ParOutcome
    <3>6. \A an \in Answers : {i \in DOMAIN gathered' : gathered'[i].answer = an} = {}
      BY <3>2, <3>5
    <3>7. {gathered'[i].key : i \in DOMAIN gathered'} = {}
      BY <3>2, <3>5
    <3>8. GatheredOnce'
      BY <3>3, <3>4, <3>5, <3>6, <3>7 DEF GatheredOnce, Answers
    <3> QED
      BY <3>1, <3>5, <3>8 DEF ParInv, ParTold
  <2>2. CASE ParFinish(ParOutcome("error", 0, 0)) /\ UNCHANGED <<detected, fork>>
    <3>1. ParValues' /\ ParStages' /\ HeardOnce'
      BY <1>0, <2>1, <2>2
      DEF ParValues, ParStages, HeardOnce, ParFinish, ParOutcome
    <3> QED
      BY <1>e, <2>2, <3>1 DEF ParInv
  <2>3. CASE /\ detected' \in SUBSET Language \ {{}}
             /\ fork' = [l \in Language |->
                           IF l \in detected' THEN "connecting" ELSE "idle"]
             /\ parStage' = "clients" /\ UNCHANGED parOutcome
    <3>1. DOMAIN channel = {} /\ DOMAIN gathered = {}
      <4>1. ASSUME NEW i \in DOMAIN channel PROVE FALSE
        BY <1>0, <2>1, ResultKeys DEF HeardOnce
      <4>2. ASSUME NEW i \in DOMAIN gathered PROVE FALSE
        BY <1>0, <2>1, ResultKeys DEF HeardOnce
      <4> QED
        BY <4>1, <4>2
    <3>2. ParValues' /\ ParStages'
      BY <1>0, <2>1, <2>3 DEF ParValues, ParStages
    <3>3. HeardOnce'
      BY <2>1, <3>1 DEF HeardOnce
    <3>4. ParTold'
      BY <1>0, <1>u, <2>1, <2>3 DEF ParTold
    <3> QED
      BY <3>2, <3>3, <3>4 DEF ParInv
  <2> QED
    BY <1>1, <2>2, <2>3, <2>5 DEF DetectLanguages
<1>2. ASSUME NEW l \in Language, GetClient(l) PROVE ParInv'
  <2>1. PICK found \in {"connected", "no client"} :
          fork' = [fork EXCEPT ![l] = found]
    BY <1>2 DEF GetClient
  <2>2. /\ fork[l] = "connecting" /\ parStage = "clients" /\ l \in detected
        /\ UNCHANGED <<parTool, detected, channel, gathered, parStage, parOutcome>>
    BY <1>0, <1>2 DEF GetClient, ParStages, ParValues
  <2>3. ParValues'
    BY <1>0, <2>1, <2>2 DEF ParValues
  <2>4. ParStages'
    BY <1>0, <1>f, <2>1, <2>2 DEF ParStages
  <2>5. HeardOnce'
    <3>1. \A i \in DOMAIN channel : channel[i].key # l
      BY <1>0, <2>2 DEF HeardOnce
    <3>2. \A i \in DOMAIN gathered : gathered[i].key # l
      BY <1>0, <2>2 DEF HeardOnce
    <3>3. \A k \in Language : k # l => fork'[k] = fork[k]
      BY <1>f, <2>1
    <3>4. /\ \A i \in DOMAIN channel : channel[i].key \in Language
          /\ \A i \in DOMAIN gathered : gathered[i].key \in Language
      BY <1>0, ResultKeys
    <3> QED
      BY <1>0, <2>2, <3>1, <3>2, <3>3, <3>4 DEF HeardOnce
  <2>6. ParTold'
    BY <1>0, <1>u, <2>2 DEF ParTold
  <2> QED
    BY <2>3, <2>4, <2>5, <2>6 DEF ParInv
<1>3. CASE StartAsking
  <2>1. /\ parStage = "clients" /\ \A l \in detected : fork[l] # "connecting"
        /\ UNCHANGED <<parTool, detected, channel, gathered>>
    BY <1>3 DEF StartAsking
  <2>2. \A l \in Language : fork[l] \in {"idle", "connected", "no client"}
    BY <1>0, <2>1 DEF ParStages
  <2>3. CASE Clients = {} /\ ParFinish(ParOutcome("error", 0, 0)) /\ UNCHANGED fork
    <3>1. \A l \in Language : fork[l] \in {"idle", "no client"}
      BY <2>3 DEF Clients
    <3>2. ParValues' /\ ParStages' /\ HeardOnce'
      BY <1>0, <2>1, <2>3, <3>1
      DEF ParValues, ParStages, HeardOnce, ParFinish, ParOutcome
    <3> QED
      BY <1>e, <2>3, <3>2 DEF ParInv
  <2>4. CASE /\ fork' = [l \in Language |->
                           IF l \in Clients THEN "asking" ELSE fork[l]]
             /\ parStage' = "collecting" /\ UNCHANGED parOutcome
    <3>1. \A l \in Language : fork'[l] \in {"idle", "no client", "asking"}
      BY <2>2, <2>4 DEF Clients
    <3>2. fork' \in [Language -> {"idle", "connecting", "connected", "no client",
                                  "asking", "answered", "ended"}]
      BY <1>f, <2>4
    <3>3. ParValues' /\ ParStages'
      BY <1>0, <2>1, <2>4, <3>1, <3>2 DEF ParValues, ParStages
    <3>4. DOMAIN channel = {} /\ DOMAIN gathered = {}
      <4>1. ASSUME NEW i \in DOMAIN channel PROVE FALSE
        BY <1>0, <2>2, ResultKeys DEF HeardOnce
      <4>2. ASSUME NEW i \in DOMAIN gathered PROVE FALSE
        BY <1>0, <2>2, ResultKeys DEF HeardOnce
      <4> QED
        BY <4>1, <4>2
    <3>5. HeardOnce'
      BY <2>1, <3>4 DEF HeardOnce
    <3>6. ParTold'
      BY <1>0, <1>u, <2>1, <2>4 DEF ParTold
    <3> QED
      BY <3>3, <3>5, <3>6 DEF ParInv
  <2> QED
    BY <1>3, <2>3, <2>4 DEF StartAsking
<1>4. ASSUME NEW l \in Language, SendResult(l) PROVE ParInv'
  <2>1. PICK r : /\ r \in ParResult /\ r.key = l
                 /\ channel' = Append(channel, r)
    <3>1. PICK an \in Answers : channel' = Append(channel, [key |-> l, answer |-> an])
      BY <1>4 DEF SendResult
    <3> QED
      BY <3>1 DEF ParResult
  <2>2. /\ fork[l] = "answered" /\ fork' = [fork EXCEPT ![l] = "ended"]
        /\ UNCHANGED <<parTool, detected, gathered, parStage, parOutcome>>
    BY <1>4 DEF SendResult
  <2>3. /\ fork'[l] = "ended" /\ \A k \in Language : k # l => fork'[k] = fork[k]
        /\ fork' \in [Language -> {"idle", "connecting", "connected", "no client",
                                   "asking", "answered", "ended"}]
    BY <1>f, <2>2
  <2>4. PICK n \in Nat : /\ n = Len(channel) /\ DOMAIN channel = 1 .. n
                         /\ channel' \in Seq(ParResult)
                         /\ DOMAIN channel' = 1 .. n + 1 /\ channel'[n + 1] = r
                         /\ \A i \in 1 .. n : channel'[i] = channel[i]
                         /\ \A i \in 1 .. n + 1 : i = n + 1 \/ i \in 1 .. n
    <3>1. channel \in Seq(ParResult)
      BY <1>0 DEF ParValues
    <3> QED
      BY <2>1, <3>1, Appended
  <2>5. ParValues'
    BY <1>0, <2>2, <2>3, <2>4 DEF ParValues
  <2>6. ParStages'
    <3>1. parStage \in {"collecting", "done"}
      BY <1>0, <2>2 DEF ParStages, ParValues
    <3> QED
      BY <1>0, <2>2, <2>3, <3>1 DEF ParStages
  <2>7. HeardOnce'
    <3>1. /\ \A i \in 1 .. n : channel[i].key # l /\ channel[i].key \in Language
          /\ \A i \in DOMAIN gathered : /\ gathered[i].key # l
                                        /\ gathered[i].key \in Language
      BY <1>0, <2>2, <2>4, ResultKeys DEF HeardOnce
    <3>3. \A i \in DOMAIN channel' : fork'[channel'[i].key] = "ended"
      <4>1. ASSUME NEW i \in 1 .. n PROVE fork'[channel'[i].key] = "ended"
        <5>1. fork[channel[i].key] = "ended"
          BY <1>0, <2>4 DEF HeardOnce
        <5>2. fork'[channel[i].key] = fork[channel[i].key] /\ channel'[i] = channel[i]
          BY <2>3, <2>4, <3>1
        <5> QED
          BY <5>1, <5>2
      <4>2. fork'[channel'[n + 1].key] = "ended"
        BY <2>1, <2>3, <2>4
      <4> QED
        BY <2>4, <4>1, <4>2
    <3>4. \A i \in DOMAIN gathered' : fork'[gathered'[i].key] = "ended"
      BY <1>0, <2>2, <2>3, <3>1 DEF HeardOnce
    <3>5. \A i, j \in DOMAIN channel' : channel'[i].key = channel'[j].key => i = j
      BY <1>0, <2>1, <2>4, <3>1 DEF HeardOnce
    <3>6. \A i \in DOMAIN channel', j \in DOMAIN gathered' :
            channel'[i].key # gathered'[j].key
      BY <1>0, <2>1, <2>2, <2>4, <3>1 DEF HeardOnce
    <3>7. \A i, j \in DOMAIN gathered' : gathered'[i].key = gathered'[j].key => i = j
      BY <1>0, <2>2 DEF HeardOnce
    <3> QED
      BY <3>3, <3>4, <3>5, <3>6, <3>7 DEF HeardOnce
  <2>8. ParTold'
    BY <1>u, <2>2, TextIsLast
  <2> QED
    BY <2>5, <2>6, <2>7, <2>8 DEF ParInv
<1>9. ASSUME NEW l \in Language, ClientReturns(l) PROVE ParInv'
  <2>2. /\ fork[l] = "asking" /\ fork' = [fork EXCEPT ![l] = "answered"]
        /\ UNCHANGED <<parTool, detected, channel, gathered, parStage, parOutcome>>
    BY <1>9 DEF ClientReturns
  <2>1. /\ fork' \in [Language -> {"idle", "connecting", "connected", "no client",
                                   "asking", "answered", "ended"}]
        /\ fork'[l] = "answered" /\ \A k \in Language : k # l => fork'[k] = fork[k]
    BY <1>f, <2>2
  <2>3. ParValues'
    BY <1>0, <2>1, <2>2 DEF ParValues
  <2>4. ParStages'
    <3>1. parStage \in {"collecting", "done"}
      BY <1>0, <2>2 DEF ParStages, ParValues
    <3> QED
      BY <1>0, <2>1, <2>2, <3>1 DEF ParStages
  <2>5. HeardOnce'
    <3>1. \A i \in DOMAIN channel : channel[i].key # l
      BY <1>0, <2>2 DEF HeardOnce
    <3>2. \A i \in DOMAIN gathered : gathered[i].key # l
      BY <1>0, <2>2 DEF HeardOnce
    <3>4. /\ \A i \in DOMAIN channel : channel[i].key \in Language
          /\ \A i \in DOMAIN gathered : gathered[i].key \in Language
      BY <1>0, ResultKeys
    <3> QED
      BY <1>0, <2>1, <2>2, <3>1, <3>2, <3>4 DEF HeardOnce
  <2>6. ParTold'
    BY <1>u, <2>2, TextIsLast
  <2> QED
    BY <2>3, <2>4, <2>5, <2>6 DEF ParInv
<1>5. CASE Receive
  <2>1. PICK r : r = Head(channel)
    OBVIOUS
  <2>2. /\ parStage = "collecting" /\ channel # << >>
        /\ gathered' = Append(gathered, r) /\ channel' = Tail(channel)
        /\ UNCHANGED <<parTool, detected, fork, parStage, parOutcome>>
    BY <1>5, <2>1 DEF Receive
  <2>3. PICK n \in Nat : /\ n + 1 = Len(channel) /\ DOMAIN channel = 1 .. n + 1
                         /\ r = channel[1] /\ r \in ParResult
    <3>1. channel \in Seq(ParResult)
      BY <1>0 DEF ParValues
    <3>2. PICK m \in Nat : m = Len(channel) /\ m # 0
      BY <2>2, <3>1
    <3>3. m - 1 \in Nat
      BY <3>2
    <3> QED
      BY <2>1, <2>2, <3>1, <3>2, <3>3
  <2>4. /\ channel' \in Seq(ParResult) /\ DOMAIN channel' = 1 .. n
        /\ \A i \in 1 .. n : channel'[i] = channel[i + 1]
    <3>1. channel \in Seq(ParResult)
      BY <1>0 DEF ParValues
    <3>2. /\ Tail(channel) \in Seq(ParResult) /\ Len(Tail(channel)) = n
          /\ \A i \in 1 .. n : Tail(channel)[i] = channel[i + 1]
      BY <2>2, <2>3, <3>1, HeadTailProperties
    <3> QED
      BY <2>2, <3>2
  <2>5. PICK m \in Nat : /\ m = Len(gathered) /\ DOMAIN gathered = 1 .. m
                         /\ gathered' \in Seq(ParResult)
                         /\ DOMAIN gathered' = 1 .. m + 1 /\ gathered'[m + 1] = r
                         /\ \A i \in 1 .. m : gathered'[i] = gathered[i]
                         /\ \A i \in 1 .. m + 1 : i = m + 1 \/ i \in 1 .. m
    <3>1. gathered \in Seq(ParResult)
      BY <1>0 DEF ParValues
    <3> QED
      BY <2>2, <2>3, <3>1, Appended
  <2>6. ParValues' /\ ParStages'
    BY <1>0, <2>2, <2>4, <2>5 DEF ParValues, ParStages
  <2>7. HeardOnce'
    <3>2. /\ \A i \in 1 .. m + 1 : i = m + 1 \/ i \in 1 .. m
          /\ 1 \in 1 .. n + 1
          /\ \A i \in 1 .. n : i + 1 \in 1 .. n + 1 /\ i + 1 # 1
      BY <2>5
    <3>1. /\ fork[r.key] = "ended"
          /\ \A i \in 1 .. n : channel'[i].key # r.key
          /\ \A j \in 1 .. m : gathered[j].key # r.key
      <4>1. 1 \in DOMAIN channel /\ \A i \in 1 .. n : i + 1 \in DOMAIN channel
        BY <2>3, <3>2
      <4>2. fork[channel[1].key] = "ended"
        BY <1>0, <4>1 DEF HeardOnce
      <4>3. \A i \in 1 .. n : channel[i + 1].key # channel[1].key
        BY <1>0, <3>2, <4>1 DEF HeardOnce
      <4>4. \A j \in 1 .. m : gathered[j].key # channel[1].key
        BY <1>0, <2>5, <4>1 DEF HeardOnce
      <4> QED
        BY <2>3, <2>4, <4>2, <4>3, <4>4
    <3>3. /\ \A i \in DOMAIN channel' : fork'[channel'[i].key] = "ended"
          /\ \A i, j \in DOMAIN channel' : channel'[i].key = channel'[j].key => i = j
      BY <1>0, <2>2, <2>3, <2>4, <3>2 DEF HeardOnce
    <3>4. /\ \A i \in DOMAIN gathered' : fork'[gathered'[i].key] = "ended"
          /\ \A i, j \in DOMAIN gathered' : gathered'[i].key = gathered'[j].key => i = j
      BY <1>0, <2>2, <2>5, <3>1, <3>2 DEF HeardOnce
    <3>5. \A i \in DOMAIN channel', j \in DOMAIN gathered' :
            channel'[i].key # gathered'[j].key
      BY <1>0, <2>3, <2>4, <2>5, <3>1, <3>2 DEF HeardOnce
    <3> QED
      BY <3>3, <3>4, <3>5 DEF HeardOnce
  <2>8. ParTold'
    BY <1>0, <1>u, <2>2 DEF ParTold
  <2> QED
    BY <2>6, <2>7, <2>8 DEF ParInv
<1>6. CASE ContextEnds
  <2>1. /\ parStage = "collecting" /\ ParFinish(ParOutcome("error", 0, 0))
        /\ UNCHANGED <<parTool, detected, fork, channel, gathered>>
    BY <1>6 DEF ContextEnds
  <2>2. ParValues' /\ ParStages' /\ HeardOnce'
    BY <1>0, <2>1 DEF ParValues, ParStages, HeardOnce, ParFinish, ParOutcome
  <2> QED
    BY <1>e, <2>1, <2>2 DEF ParInv
<1>7. CASE TellResult
  <2>1. PICK p : p = IF parTool = "references" THEN 0 ELSE Collected.problems
    OBVIOUS
  <2>2. /\ parStage = "collecting" /\ Len(gathered) = Cardinality(Clients)
        /\ parOutcome' = ParOutcome("text", Collected.found, p) /\ parStage' = "done"
        /\ UNCHANGED <<parTool, detected, fork, channel, gathered>>
    BY <1>7, <2>1 DEF TellResult, ParFinish
  <2>3. /\ parOutcome'.kind = "text" /\ parOutcome'.found = Count3("value")
        /\ parOutcome'.problems = p
    BY <2>2 DEF ParOutcome, Collected
  <2>4. ParValues' /\ ParStages' /\ HeardOnce'
    BY <1>0, <2>2, <2>3 DEF ParValues, ParStages, HeardOnce
  <2>5. GatheredOnce'
    <3>1. {gathered[i].key : i \in DOMAIN gathered} = Clients
      BY <2>2, AllHeard
    <3>2. gathered \in Seq(ParResult)
      BY <1>0 DEF ParValues
    <3>3. parOutcome'.found = Cardinality({i \in DOMAIN gathered :
                                             gathered[i].answer = "value"})
      BY <2>3, <3>2, Counted3
    <3>4. parTool # "references" =>
            parOutcome'.problems = Cardinality({i \in DOMAIN gathered :
                                                  gathered[i].answer = "error"})
      <4>1. Collected.problems = Count3("error")
        BY DEF Collected
      <4> QED
        BY <2>1, <2>3, <3>2, <4>1, Counted3
    <3>5. Clients' = Clients
      BY <2>2 DEF Clients
    <3> QED
      BY <2>2, <3>1, <3>3, <3>4, <3>5 DEF GatheredOnce
  <2> QED
    BY <2>2, <2>4, <2>5 DEF ParInv, ParTold
<1>8. CASE UNCHANGED parVars
  <2>1. UNCHANGED <<parTool, detected, fork, channel, gathered, parStage, parOutcome>>
    BY <1>8 DEF parVars
  <2>2. ParValues' /\ ParStages' /\ HeardOnce'
    BY <1>0, <2>1 DEF ParValues, ParStages, HeardOnce
  <2>3. ParTold'
    BY <1>0, <2>1 DEF ParTold, GatheredOnce, Clients
  <2> QED
    BY <2>2, <2>3 DEF ParInv
<1> QED
  BY <1>1, <1>2, <1>3, <1>4, <1>5, <1>6, <1>7, <1>8, <1>9
  DEF ParNext, ParTool, ParGoroutine

\* async and the tools that ask all languages: for any number of languages and
\* however their goroutines interleave, a text stands for one answer of every
\* client and counts its values and errors.
THEOREM ParallelCorrect == ToolsSpec => []GatheredOnce
<1>1. ToolsInit => ParInv
  BY InitParallel DEF ToolsInit
<1>2. ParInv /\ [ToolsNext]_vars => ParInv'
  <2>1. [ToolsNext]_vars => [ParNext]_parVars
    BY DEF ToolsNext, Rest, vars
  <2> QED
    BY <2>1, NextParallel
<1>3. ParInv => GatheredOnce
  BY DEF ParInv, ParTold
<1> QED
  BY <1>1, <1>2, <1>3, PTL DEF ToolsSpec

-----------------------------------------------------------------------------
(* ResultPages. *)

\* What the variables can be.
PageValues ==
  /\ pgCase \in PageCases /\ pgLimit \in PageLimits /\ pgOffset \in Nat
  /\ pgStage \in {"asked", "scanning", "listed", "answered", "end"}
  /\ pgSources \in Seq(DOMAIN pgCase.lists)
  /\ pgSeen \in Nat /\ pgMore \in BOOLEAN /\ pgCut \in BOOLEAN
  /\ pgShown \in Seq(Hit) /\ pgGiven \in Seq(Hit) /\ IsFiniteSet(pgOrders)

PageStages ==
  /\ pgStage \in {"asked", "answered", "end"} => Len(pgShown) <= Len(pgGiven)
  /\ pgStage = "scanning" => /\ pgCase.kind = "text_search"
                             /\ Len(pgSources) <= Len(pgCase.lists)
                             /\ Need > 0 => pgSeen <= Need
  /\ pgStage = "listed" => pgCase.kind # "text_search"

PageShape == PageValues /\ PageStages

\* Of the results in `all' the user has read those before the offset.
HasRead(all) == Len(pgGiven) = pgOffset /\ Begins(pgGiven, all)

\* After a page the user has read up to its end, and all if no more follow.
PageRead(all) ==
  IF pgMore THEN Len(pgGiven) = pgOffset + Len(pgShown) /\ Begins(pgGiven, all)
            ELSE pgGiven = all

\* text_search: what the walk has seen are the matches of the first files.
TextRead ==
  LET all == FlattenSeq(pgCase.lists)
  IN  pgCase.kind = "text_search" /\ pgLimit > 0 /\ ~pgCut =>
        /\ pgStage = "asked" => HasRead(all)
        /\ pgStage = "scanning" =>
             /\ HasRead(all) /\ pgShown = SubSeq(all, pgOffset + 1, pgSeen)
             /\ pgMore => pgSeen = pgOffset + pgLimit /\ pgSeen <= Len(all)
             /\ ~pgMore =>
                  /\ pgSeen = Len(FirstLists(pgCase.lists, Len(pgSources)))
                  /\ pgSeen < pgOffset + pgLimit
        /\ pgStage = "answered" => PageRead(all)
        /\ pgStage = "end" => pgGiven = all

\* The sources have always answered in the same order.
SameOrder == \A o1, o2 \in pgOrders : o1 = o2

\* The other searches: as long as the order is the same, a page goes on where
\* the one before it has ended.
ListRead ==
  pgCase.kind # "text_search" /\ pgLimit > 0 /\ ~pgCut /\ SameOrder =>
    /\ pgStage = "asked" =>
         \/ pgOffset = 0 /\ pgGiven = << >> /\ pgOrders = {}
         \/ pgSources \in pgOrders /\ HasRead(Listed) /\ ~IsWhole
    /\ pgStage \in {"listed", "answered", "end"} =>
         pgSources \in pgOrders /\ Listed = AllResults
    /\ pgStage = "listed" => HasRead(Listed) /\ (pgOffset = 0 \/ ~IsWhole)
    /\ pgStage = "answered" => PageRead(Listed) /\ (pgMore => ~IsWhole)
    /\ pgStage = "end" => pgGiven = AllResults

PageInv == PageShape /\ TextRead /\ ListRead

\* A search and its lists.
LEMMA CaseLists ==
  ASSUME pgCase \in PageCases
  PROVE  /\ pgCase.kind \in PageKinds
         /\ \E m \in Nat : /\ m > 0 /\ m = Len(pgCase.lists)
                           /\ DOMAIN pgCase.lists = 1 .. m
                           /\ pgCase.lists \in Seq(Seq(Hit))
                           /\ \A i \in 1 .. m : pgCase.lists[i] \in Seq(Hit)
                           /\ pgCase.kind = "definitions" => m = 2
<1>1. PICK l \in Seq(Seq(Hit)) : l = pgCase.lists
  BY PageConstants
<1>2. PICK m \in Nat : m = Len(l)
  OBVIOUS
<1>3. DOMAIN l = 1 .. m /\ \A i \in 1 .. m : l[i] \in Seq(Hit)
  BY <1>2
<1> QED
  BY <1>1, <1>2, <1>3, PageConstants

\* What the pages are cut from is a sequence of results.
LEMMA ListedType ==
  ASSUME PageShape
  PROVE  Listed \in Seq(Hit)
<1>1. PICK m \in Nat : /\ m > 0 /\ m = Len(pgCase.lists)
                       /\ DOMAIN pgCase.lists = 1 .. m
                       /\ pgCase.lists \in Seq(Seq(Hit))
                       /\ \A i \in 1 .. m : pgCase.lists[i] \in Seq(Hit)
                       /\ pgCase.kind = "definitions" => m = 2
  BY CaseLists DEF PageShape, PageValues, PageStages
<1>2. << >> \in Seq(Hit)
  OBVIOUS
<1>3. pgSources # << >> => pgSources[1] \in 1 .. m
  BY <1>1 DEF PageShape, PageValues, PageStages
<1>4. CASE pgCase.kind = "references"
  BY <1>1, <1>2, <1>3, <1>4 DEF Listed
<1>5. CASE pgCase.kind = "definitions"
  <2>1. 1 \in 1 .. m /\ 2 \in 1 .. m
    <3>1. m = 2
      BY <1>1, <1>5
    <3> QED
      BY <3>1
  <2>2. DefinitionsFound \in Seq(Hit)
    BY <1>1, <2>1 DEF DefinitionsFound
  <2> QED
    BY <1>2, <1>5, <2>2 DEF Listed
<1>6. CASE pgCase.kind \notin {"references", "definitions"}
  <2>1. PICK l : l = [i \in DOMAIN pgSources |-> pgCase.lists[pgSources[i]]]
    OBVIOUS
  <2>2. l \in Seq(Seq(Hit))
    <3>0. PICK q \in Seq(1 .. m) : q = pgSources
      BY <1>1 DEF PageShape, PageValues, PageStages
    <3>1. PICK n \in Nat : n = Len(q)
      OBVIOUS
    <3>2. DOMAIN pgSources = 1 .. n /\ \A i \in 1 .. n : pgSources[i] \in 1 .. m
      BY <3>0, <3>1
    <3>3. l \in [1 .. n -> Seq(Hit)]
      BY <1>1, <2>1, <3>2
    <3> QED
      BY <3>3
  <2>3. PICK n \in Nat : n = Len(l)
    BY <2>2
  <2>4. FlattenSeq(l) \in Seq(Hit)
    BY <2>2, <2>3, ListsBegin
  <2>5. Listed = FlattenSeq(l)
    BY <1>6, <2>1 DEF Listed
  <2> QED
    BY <2>4, <2>5
<1> QED
  BY <1>4, <1>5, <1>6

LEMMA ListedNext == PageShape' => (Listed \in Seq(Hit))'
<1>1. PageShape => Listed \in Seq(Hit)
  BY ListedType
<1> QED
  BY <1>1, PTL

LEMMA InitPages == PageInit => PageInv
<1> SUFFICES ASSUME PageInit PROVE PageInv
  OBVIOUS
<1>1. << >> \in Seq(Hit) /\ Len(<< >>) = 0
  BY EmptySeq
<1>2. << >> \in Seq(DOMAIN pgCase.lists)
  BY EmptySeq
<1>3. IsFiniteSet({})
  BY FS_EmptySet
<1>4. PageShape
  <2>1. PageValues
    BY <1>1, <1>2, <1>3 DEF PageInit, PageValues
  <2>2. Len(pgShown) <= Len(pgGiven)
    BY <1>1 DEF PageInit
  <2> QED
    BY <2>1, <2>2 DEF PageInit, PageShape, PageStages
<1>5. PICK m \in Nat : /\ m = Len(pgCase.lists) /\ pgCase.lists \in Seq(Seq(Hit))
  BY <1>4, CaseLists DEF PageShape, PageValues, PageStages
<1>6. FlattenSeq(pgCase.lists) \in Seq(Hit)
  BY <1>5, ListsBegin
<1>7. PICK all \in Seq(Hit) : all = FlattenSeq(pgCase.lists)
  BY <1>6
<1>8. HasRead(all)
  <2>1. Len(all) \in Nat
    OBVIOUS
  <2> QED
    BY <1>1, <2>1 DEF HasRead, Begins, PageInit
<1>9. TextRead
  BY <1>7, <1>8 DEF TextRead, PageInit
<1>10. ListRead
  BY DEF ListRead, PageInit
<1> QED
  BY <1>4, <1>9, <1>10 DEF PageInv

\* The answers of the sources, in some order.
LEMMA OrderType ==
  ASSUME NEW S, IsFiniteSet(S), NEW s \in SetToAllKPermutations(S)
  PROVE  s \in Seq(S)
<1>1. PICK R \in SUBSET S : s \in SetToSeqs(R)
  BY DEF SetToAllKPermutations
<1>2. PICK n \in Nat : n = Cardinality(R)
  BY FS_Subset, FS_CardinalityType
<1>3. s \in [1 .. n -> S]
  BY <1>1, <1>2 DEF SetToSeqs
<1> QED
  BY <1>3

LEMMA AskedType ==
  ASSUME PageShape
  PROVE  AskedAtOnce \subseteq DOMAIN pgCase.lists /\ IsFiniteSet(AskedAtOnce)
<1>1. PICK m \in Nat : m > 0 /\ DOMAIN pgCase.lists = 1 .. m
  BY CaseLists DEF PageShape, PageValues, PageStages
<1>2. IsFiniteSet(1 .. m) /\ IsFiniteSet({1})
  <2>1. IsFiniteSet(1 .. m)
    BY FS_Interval
  <2>2. IsFiniteSet({1})
    BY FS_Singleton
  <2> QED
    BY <2>1, <2>2
<1>3. 1 \in 1 .. m
  BY <1>1
<1> QED
  BY <1>1, <1>2, <1>3 DEF AskedAtOnce

LEMMA ShapeStartWalk == PageShape /\ StartWalk => PageShape'
<1> SUFFICES ASSUME PageShape, StartWalk PROVE PageShape'
  OBVIOUS
<1>1. << >> \in Seq(Hit) /\ Len(<< >>) = 0 /\ << >> \in Seq(DOMAIN pgCase.lists)
  BY EmptySeq
<1>2. PICK m \in Nat : m = Len(pgCase.lists)
  BY CaseLists DEF PageShape, PageValues, PageStages
<1>3. Need \in Nat /\ Need' = Need
  BY PageConstants DEF PageShape, PageValues, PageStages, Need, StartWalk
<1>4. PageValues'
  BY <1>1 DEF PageShape, PageValues, StartWalk
<1>5. PageStages'
  BY <1>1, <1>2, <1>3 DEF PageStages, StartWalk
<1> QED
  BY <1>4, <1>5 DEF PageShape

\* The matches of a file that come before the page.
LEMMA BeforePage ==
  ASSUME NEW n \in Nat, pgOffset \in Nat, pgSeen \in Nat, pgLimit \in Nat
  PROVE  /\ Skipped(n) \in Nat /\ Skipped(n) <= n
         /\ pgLimit > 0 =>
              Skipped(n) = IF pgSeen >= pgOffset THEN 0
                           ELSE Least(n, pgOffset - pgSeen)
<1> DEFINE B == {i \in 1 .. n : ~OnPage(pgSeen + i)}
<1>1. IsFiniteSet(1 .. n) /\ Cardinality(1 .. n) = n
  BY FS_Interval
<1>2. IsFiniteSet(B) /\ Cardinality(B) <= n /\ Cardinality(B) \in Nat
  BY <1>1, FS_Subset, FS_CardinalityType
<1>3. ASSUME pgLimit > 0
      PROVE  Cardinality(B) = IF pgSeen >= pgOffset THEN 0
                              ELSE Least(n, pgOffset - pgSeen)
  <2>1. B = {i \in 1 .. n : pgSeen + i <= pgOffset}
    BY <1>3 DEF OnPage
  <2>2. CASE pgSeen >= pgOffset
    <3>1. B = {}
      BY <2>1, <2>2
    <3> QED
      BY <2>2, <3>1, FS_EmptySet
  <2>3. CASE ~(pgSeen >= pgOffset)
    <3>1. PICK e \in Nat : e = Least(n, pgOffset - pgSeen)
      BY <2>3 DEF Least
    <3>2. B = 1 .. e
      BY <2>1, <2>3, <3>1 DEF Least
    <3>3. Cardinality(1 .. e) = e
      BY FS_Interval
    <3> QED
      BY <2>3, <3>1, <3>2, <3>3
  <2> QED
    BY <2>2, <2>3
<1> QED
  BY <1>2, <1>3 DEF Skipped

\* One file of the walk: what has been seen, and what is shown.
LEMMA FileWalked ==
  ASSUME PageShape, WalkFile
  PROVE  \E file \in Seq(Hit), looked \in Nat, before \in Nat :
           /\ Len(pgSources) + 1 \in DOMAIN pgCase.lists
           /\ file = pgCase.lists[Len(pgSources) + 1]
           /\ looked = Looked(file) /\ looked <= Len(file) /\ before <= looked
           /\ pgLimit > 0 => before = IF pgSeen >= pgOffset THEN 0
                                      ELSE Least(looked, pgOffset - pgSeen)
           /\ pgSeen' = pgSeen + looked
           /\ pgShown' = pgShown \o SubSeq(file, before + 1, looked)
           /\ SubSeq(file, before + 1, looked) \in Seq(Hit)
           /\ Len(SubSeq(file, before + 1, looked)) = looked - before
           /\ \A i \in 1 .. looked - before :
                SubSeq(file, before + 1, looked)[i] = file[before + i]
<1>1. PICK m \in Nat : /\ m = Len(pgCase.lists) /\ DOMAIN pgCase.lists = 1 .. m
                       /\ \A i \in 1 .. m : pgCase.lists[i] \in Seq(Hit)
  BY CaseLists DEF PageShape, PageValues, PageStages
<1>2. PICK k \in Nat : k = Len(pgSources)
  BY DEF PageShape, PageValues, PageStages
<1>3. k + 1 \in 1 .. m
  BY <1>1, <1>2 DEF WalkFile
<1>4. PICK file \in Seq(Hit) : file = pgCase.lists[k + 1]
  BY <1>1, <1>3
<1>5. PICK n \in Nat : n = Len(file)
  OBVIOUS
<1>6. Need \in Nat /\ pgSeen \in Nat /\ pgOffset \in Nat /\ pgLimit \in Nat
      /\ (Need > 0 => pgSeen <= Need)
  BY PageConstants DEF PageShape, PageValues, PageStages, Need, WalkFile
<1>7. PICK looked \in Nat : looked = Looked(file) /\ looked <= n
  <2>1. CASE Need > 0
    <3>1. PICK r \in Nat : r = Need - pgSeen
      BY <1>6, <2>1
    <3>2. Least(n, r) \in Nat /\ Least(n, r) <= n
      BY DEF Least
    <3> QED
      BY <1>5, <2>1, <3>1, <3>2 DEF Looked
  <2>2. CASE ~(Need > 0)
    BY <1>5, <2>2 DEF Looked
  <2> QED
    BY <2>1, <2>2
<1>8. PICK before \in Nat :
        /\ before = Skipped(looked) /\ before <= looked
        /\ pgLimit > 0 => before = IF pgSeen >= pgOffset THEN 0
                                   ELSE Least(looked, pgOffset - pgSeen)
  BY <1>6, BeforePage
<1>9. /\ SubSeq(file, before + 1, looked) \in Seq(Hit)
      /\ Len(SubSeq(file, before + 1, looked)) = looked - before
      /\ \A i \in 1 .. looked - before :
           SubSeq(file, before + 1, looked)[i] = file[before + i]
  <2>1. before + 1 \in Int /\ looked \in Int /\ \A i \in before + 1 .. looked : file[i] \in Hit
    BY <1>5, <1>7
  <2>2. /\ SubSeq(file, before + 1, looked) \in Seq(Hit)
        /\ Len(SubSeq(file, before + 1, looked)) =
             IF before + 1 <= looked THEN looked - (before + 1) + 1 ELSE 0
        /\ \A i \in 1 .. looked - (before + 1) + 1 :
             SubSeq(file, before + 1, looked)[i] = file[before + 1 + i - 1]
    BY <2>1, SubSeqProperties
  <2>3. looked - (before + 1) + 1 = looked - before
        /\ \A i \in 1 .. looked - before : before + 1 + i - 1 = before + i
    OBVIOUS
  <2>4. PICK s : s = SubSeq(file, before + 1, looked)
    OBVIOUS
  <2>5. Len(s) = looked - before
    <3>1. Len(s) = IF before + 1 <= looked THEN looked - (before + 1) + 1 ELSE 0
      BY <2>2, <2>4
    <3>2. before <= looked
      BY <1>8
    <3> QED
      BY <3>1, <3>2
  <2>6. \A i \in 1 .. looked - before : s[i] = file[before + i]
    BY <2>2, <2>3, <2>4
  <2> QED
    BY <2>2, <2>4, <2>5, <2>6
<1>10. pgSeen' = pgSeen + looked
  BY <1>2, <1>4, <1>7 DEF WalkFile
<1>11. pgShown' = pgShown \o SubSeq(file, before + 1, looked)
  BY <1>2, <1>4, <1>7, <1>8 DEF WalkFile
<1>12. Len(pgSources) + 1 \in DOMAIN pgCase.lists
  BY <1>1, <1>2, <1>3
<1>13. pgCase.lists[Len(pgSources) + 1] = file
  BY <1>2, <1>4
<1>14. looked <= Len(file)
  BY <1>5, <1>7
<1> QED
  <2> WITNESS file \in Seq(Hit), looked \in Nat, before \in Nat
  <2> QED
    BY <1>7, <1>8, <1>9, <1>10, <1>11, <1>12, <1>13, <1>14

LEMMA ShapeWalkFile == PageShape /\ WalkFile => PageShape'
<1> SUFFICES ASSUME PageShape, WalkFile PROVE PageShape'
  OBVIOUS
<1>1. PICK file \in Seq(Hit), looked \in Nat, before \in Nat :
        /\ Len(pgSources) + 1 \in DOMAIN pgCase.lists
        /\ looked = Looked(file) /\ looked <= Len(file)
        /\ pgSeen' = pgSeen + looked
        /\ pgShown' = pgShown \o SubSeq(file, before + 1, looked)
        /\ SubSeq(file, before + 1, looked) \in Seq(Hit)
  BY FileWalked
<1>2. /\ pgSources \in Seq(DOMAIN pgCase.lists) /\ pgShown \in Seq(Hit)
      /\ pgSources' = Append(pgSources, Len(pgSources) + 1)
  BY DEF PageShape, PageValues, WalkFile
<1>3. /\ pgSources' \in Seq(DOMAIN pgCase.lists)
      /\ Len(pgSources') = Len(pgSources) + 1
  BY <1>1, <1>2, AppendProperties
<1>4. pgShown' \in Seq(Hit)
  BY <1>1, <1>2, ConcatProperties
<1>5. Need \in Nat /\ Need' = Need /\ pgSeen \in Nat
  BY PageConstants DEF PageShape, PageValues, Need, WalkFile
<1>6. Need > 0 => pgSeen + looked <= Need
  <2> SUFFICES ASSUME Need > 0 PROVE pgSeen + looked <= Need
    OBVIOUS
  <2>1. PICK n \in Nat : n = Len(file)
    OBVIOUS
  <2>2. pgSeen <= Need
    BY DEF PageShape, PageStages, WalkFile
  <2>3. looked = Least(n, Need - pgSeen)
    BY <1>1, <2>1 DEF Looked
  <2>4. looked <= Need - pgSeen
    BY <1>5, <2>1, <2>2, <2>3 DEF Least
  <2> QED
    BY <1>5, <2>2, <2>4
<1>7. PageValues'
  <2>1. pgSeen' \in Nat /\ pgMore' \in BOOLEAN
    BY <1>1, <1>5 DEF WalkFile
  <2> QED
    BY <1>3, <1>4, <2>1 DEF PageShape, PageValues, WalkFile
<1>8. PageStages'
  <2>1. PICK m \in Nat : m = Len(pgCase.lists) /\ DOMAIN pgCase.lists = 1 .. m
    BY CaseLists DEF PageShape, PageValues
  <2>2. Len(pgSources') <= Len(pgCase.lists)
    BY <1>1, <1>3, <2>1
  <2>3. Need' > 0 => pgSeen' <= Need'
    BY <1>1, <1>5, <1>6
  <2> QED
    BY <2>2, <2>3 DEF PageShape, PageStages, WalkFile
<1> QED
  BY <1>7, <1>8 DEF PageShape

LEMMA ShapePassOver == PageShape /\ PassOver => PageShape'
<1> SUFFICES ASSUME PageShape, PassOver PROVE PageShape'
  OBVIOUS
<1>1. PICK m \in Nat : m = Len(pgCase.lists) /\ DOMAIN pgCase.lists = 1 .. m
  BY CaseLists DEF PageShape, PageValues
<1>2. PICK q \in Seq(1 .. m) : q = pgSources
  BY <1>1 DEF PageShape, PageValues
<1>3. PICK k \in Nat : k = Len(q)
  OBVIOUS
<1>4. k + 1 \in 1 .. m /\ pgSources' = Append(q, k + 1)
  BY <1>1, <1>2, <1>3 DEF PassOver
<1>5. pgSources' \in Seq(1 .. m) /\ Len(pgSources') = k + 1
  BY <1>3, <1>4, AppendProperties
<1>6. PageValues'
  BY <1>1, <1>5 DEF PageShape, PageValues, PassOver
<1>7. Len(pgSources') <= m /\ Need' = Need
  BY <1>4, <1>5 DEF PassOver, Need
<1>8. PageStages'
  BY <1>1, <1>7 DEF PageShape, PageStages, PassOver
<1> QED
  BY <1>6, <1>8 DEF PageShape

LEMMA ShapeWalkEnds == PageShape /\ WalkEnds => PageShape'
<1> SUFFICES ASSUME PageShape, WalkEnds PROVE PageShape'
  OBVIOUS
<1>1. PICK g \in Seq(Hit), s \in Seq(Hit) : g = pgGiven /\ s = pgShown
  BY DEF PageShape, PageValues
<1>2. /\ pgGiven' = g \o s /\ g \o s \in Seq(Hit) /\ Len(g \o s) = Len(g) + Len(s)
      /\ Len(g) \in Nat /\ Len(s) \in Nat
  BY <1>1, ConcatProperties DEF WalkEnds
<1>3. PageValues'
  BY <1>2 DEF PageShape, PageValues, WalkEnds
<1>4. Len(pgShown') <= Len(pgGiven') /\ pgStage' = "answered"
  BY <1>1, <1>2 DEF WalkEnds
<1> QED
  BY <1>3, <1>4 DEF PageShape, PageStages

LEMMA ShapeSources == PageShape /\ SourcesAnswer => PageShape'
<1> SUFFICES ASSUME PageShape, SourcesAnswer PROVE PageShape'
  OBVIOUS
<1>1. pgSources' \in Seq(DOMAIN pgCase.lists)
  <2>1. pgSources' \in Seq(AskedAtOnce)
    BY AskedType, OrderType DEF SourcesAnswer
  <2> QED
    BY <2>1, AskedType, SeqMonotonic
<1>2. IsFiniteSet(pgOrders')
  <2>1. IsFiniteSet(pgOrders \cup {pgSources'})
    BY FS_AddElement DEF PageShape, PageValues
  <2> QED
    BY <2>1 DEF SourcesAnswer
<1>3. PageValues'
  <2>1. pgCut' \in BOOLEAN
    BY DEF SourcesAnswer
  <2> QED
    BY <1>1, <1>2, <2>1 DEF PageShape, PageValues, SourcesAnswer
<1> QED
  BY <1>3 DEF PageShape, PageStages, SourcesAnswer

LEMMA ShapeCutPage == PageShape /\ CutPage => PageShape'
<1> SUFFICES ASSUME PageShape, CutPage PROVE PageShape'
  OBVIOUS
<1>1. PICK l \in Seq(Hit) : l = Listed
  BY ListedType
<1>2. pgShown' \in Seq(Hit) /\ pgMore' \in BOOLEAN
  <2>1. CASE IsWhole /\ pgShown' = Listed /\ pgMore' = FALSE
    BY <1>1, <2>1
  <2>2. CASE pgShown' = << >> /\ pgMore' = FALSE
    BY <2>2, EmptySeq
  <2>3. CASE /\ pgOffset < Len(l) /\ pgShown' = SubSeq(l, pgOffset + 1, PageEnd)
             /\ pgMore' \in BOOLEAN
    <3>1. PICK n \in Nat : n = Len(l)
      OBVIOUS
    <3>2. pgOffset \in Nat /\ pgLimit \in Nat
      BY PageConstants DEF PageShape, PageValues
    <3>3. PICK e \in Nat : e = PageEnd /\ e <= n
      BY <1>1, <3>1, <3>2 DEF PageEnd, Least
    <3>4. \A i \in pgOffset + 1 .. e : l[i] \in Hit
      BY <3>1, <3>2, <3>3
    <3>5. SubSeq(l, pgOffset + 1, e) \in Seq(Hit)
      BY <3>2, <3>4, SubSeqProperties
    <3> QED
      BY <2>3, <3>3, <3>5
  <2> QED
    BY <1>1, <2>1, <2>2, <2>3 DEF CutPage
<1>3. PICK g \in Seq(Hit), s \in Seq(Hit) : g = pgGiven /\ s = pgShown'
  BY <1>2 DEF PageShape, PageValues
<1>4. /\ pgGiven' = g \o s /\ g \o s \in Seq(Hit) /\ Len(g \o s) = Len(g) + Len(s)
      /\ Len(g) \in Nat /\ Len(s) \in Nat
  BY <1>3, ConcatProperties DEF CutPage
<1>5. PageValues'
  BY <1>2, <1>4 DEF PageShape, PageValues, CutPage
<1>6. Len(pgShown') <= Len(pgGiven') /\ pgStage' = "answered"
  BY <1>3, <1>4 DEF CutPage
<1> QED
  BY <1>5, <1>6 DEF PageShape, PageStages

LEMMA ShapeTurnPage == PageShape /\ TurnPage => PageShape'
<1> SUFFICES ASSUME PageShape, TurnPage PROVE PageShape'
  OBVIOUS
<1>1. Len(pgShown) \in Nat /\ pgOffset \in Nat
  BY DEF PageShape, PageValues
<1>2. pgOffset' \in Nat /\ pgStage' \in {"asked", "end"}
  BY <1>1 DEF TurnPage
<1>3. PageValues'
  BY <1>2 DEF PageShape, PageValues, TurnPage
<1>4. PageStages'
  BY <1>2 DEF PageShape, PageStages, TurnPage
<1> QED
  BY <1>3, <1>4 DEF PageShape

LEMMA ShapeUnchanged == PageShape /\ UNCHANGED pageVars => PageShape'
<1> SUFFICES ASSUME PageShape, UNCHANGED pageVars PROVE PageShape'
  OBVIOUS
<1>1. PageValues'
  BY DEF PageShape, PageValues, pageVars
<1>2. PageStages'
  BY DEF PageShape, PageStages, pageVars, Need
<1> QED
  BY <1>1, <1>2 DEF PageShape

-----------------------------------------------------------------------------

\* What text_search looks for: all results, as one sequence.
LEMMA TextLists ==
  ASSUME PageShape
  PROVE  \E all \in Seq(Hit), m \in Nat :
           /\ all = FlattenSeq(pgCase.lists) /\ m = Len(pgCase.lists)
           /\ DOMAIN pgCase.lists = 1 .. m
           /\ FirstLists(pgCase.lists, 0) = << >> /\ all = FirstLists(pgCase.lists, m)
           /\ \A k \in 0 .. m : /\ FirstLists(pgCase.lists, k) \in Seq(Hit)
                                /\ Begins(FirstLists(pgCase.lists, k), all)
           /\ \A k \in 1 .. m : FirstLists(pgCase.lists, k) =
                                  FirstLists(pgCase.lists, k - 1) \o pgCase.lists[k]
<1>1. PICK m \in Nat : /\ m = Len(pgCase.lists) /\ DOMAIN pgCase.lists = 1 .. m
                       /\ pgCase.lists \in Seq(Seq(Hit))
  BY CaseLists DEF PageShape, PageValues
<1>2. PICK all \in Seq(Hit) : all = FlattenSeq(pgCase.lists)
  BY <1>1, ListsBegin
<1>3. all = FirstLists(pgCase.lists, m) /\ FirstLists(pgCase.lists, 0) = << >>
  BY <1>1, <1>2, ListsJoined
<1>4. \A k \in 0 .. m : FirstLists(pgCase.lists, k) \in Seq(Hit)
  BY <1>1, ListsJoined
<1>5. \A k \in 1 .. m : FirstLists(pgCase.lists, k) =
                          FirstLists(pgCase.lists, k - 1) \o pgCase.lists[k]
  BY <1>1, ListsJoined
<1>6. \A k \in 0 .. m : Begins(FirstLists(pgCase.lists, k), all)
  BY <1>1, <1>2, ListsBegin
<1> QED
  BY <1>1, <1>2, <1>3, <1>4, <1>5, <1>6

LEMMA TextStartWalk == PageShape /\ TextRead /\ StartWalk => TextRead'
<1> SUFFICES ASSUME PageShape, TextRead, StartWalk PROVE TextRead'
  OBVIOUS
<1>1. PICK all \in Seq(Hit), m \in Nat :
        all = FlattenSeq(pgCase.lists) /\ FirstLists(pgCase.lists, 0) = << >>
  BY TextLists
<1>2. pgOffset \in Nat /\ pgLimit \in Nat
  BY PageConstants DEF PageShape, PageValues
<1>3. SubSeq(all, pgOffset + 1, 0) = << >>
  BY <1>2, SubSeqEmpty
<1>4. Len(<< >>) = 0
  OBVIOUS
<1>5. HasRead(all)' <=> HasRead(all)
  BY DEF HasRead, StartWalk
<1> QED
  BY <1>1, <1>2, <1>3, <1>4, <1>5 DEF TextRead, StartWalk

\* The first n of `piece' stand in `whole' after the first k.
StandsAt(whole, k, piece, n) == \A i \in 1 .. n : whole[k + i] = piece[i]

\* Of n matches after the first u, those that come before the offset o.
BeforeOffset(n, u, o) == IF u >= o THEN 0 ELSE Least(n, o - u)

\* After u of all results, a file of which n are looked at: m are not shown.
WalksOn(all, u, file, n, m, o, shown) ==
  /\ u + n <= Len(all) /\ StandsAt(all, u, file, n)
  /\ m = BeforeOffset(n, u, o)
  /\ Len(shown) = n - m /\ StandsAt(file, m, shown, n - m)

\* The results after the first o of them, up to the u-th.
Between(all, o, u) == SubSeq(all, o + 1, u)

\* A file that has been walked goes on where the page has come to.
LEMMA ShownOn ==
  ASSUME NEW all \in Seq(Hit), NEW file \in Seq(Hit), NEW o \in Nat, NEW u \in Nat,
         NEW looked \in Nat, NEW before \in Nat, NEW more \in Seq(Hit),
         WalksOn(all, u, file, looked, before, o, more)
  PROVE  Between(all, o, u) \o more = Between(all, o, u + looked)
<1>0. /\ u + looked <= Len(all) /\ StandsAt(all, u, file, looked)
      /\ before = BeforeOffset(looked, u, o)
      /\ Len(more) = looked - before /\ StandsAt(file, before, more, looked - before)
  BY DEF WalksOn
<1>1. PICK n \in Nat : n = Len(all)
  OBVIOUS
<1>2. PICK e \in Nat : e = u + looked /\ e <= n /\ u <= n
  BY <1>0, <1>1
<1>3. PICK s, t : s = SubSeq(all, o + 1, u) /\ t = SubSeq(all, o + 1, e)
  OBVIOUS
<1>4. /\ s \in Seq(Hit) /\ Len(s) = IF o <= u THEN u - o ELSE 0
      /\ \A i \in 1 .. u - o : s[i] = all[o + i]
  <2>1. u <= Len(all)
    BY <1>1, <1>2
  <2>2. /\ SubSeq(all, o + 1, u) \in Seq(Hit)
        /\ Len(SubSeq(all, o + 1, u)) = IF o <= u THEN u - o ELSE 0
        /\ \A i \in 1 .. u - o : SubSeq(all, o + 1, u)[i] = all[o + i]
    BY <2>1, PartOf
  <2> QED
    BY <1>3, <2>2
<1>5. /\ t \in Seq(Hit) /\ Len(t) = IF o <= e THEN e - o ELSE 0
      /\ \A i \in 1 .. e - o : t[i] = all[o + i]
  BY <1>1, <1>2, <1>3, PartOf
<1>6. PICK l \in Nat, d \in Nat : l = Len(s) /\ d = Len(more)
  <2>1. Len(s) \in Nat /\ Len(more) \in Nat
    BY <1>4
  <2> QED
    BY <2>1
<1>7. /\ s \o more \in Seq(Hit) /\ Len(s \o more) = l + d
      /\ \A i \in 1 .. l + d : (s \o more)[i] = IF i <= l THEN s[i] ELSE more[i - l]
  <2>1. /\ s \o more \in Seq(Hit) /\ Len(s \o more) = Len(s) + Len(more)
        /\ \A i \in 1 .. Len(s) + Len(more) :
             (s \o more)[i] = IF i <= Len(s) THEN s[i] ELSE more[i - Len(s)]
    BY <1>4, ConcatProperties
  <2> QED
    BY <1>6, <2>1
<1>8. /\ before <= looked /\ d = looked - before
      /\ u >= o => before = 0
      /\ u < o => before = Least(looked, o - u)
  <2>1. CASE u >= o
    BY <1>0, <1>6, <2>1 DEF BeforeOffset
  <2>2. CASE u < o
    <3>1. PICK r \in Nat : r = o - u
      BY <2>2
    <3>2. before = Least(looked, r)
      BY <1>0, <2>2, <3>1 DEF BeforeOffset
    <3>3. before <= looked
      BY <3>2 DEF Least
    <3> QED
      BY <1>0, <1>6, <2>2, <3>1, <3>2, <3>3
  <2> QED
    BY <2>1, <2>2
<1>9. l + d = Len(t)
  <2>1. CASE u >= o
    BY <1>2, <1>4, <1>5, <1>6, <1>8, <2>1
  <2>2. CASE u < o
    <3>1. PICK r \in Nat : r = o - u /\ r > 0
      BY <2>2
    <3>2. before = Least(looked, r) /\ l = 0
      BY <1>4, <1>6, <1>8, <2>2, <3>1
    <3>3. CASE looked <= r
      BY <1>2, <1>5, <1>8, <2>2, <3>1, <3>2, <3>3 DEF Least
    <3>4. CASE looked > r
      BY <1>2, <1>5, <1>8, <2>2, <3>1, <3>2, <3>4 DEF Least
    <3> QED
      BY <3>3, <3>4
  <2> QED
    BY <2>1, <2>2
<1>10. ASSUME NEW i \in 1 .. l + d PROVE (s \o more)[i] = t[i]
  <2>1. t[i] = all[o + i]
    <3>1. i \in 1 .. e - o
      BY <1>2, <1>5, <1>9
    <3> QED
      BY <1>5, <3>1
  <2>2. CASE i <= l
    <3>1. i \in 1 .. u - o
      BY <1>4, <1>6, <2>2
    <3> QED
      BY <1>4, <1>7, <2>1, <2>2, <3>1
  <2>3. CASE i > l
    <3>1. PICK j \in 1 .. looked - before : j = i - l
      BY <1>8, <2>3
    <3>2. PICK q \in 1 .. looked : q = before + j
      BY <1>8
    <3>3. (s \o more)[i] = more[j] /\ more[j] = file[q] /\ all[u + q] = file[q]
      <4>1. (s \o more)[i] = more[i - l]
        <5>1. ~(i <= l)
          BY <2>3
        <5> QED
          BY <1>7, <5>1
      <4>2. more[j] = file[before + j]
        BY <1>0 DEF StandsAt
      <4>3. all[u + q] = file[q]
        BY <1>0 DEF StandsAt
      <4> QED
        BY <3>1, <3>2, <4>1, <4>2, <4>3
    <3>4. u + q = o + i
      <4>1. CASE u >= o
        BY <1>4, <1>6, <1>8, <3>1, <3>2, <4>1
      <4>2. CASE u < o
        <5>1. PICK r \in Nat : r = o - u /\ r > 0
          BY <4>2
        <5>2. before = Least(looked, r) /\ l = 0
          BY <1>4, <1>6, <1>8, <4>2, <5>1
        <5>3. before = r
          <6>1. before < looked
            BY <1>8, <3>1
          <6> QED
            BY <5>1, <5>2, <6>1 DEF Least
        <5>4. j = i /\ q = r + i
          BY <3>1, <3>2, <5>2, <5>3
        <5> QED
          BY <5>1, <5>4
      <4> QED
        BY <4>1, <4>2
    <3> QED
      BY <2>1, <3>3, <3>4
  <2>4. i <= l \/ i > l
    OBVIOUS
  <2> QED
    BY <2>2, <2>3, <2>4
<1>11. s \o more = t
  BY <1>5, <1>7, <1>9, <1>10, SeqEqual
<1> QED
  BY <1>2, <1>3, <1>11 DEF Between

LEMMA TextWalkFile == PageShape /\ TextRead /\ WalkFile => TextRead'
<1> SUFFICES ASSUME PageShape, TextRead, WalkFile PROVE TextRead'
  OBVIOUS
<1> SUFFICES ASSUME pgCase.kind = "text_search", pgLimit > 0, ~pgCut PROVE TextRead'
  BY DEF TextRead, WalkFile
<1>1. PICK all \in Seq(Hit), m \in Nat :
        /\ all = FlattenSeq(pgCase.lists) /\ m = Len(pgCase.lists)
        /\ DOMAIN pgCase.lists = 1 .. m
        /\ \A k \in 0 .. m : /\ FirstLists(pgCase.lists, k) \in Seq(Hit)
                             /\ Begins(FirstLists(pgCase.lists, k), all)
        /\ \A k \in 1 .. m : FirstLists(pgCase.lists, k) =
                               FirstLists(pgCase.lists, k - 1) \o pgCase.lists[k]
  BY TextLists
<1>2. PICK file \in Seq(Hit), looked \in Nat, before \in Nat :
        /\ Len(pgSources) + 1 \in DOMAIN pgCase.lists
        /\ file = pgCase.lists[Len(pgSources) + 1]
        /\ looked = Looked(file) /\ looked <= Len(file) /\ before <= looked
        /\ before = IF pgSeen >= pgOffset THEN 0 ELSE Least(looked, pgOffset - pgSeen)
        /\ pgSeen' = pgSeen + looked
        /\ pgShown' = pgShown \o SubSeq(file, before + 1, looked)
        /\ SubSeq(file, before + 1, looked) \in Seq(Hit)
        /\ Len(SubSeq(file, before + 1, looked)) = looked - before
        /\ \A i \in 1 .. looked - before :
             SubSeq(file, before + 1, looked)[i] = file[before + i]
  BY FileWalked
<1>3. PICK k \in Nat : k = Len(pgSources) /\ k \in 0 .. m /\ k + 1 \in 1 .. m
  <2>1. PICK k \in Nat : k = Len(pgSources)
    BY DEF PageShape, PageValues
  <2> QED
    BY <1>1, <1>2, <2>1
<1>4. PICK upto \in Seq(Hit) : upto = FirstLists(pgCase.lists, k)
  BY <1>1, <1>3
<1>5. /\ FirstLists(pgCase.lists, k + 1) = upto \o file
      /\ Begins(upto \o file, all)
  <2>1. PICK j \in 1 .. m : j = k + 1 /\ j \in 0 .. m /\ j - 1 = k
    BY <1>3
  <2>2. FirstLists(pgCase.lists, j) = FirstLists(pgCase.lists, j - 1) \o pgCase.lists[j]
    BY <1>1
  <2>3. FirstLists(pgCase.lists, j) = upto \o file
    BY <1>2, <1>3, <1>4, <2>1, <2>2
  <2>4. Begins(FirstLists(pgCase.lists, j), all)
    BY <1>1, <2>1
  <2> QED
    BY <2>1, <2>3, <2>4
<1>6. PICK u \in Nat, f \in Nat, n \in Nat : u = Len(upto) /\ f = Len(file) /\ n = Len(all)
  OBVIOUS
<1>7. /\ Len(upto \o file) = u + f
      /\ \A i \in 1 .. u + f :
           (upto \o file)[i] = IF i <= u THEN upto[i] ELSE file[i - u]
  BY <1>6, ConcatProperties
<1>8. u + f <= n /\ \A i \in 1 .. f : all[u + i] = file[i]
  <2>1. u + f <= n /\ \A i \in 1 .. u + f : (upto \o file)[i] = all[i]
    BY <1>5, <1>6, <1>7 DEF Begins
  <2>2. ASSUME NEW i \in 1 .. f PROVE all[u + i] = file[i]
    <3>1. PICK j \in 1 .. u + f : j = u + i /\ ~(j <= u) /\ j - u = i
      OBVIOUS
    <3>2. (upto \o file)[j] = file[j - u] /\ (upto \o file)[j] = all[j]
      BY <1>7, <2>1, <3>1
    <3> QED
      BY <3>1, <3>2
  <2> QED
    BY <2>1, <2>2
<1>9. /\ pgOffset \in Nat /\ pgLimit \in Nat /\ Need = pgOffset + pgLimit
      /\ pgLimit > 0
  BY PageConstants DEF PageShape, PageValues, Need
<1>10. /\ HasRead(all) /\ pgShown = SubSeq(all, pgOffset + 1, pgSeen)
       /\ pgSeen = u /\ pgSeen < pgOffset + pgLimit
  BY <1>1, <1>3, <1>4, <1>6 DEF TextRead, WalkFile
<1>11. looked = Least(f, Need - u) /\ looked <= f
  BY <1>2, <1>6, <1>9, <1>10 DEF Looked
<1>12. pgShown' = SubSeq(all, pgOffset + 1, u + looked)
  <2>1. PICK more \in Seq(Hit) : more = SubSeq(file, before + 1, looked)
    BY <1>2
  <2>2. /\ Len(more) = looked - before
        /\ \A i \in 1 .. looked - before : more[i] = file[before + i]
    BY <1>2, <2>1
  <2>3. before = IF u >= pgOffset THEN 0 ELSE Least(looked, pgOffset - u)
    BY <1>2, <1>10
  <2>4. u + looked <= Len(all) /\ \A i \in 1 .. looked : all[u + i] = file[i]
    <3>1. u + looked <= n
      BY <1>8, <1>11
    <3>2. \A i \in 1 .. looked : i \in 1 .. f
      BY <1>11
    <3> QED
      BY <1>6, <1>8, <3>1, <3>2
  <2>5. SubSeq(all, pgOffset + 1, u) \o more = SubSeq(all, pgOffset + 1, u + looked)
    <3>1. PICK o \in Nat : o = pgOffset
      BY <1>9
    <3>2. before = BeforeOffset(looked, u, o)
      BY <2>3, <3>1 DEF BeforeOffset
    <3>3. StandsAt(all, u, file, looked) /\ StandsAt(file, before, more, looked - before)
      BY <2>2, <2>4 DEF StandsAt
    <3>4. Len(more) = looked - before /\ u + looked <= Len(all)
      BY <2>2, <2>4
    <3>5. Between(all, o, u) \o more = Between(all, o, u + looked)
      <4>1. WalksOn(all, u, file, looked, before, o, more)
        BY <3>2, <3>3, <3>4 DEF WalksOn
      <4> QED
        BY <4>1, ShownOn
    <3> QED
      BY <3>1, <3>5 DEF Between
  <2> QED
    BY <1>2, <1>10, <2>1, <2>5
<1>13. pgMore' <=> u + looked = Need
  <2>1. pgMore' <=> Need > 0 /\ pgSeen' = Need
    BY DEF WalkFile
  <2>2. Need > 0
    BY <1>9
  <2>3. pgSeen' = u + looked
    BY <1>2, <1>10
  <2> QED
    BY <2>1, <2>2, <2>3
<1>14. pgMore' => pgSeen' = pgOffset + pgLimit /\ pgSeen' <= n
  <2>1. pgSeen' = u + looked
    BY <1>2, <1>10
  <2>2. u + looked <= n
    BY <1>8, <1>11
  <2>3. u + looked = Need => pgSeen' = pgOffset + pgLimit /\ pgSeen' <= n
    BY <1>9, <2>1, <2>2
  <2> QED
    BY <1>13, <2>3, Zenon
<1>15. ~pgMore' => pgSeen' = u + f /\ pgSeen' < pgOffset + pgLimit
  <2>1. pgSeen' = u + looked
    BY <1>2, <1>10
  <2>2. u < Need
    BY <1>9, <1>10
  <2>3. PICK d \in Nat : d = Need - u
    BY <1>9, <2>2
  <2>4. looked = Least(f, d)
    BY <1>11, <2>3
  <2>5. u + looked # Need => looked = f /\ u + f < Need
    BY <1>9, <2>3, <2>4 DEF Least
  <2>6. u + looked # Need => pgSeen' = u + f /\ pgSeen' < pgOffset + pgLimit
    BY <1>9, <2>1, <2>5
  <2> QED
    BY <1>13, <2>6, Zenon
<1>16. Len(pgSources') = k + 1
  <2>1. pgSources \in Seq(DOMAIN pgCase.lists) /\ pgSources' = Append(pgSources, Len(pgSources) + 1)
    BY DEF PageShape, PageValues, WalkFile
  <2> QED
    BY <1>2, <1>3, <2>1, AppendProperties
<1>17. HasRead(all)' /\ pgCase' = pgCase /\ pgLimit' = pgLimit /\ pgOffset' = pgOffset
       /\ pgStage' = "scanning" /\ pgStage = "scanning" /\ pgCut' = pgCut
  BY <1>10 DEF HasRead, WalkFile
<1> QED
  BY <1>1, <1>2, <1>5, <1>6, <1>7, <1>10, <1>12, <1>14, <1>15, <1>16, <1>17 DEF TextRead

LEMMA TextWalkEnds == PageShape /\ TextRead /\ WalkEnds => TextRead'
<1> SUFFICES ASSUME PageShape, TextRead, WalkEnds PROVE TextRead'
  OBVIOUS
<1> SUFFICES ASSUME pgCase.kind = "text_search", pgLimit > 0, ~pgCut' PROVE TextRead'
  BY DEF TextRead, WalkEnds
<1>0. ~pgCut /\ (pgMore \/ ~(Len(pgSources) < Len(pgCase.lists)))
  BY DEF WalkEnds
<1>1. PICK all \in Seq(Hit), m \in Nat :
        /\ all = FlattenSeq(pgCase.lists) /\ m = Len(pgCase.lists)
        /\ all = FirstLists(pgCase.lists, m)
  BY TextLists
<1>2. PICK n \in Nat : n = Len(all)
  OBVIOUS
<1>3. /\ HasRead(all) /\ pgShown = SubSeq(all, pgOffset + 1, pgSeen)
      /\ pgMore => pgSeen = pgOffset + pgLimit /\ pgSeen <= Len(all)
      /\ ~pgMore => pgSeen = Len(FirstLists(pgCase.lists, Len(pgSources)))
  BY <1>0, <1>1 DEF TextRead, WalkEnds
<1>4. PICK given \in Seq(Hit) :
        given = pgGiven /\ Len(given) = pgOffset /\ Begins(given, all)
  BY <1>3 DEF HasRead, PageShape, PageValues
<1>5. pgOffset \in Nat /\ pgLimit \in Nat /\ pgOffset <= n
  BY <1>2, <1>4, PageConstants DEF PageShape, PageValues, Begins
<1>6. CASE pgMore
  <2>1. PICK last \in Nat : last = pgSeen /\ last = pgOffset + pgLimit /\ last <= n
    BY <1>2, <1>3, <1>5, <1>6
  <2>2. /\ Len(Following(given, all, last)) = last - Len(given)
        /\ Len(given \o Following(given, all, last)) = last
        /\ Begins(given \o Following(given, all, last), all)
    <3>1. BeginsUpTo(given, all, last)
      BY <1>2, <1>4, <1>5, <2>1 DEF BeginsUpTo
    <3> QED
      BY <3>1, ReadsOn
  <2>3. pgShown = Following(given, all, last)
    BY <1>3, <1>4, <2>1 DEF Following
  <2>4. Len(pgShown) = pgLimit
    BY <1>4, <1>5, <2>1, <2>2, <2>3
  <2>5. pgShown # << >>
    BY <1>5, <2>4
  <2>6. pgMore' /\ pgGiven' = given \o pgShown /\ pgShown' = pgShown
        /\ pgOffset' = pgOffset
    BY <1>4, <1>6, <2>5 DEF WalkEnds
  <2>7. Len(pgGiven') = pgOffset' + Len(pgShown') /\ Begins(pgGiven', all)
    BY <2>1, <2>2, <2>3, <2>4, <2>6
  <2>8. PageRead(all)'
    BY <2>6, <2>7 DEF PageRead
  <2> QED
    BY <1>1, <2>8 DEF TextRead, WalkEnds
<1>7. CASE ~pgMore
  <2>1. PICK k \in Nat : k = Len(pgSources) /\ k <= m
    BY <1>1 DEF PageShape, PageValues, PageStages, WalkEnds
  <2>2. k = m
    BY <1>0, <1>1, <1>7, <2>1
  <2>3. pgSeen = n
    BY <1>1, <1>2, <1>3, <1>7, <2>1, <2>2
  <2>4. pgShown = Following(given, all, n)
    BY <1>3, <1>4, <2>3 DEF Following
  <2>5. given \o Following(given, all, n) = all
    <3>1. BeginsUpTo(given, all, n)
      BY <1>2, <1>4, <1>5 DEF BeginsUpTo
    <3> QED
      BY <1>2, <3>1, ReadsToEnd
  <2>6. ~pgMore' /\ pgGiven' = all
    BY <1>4, <1>7, <2>4, <2>5 DEF WalkEnds
  <2>7. PageRead(all)'
    BY <2>6 DEF PageRead
  <2> QED
    BY <1>1, <2>7 DEF TextRead, WalkEnds
<1> QED
  BY <1>6, <1>7

LEMMA TextTurnPage == PageShape /\ TextRead /\ TurnPage => TextRead'
<1> SUFFICES ASSUME PageShape, TextRead, TurnPage PROVE TextRead'
  OBVIOUS
<1> SUFFICES ASSUME pgCase.kind = "text_search", pgLimit > 0, ~pgCut PROVE TextRead'
  BY DEF TextRead, TurnPage
<1>1. PICK all : all = FlattenSeq(pgCase.lists) /\ PageRead(all)
  BY DEF TextRead, TurnPage
<1>2. CASE pgMore
  <2>1. HasRead(all)'
    BY <1>1, <1>2 DEF HasRead, PageRead, TurnPage
  <2> QED
    BY <1>1, <1>2, <2>1 DEF TextRead, TurnPage
<1>3. CASE ~pgMore
  <2>1. pgGiven' = all
    BY <1>1, <1>3 DEF PageRead, TurnPage
  <2> QED
    BY <1>1, <1>3, <2>1 DEF TextRead, TurnPage
<1> QED
  BY <1>2, <1>3

\* The steps that do not concern text_search, and none at all.
LEMMA TextKept ==
  PageShape /\ TextRead /\ (PassOver \/ SourcesAnswer \/ CutPage \/ UNCHANGED pageVars)
    => TextRead'
<1> SUFFICES ASSUME PageShape, TextRead,
                    PassOver \/ SourcesAnswer \/ CutPage \/ UNCHANGED pageVars
             PROVE  TextRead'
  OBVIOUS
<1>1. CASE PassOver
  BY <1>1 DEF TextRead, PassOver
<1>2. CASE SourcesAnswer
  BY <1>2 DEF TextRead, SourcesAnswer
<1>3. CASE CutPage
  BY <1>3 DEF TextRead, PageShape, PageStages, CutPage
<1>4. CASE UNCHANGED pageVars
  BY <1>4 DEF TextRead, HasRead, PageRead, pageVars
<1> QED
  BY <1>1, <1>2, <1>3, <1>4

-----------------------------------------------------------------------------

\* All sources have answered: what the pages are cut from is complete.
LEMMA AllListed ==
  ASSUME PageShape, SourcesAnswer, ~pgCut'
  PROVE  Listed' = AllResults'
<1>1. PICK m \in Nat : /\ m > 0 /\ DOMAIN pgCase.lists = 1 .. m
                       /\ \A i \in 1 .. m : pgCase.lists[i] \in Seq(Hit)
  BY CaseLists DEF PageShape, PageValues
<1>2. pgCase.kind \in PageKinds /\ pgCase.kind # "text_search" /\ pgCase' = pgCase
  BY CaseLists DEF PageShape, PageValues, SourcesAnswer
<1>3. ToSet(pgSources') = AskedAtOnce
  BY DEF SourcesAnswer
<1>4. PICK order : order = pgSources'
  OBVIOUS
<1>5. CASE pgCase.kind \in {"references", "symbol_explore"}
  BY <1>2, <1>5 DEF AllResults
<1>6. CASE pgCase.kind \in {"workspace_symbols", "document_symbols", "definitions"}
  <2>1. AskedAtOnce = {1}
    BY <1>6 DEF AskedAtOnce
  <2>2. PICK R \in SUBSET {1} : order \in SetToSeqs(R)
    BY <1>4, <2>1 DEF SourcesAnswer, SetToAllKPermutations
  <2>3. ToSet(order) = {1}
    BY <1>3, <1>4, <2>1
  <2>4. order \in [1 .. Cardinality(R) -> R]
    BY <2>2 DEF SetToSeqs
  <2>5. R = {1}
    <3>1. R # {}
      <4> SUFFICES ASSUME R = {} PROVE FALSE
        OBVIOUS
      <4>1. Cardinality(R) = 0
        BY FS_EmptySet
      <4>2. DOMAIN order = {}
        BY <2>4, <4>1
      <4>3. ToSet(order) = {}
        BY <4>2 DEF ToSet
      <4> QED
        BY <2>3, <4>3
    <3> QED
      BY <3>1
  <2>6. Cardinality(R) = 1
    BY <2>5, FS_Singleton
  <2>7. order = << 1 >>
    <3>1. order \in [1 .. 1 -> {1}]
      BY <2>4, <2>5, <2>6
    <3>2. order = [i \in 1 .. 1 |-> 1]
      BY <3>1
    <3>3. << 1 >> = [i \in 1 .. 1 |-> 1]
      OBVIOUS
    <3> QED
      BY <3>2, <3>3
  <2>8. CASE pgCase.kind = "definitions"
    <3>1. pgSources' # << >>
      BY <1>4, <2>7
    <3>2. Listed' = DefinitionsFound'
      BY <1>2, <2>8, <3>1 DEF Listed
    <3>3. AllResults' = DefinitionsFound'
      BY <1>2, <2>8 DEF AllResults, DefinitionsFound
    <3> QED
      BY <3>2, <3>3
  <2>9. CASE pgCase.kind \in {"workspace_symbols", "document_symbols"}
    <3>1. PICK one : one = [i \in DOMAIN order |-> pgCase.lists[order[i]]]
      OBVIOUS
    <3>2. 1 \in 1 .. m
      BY <1>1
    <3>3. DOMAIN order = 1 .. 1 /\ order[1] = 1
      BY <2>7
    <3>4. one \in [1 .. 1 -> Seq(Hit)] /\ one[1] = pgCase.lists[1]
      BY <1>1, <3>1, <3>2, <3>3
    <3>5. PICK u \in Nat : u = 1 /\ one \in [1 .. u -> Seq(Hit)]
      BY <3>4
    <3>6. one \in Seq(Seq(Hit)) /\ u = Len(one)
      <4>1. one \in Seq(Seq(Hit))
        <5>1. one \in [1 .. u -> Seq(Hit)]
          BY <3>5
        <5> QED
          BY <5>1
      <4>2. PICK v \in Nat : v = Len(one) /\ DOMAIN one = 1 .. v
        BY <4>1, LenProperties
      <4>3. 1 .. v = 1 .. u
        BY <3>5, <4>2
      <4>4. v = u
        BY <4>3
      <4> QED
        BY <4>1, <4>2, <4>4
    <3>7. FlattenSeq(one) = << >> \o one[1]
      <4>1. /\ FirstLists(one, 0) = << >>
            /\ \A k \in 1 .. u : FirstLists(one, k) = FirstLists(one, k - 1) \o one[k]
            /\ FlattenSeq(one) = FirstLists(one, u)
        BY <3>6, ListsJoined
      <4>2. u \in 1 .. u /\ u - 1 = 0
        BY <3>5
      <4> QED
        BY <3>5, <4>1, <4>2
    <3>8. << >> \o one[1] = one[1]
      BY <3>4, ConcatEmptySeq
    <3>9. Listed' = FlattenSeq(one)
      BY <1>2, <1>4, <2>9, <3>1 DEF Listed
    <3>10. AllResults' = pgCase.lists[1]
      BY <1>2, <2>9 DEF AllResults
    <3> QED
      BY <3>4, <3>7, <3>8, <3>9, <3>10
  <2> QED
    BY <1>6, <2>8, <2>9
<1> QED
  BY <1>2, <1>5, <1>6 DEF PageKinds

\* The steps of text_search.
LEMMA ListKept ==
  PageShape /\ ListRead /\ (StartWalk \/ WalkFile \/ PassOver \/ WalkEnds)
    => ListRead'
<1> SUFFICES ASSUME PageShape, StartWalk \/ WalkFile \/ PassOver \/ WalkEnds
             PROVE  ListRead'
  OBVIOUS
<1>1. pgCase.kind = "text_search" /\ pgCase' = pgCase
  BY DEF PageShape, PageStages, StartWalk, WalkFile, PassOver, WalkEnds
<1> QED
  BY <1>1 DEF ListRead

LEMMA ListUnchanged == ListRead /\ UNCHANGED pageVars => ListRead'
<1> SUFFICES ASSUME ListRead, UNCHANGED pageVars PROVE ListRead'
  OBVIOUS
<1>1. Listed' = Listed
  BY DEF Listed, DefinitionsFound, pageVars
<1>2. AllResults' = AllResults /\ (IsWhole' <=> IsWhole)
  BY <1>1 DEF AllResults, IsWhole, pageVars
<1>3. SameOrder' <=> SameOrder
  BY DEF SameOrder, pageVars
<1>4. (PageRead(Listed)' <=> PageRead(Listed)) /\ (HasRead(Listed)' <=> HasRead(Listed))
  BY <1>1 DEF PageRead, HasRead, pageVars
<1> QED
  BY <1>1, <1>2, <1>3, <1>4 DEF ListRead, pageVars

LEMMA ListSources == PageShape /\ ListRead /\ SourcesAnswer => ListRead'
<1> SUFFICES ASSUME PageShape, ListRead, SourcesAnswer PROVE ListRead'
  OBVIOUS
<1> SUFFICES ASSUME pgCase.kind # "text_search", pgLimit > 0, ~pgCut', SameOrder'
             PROVE  ListRead'
  BY DEF ListRead, SourcesAnswer
<1>1. /\ ~pgCut /\ pgStage = "asked" /\ pgStage' = "listed" /\ pgCase' = pgCase
      /\ pgOffset' = pgOffset /\ pgGiven' = pgGiven
      /\ pgOrders' = pgOrders \cup {pgSources'}
  BY DEF SourcesAnswer
<1>2. SameOrder /\ pgSources' \in pgOrders'
  BY <1>1 DEF SameOrder
<1>3. Listed' = AllResults'
  BY <1>1, AllListed
<1>4. HasRead(Listed)' /\ (pgOffset' = 0 \/ ~IsWhole')
  <2>1. CASE pgOffset = 0 /\ pgGiven = << >>
    <3>1. Len(<< >>) = 0 /\ 1 .. 0 = {}
      BY EmptySeq
    <3>2. PageShape'
      BY ShapeSources
    <3>3. Listed' \in Seq(Hit)
      BY <3>2, ListedNext
    <3>4. Len(Listed') \in Nat
      BY <3>3
    <3> QED
      BY <1>1, <2>1, <3>1, <3>4 DEF HasRead, Begins
  <2>2. CASE pgSources \in pgOrders /\ HasRead(Listed) /\ ~IsWhole
    <3>1. pgSources' = pgSources
      BY <1>1, <1>2, <2>2 DEF SameOrder
    <3>2. Listed' = Listed
      BY <1>1, <3>1 DEF Listed, DefinitionsFound
    <3>3. IsWhole' <=> IsWhole
      BY <1>1, <3>2 DEF IsWhole
    <3> QED
      BY <1>1, <2>2, <3>2, <3>3 DEF HasRead
  <2> QED
    BY <1>1, <1>2, <2>1, <2>2 DEF ListRead
<1> QED
  BY <1>1, <1>2, <1>3, <1>4 DEF ListRead

LEMMA ListCutPage == PageShape /\ ListRead /\ CutPage => ListRead'
<1> SUFFICES ASSUME PageShape, ListRead, CutPage PROVE ListRead'
  OBVIOUS
<1>1. /\ pgStage = "listed" /\ pgStage' = "answered" /\ pgCase' = pgCase
      /\ pgSources' = pgSources /\ pgOrders' = pgOrders /\ pgCut' = pgCut
      /\ pgLimit' = pgLimit /\ pgOffset' = pgOffset
      /\ pgGiven' = pgGiven \o pgShown'
  BY DEF CutPage
<1>2. Listed' = Listed
  BY <1>1 DEF Listed, DefinitionsFound
<1>3. AllResults' = AllResults /\ (IsWhole' <=> IsWhole) /\ (SameOrder' <=> SameOrder)
  BY <1>1, <1>2 DEF AllResults, IsWhole, SameOrder
<1> SUFFICES ASSUME pgCase.kind # "text_search", pgLimit > 0, ~pgCut, SameOrder
             PROVE  ListRead'
  BY <1>1, <1>3 DEF ListRead
<1>4. /\ pgSources \in pgOrders /\ Listed = AllResults
      /\ HasRead(Listed) /\ (pgOffset = 0 \/ ~IsWhole)
  BY <1>1 DEF ListRead
<1>5. PICK all \in Seq(Hit), n \in Nat : all = Listed /\ n = Len(all)
  BY ListedType
<1>6. PICK given \in Seq(Hit) :
        given = pgGiven /\ Len(given) = pgOffset /\ Begins(given, all)
  BY <1>4, <1>5 DEF HasRead, PageShape, PageValues
<1>7. PICK o \in Nat, l \in Nat : o = pgOffset /\ l = pgLimit /\ l > 0 /\ o <= n
  BY <1>5, <1>6, PageConstants DEF PageShape, PageValues, Begins
<1>8. PageRead(Listed)' /\ (pgMore' => ~IsWhole)
  <2>1. CASE IsWhole /\ pgShown' = Listed /\ pgMore' = FALSE
    <3>1. o = 0
      BY <1>4, <1>7, <2>1
    <3>2. given = << >>
      BY <1>6, <1>7, <3>1, EmptySeq
    <3>3. << >> \o all = all
      BY ConcatEmptySeq
    <3>4. pgGiven' = all
      BY <1>1, <1>5, <1>6, <2>1, <3>2, <3>3
    <3> QED
      BY <1>2, <1>5, <2>1, <3>4 DEF PageRead
  <2>2. CASE ~IsWhole /\ pgOffset >= Len(Listed) /\ pgShown' = << >> /\ pgMore' = FALSE
    <3>1. Len(given) = Len(all)
      BY <1>5, <1>6, <1>7, <2>2
    <3>2. given = all
      BY <1>6, <3>1, BeginsAll
    <3>3. given \o << >> = given
      BY ConcatEmptySeq
    <3>4. pgGiven' = all
      BY <1>1, <1>6, <2>2, <3>2, <3>3
    <3> QED
      BY <1>2, <1>5, <2>2, <3>4 DEF PageRead
  <2>3. CASE /\ ~IsWhole /\ pgOffset < Len(Listed)
             /\ pgShown' = SubSeq(Listed, pgOffset + 1, PageEnd)
             /\ pgMore' = /\ PageEnd < Len(Listed)
                          /\ \/ pgCase.kind \in {"document_symbols", "references"}
                             \/ pgLimit > 0
    <3>1. PICK last \in Nat : last = PageEnd /\ last = Least(o + l, n)
      BY <1>5, <1>7 DEF PageEnd, Least
    <3>2. o < n /\ last <= n /\ o <= last
      BY <1>5, <1>7, <2>3, <3>1 DEF Least
    <3>3. BeginsUpTo(given, all, last)
      BY <1>5, <1>6, <1>7, <3>2 DEF BeginsUpTo
    <3>4. pgShown' = Following(given, all, last)
      BY <1>5, <1>6, <2>3, <3>1 DEF Following
    <3>5. pgGiven' = given \o Following(given, all, last)
      BY <1>1, <1>6, <3>4
    <3>6. /\ Len(Following(given, all, last)) = last - Len(given)
          /\ Len(given \o Following(given, all, last)) = last
          /\ Begins(given \o Following(given, all, last), all)
      BY <3>3, ReadsOn
    <3>7. CASE last < n
      <4>1. pgMore'
        BY <1>5, <1>7, <2>3, <3>1, <3>7
      <4>2. Len(pgGiven') = pgOffset' + Len(pgShown') /\ Begins(pgGiven', all)
        BY <1>1, <1>6, <1>7, <3>4, <3>5, <3>6
      <4> QED
        BY <1>2, <1>5, <2>3, <4>1, <4>2 DEF PageRead
    <3>8. CASE ~(last < n)
      <4>1. ~pgMore'
        BY <1>5, <2>3, <3>1, <3>8
      <4>2. last = Len(all)
        BY <1>5, <3>2, <3>8
      <4>3. pgGiven' = all
        BY <3>3, <3>5, <4>2, ReadsToEnd
      <4> QED
        BY <1>2, <1>5, <4>1, <4>3 DEF PageRead
    <3> QED
      BY <3>7, <3>8
  <2> QED
    BY <2>1, <2>2, <2>3 DEF CutPage
<1> QED
  BY <1>1, <1>2, <1>3, <1>4, <1>8 DEF ListRead

LEMMA ListTurnPage == PageShape /\ ListRead /\ TurnPage => ListRead'
<1> SUFFICES ASSUME PageShape, ListRead, TurnPage PROVE ListRead'
  OBVIOUS
<1>1. /\ pgStage = "answered" /\ pgCase' = pgCase /\ pgLimit' = pgLimit
      /\ pgSources' = pgSources /\ pgOrders' = pgOrders /\ pgCut' = pgCut
      /\ pgGiven' = pgGiven
  BY DEF TurnPage
<1>2. Listed' = Listed
  BY <1>1 DEF Listed, DefinitionsFound
<1>3. AllResults' = AllResults /\ (IsWhole' <=> IsWhole) /\ (SameOrder' <=> SameOrder)
  BY <1>1, <1>2 DEF AllResults, IsWhole, SameOrder
<1> SUFFICES ASSUME pgCase.kind # "text_search", pgLimit > 0, ~pgCut, SameOrder
             PROVE  ListRead'
  BY <1>1, <1>3 DEF ListRead
<1>4. /\ pgSources \in pgOrders /\ Listed = AllResults
      /\ PageRead(Listed) /\ (pgMore => ~IsWhole)
  BY <1>1 DEF ListRead
<1>5. CASE pgMore
  <2>1. HasRead(Listed)'
    BY <1>1, <1>2, <1>4, <1>5 DEF PageRead, HasRead, TurnPage
  <2>2. pgStage' = "asked"
    BY <1>5 DEF TurnPage
  <2> QED
    BY <1>1, <1>3, <1>4, <1>5, <2>1, <2>2 DEF ListRead
<1>6. CASE ~pgMore
  <2>1. pgGiven' = AllResults /\ pgStage' = "end"
    BY <1>1, <1>4, <1>6 DEF PageRead, TurnPage
  <2> QED
    BY <1>1, <1>2, <1>3, <1>4, <2>1 DEF ListRead
<1> QED
  BY <1>5, <1>6

LEMMA NextPages == PageInv /\ (PageNext \/ UNCHANGED pageVars) => PageInv'
<1> SUFFICES ASSUME PageInv, PageNext \/ UNCHANGED pageVars PROVE PageInv'
  OBVIOUS
<1>0. PageShape /\ TextRead /\ ListRead
  BY DEF PageInv
<1>1. PageShape'
  BY <1>0, ShapeStartWalk, ShapeWalkFile, ShapePassOver, ShapeWalkEnds, ShapeSources,
     ShapeCutPage, ShapeTurnPage, ShapeUnchanged DEF PageNext
<1>2. TextRead'
  BY <1>0, TextStartWalk, TextWalkFile, TextWalkEnds, TextTurnPage, TextKept
     DEF PageNext
<1>3. ListRead'
  BY <1>0, ListKept, ListSources, ListCutPage, ListTurnPage, ListUnchanged
     DEF PageNext
<1> QED
  BY <1>1, <1>2, <1>3 DEF PageInv

\* Read to the end, the pages hold all results.
LEMMA PagesHold == PageInv => PagesSound
<1> SUFFICES ASSUME PageInv, pgStage = "end", ~pgCut, pgLimit > 0,
                    Cardinality(pgOrders) <= 1
             PROVE  pgGiven = AllResults
  BY DEF PagesSound
<1>1. SameOrder
  <2> SUFFICES ASSUME NEW o1 \in pgOrders, NEW o2 \in pgOrders, o1 # o2 PROVE FALSE
    BY DEF SameOrder
  <2>1. {o1, o2} \subseteq pgOrders /\ IsFiniteSet(pgOrders)
    BY DEF PageInv, PageShape, PageValues
  <2>2. Cardinality({o1, o2}) <= Cardinality(pgOrders)
    BY <2>1, FS_Subset
  <2>3. Cardinality({o1, o2}) = 2
    <3>1. IsFiniteSet({o1}) /\ Cardinality({o1}) = 1
      BY FS_Singleton
    <3>2. Cardinality({o1} \cup {o2}) = Cardinality({o1}) + 1
      BY <3>1, FS_AddElement
    <3>3. {o1, o2} = {o1} \cup {o2}
      OBVIOUS
    <3> QED
      BY <3>1, <3>2, <3>3
  <2>4. Cardinality(pgOrders) \in Nat
    BY <2>1, FS_CardinalityType
  <2> QED
    BY <2>2, <2>3, <2>4
<1>2. CASE pgCase.kind = "text_search"
  <2>1. pgGiven = FlattenSeq(pgCase.lists)
    BY <1>2 DEF PageInv, TextRead
  <2> QED
    BY <1>2, <2>1 DEF AllResults
<1>3. CASE pgCase.kind # "text_search"
  BY <1>1, <1>3 DEF PageInv, ListRead
<1> QED
  BY <1>2, <1>3

\* project_analysis and symbol_explore: for any lists of results and any limit,
\* a user who reads page after page to the end has been given every result
\* once and in order, when nothing failed or was passed over and the languages
\* answered in one order.
THEOREM PagesCorrect == ToolsSpec => []PagesSound
<1>1. ToolsInit => PageInv
  BY InitPages DEF ToolsInit
<1>2. PageInv /\ [ToolsNext]_vars => PageInv'
  <2>1. [ToolsNext]_vars => PageNext \/ UNCHANGED pageVars
    BY DEF ToolsNext, Rest, vars
  <2> QED
    BY <2>1, NextPages
<1>3. PageInv => PagesSound
  BY PagesHold
<1> QED
  BY <1>1, <1>2, <1>3, PTL DEF ToolsSpec

-----------------------------------------------------------------------------
(* FileContext and PathMapping. *)

\* bridge.go, pathmap.go and utils.go: for every name of a file, all roots and
\* any files, a request goes out under the URI that was opened, each name of a
\* file of the workspace is that file's, and a context becomes the first of its
\* paths that there is, or an error that tells every directory with a match.
THEOREM PathsCorrect == ToolsSpec => []PathsSound
<1>1. ToolsInit => PathInv /\ CtxInv
  BY InitNames, InitContext DEF ToolsInit
<1>2. PathInv /\ CtxInv /\ [ToolsNext]_vars => PathInv' /\ CtxInv'
  <2>1. [ToolsNext]_vars => PathNext \/ UNCHANGED pathVars
    BY DEF ToolsNext, Rest, vars
  <2>2. [ToolsNext]_vars => CtxNext \/ UNCHANGED ctxVars
    BY DEF ToolsNext, Rest, vars
  <2> QED
    BY <2>1, <2>2, NextNames, NextContext
<1>3. PathInv /\ CtxInv => PathsSound
  BY NamesHold, ContextHolds DEF PathsSound
<1> QED
  BY <1>1, <1>2, <1>3, PTL DEF ToolsSpec

-----------------------------------------------------------------------------
(* RangeContent. *)

\* utils.go: for any lines and any two positions, what getRangeContent returns
\* is the text of the file from the first to the second, but for the last
\* character of a range of several lines that ends inside a line; and it is
\* returned only for positions that exist.
THEOREM RangesCorrect == ToolsSpec => []RangeSound
<1>1. ToolsInit => RangeInv
  BY DEF ToolsInit, RangeInit, RangeInv
<1>2. RangeInv /\ [ToolsNext]_vars => RangeInv'
  <2>1. [ToolsNext]_vars => RangeNext \/ UNCHANGED rangeVars
    BY DEF ToolsNext, Rest, vars
  <2>2. RangeInv /\ RangeNext => RangeInv'
    BY DEF RangeInv, RangeNext, ReadRange
  <2>3. RangeInv /\ UNCHANGED rangeVars => RangeInv'
    BY DEF RangeInv, rangeVars
  <2> QED
    BY <2>1, <2>2, <2>3
<1>3. RangeInv => RangeSound
  BY RangesHold
<1> QED
  BY <1>1, <1>2, <1>3, PTL DEF ToolsSpec

-----------------------------------------------------------------------------
(* WorkspaceEdits. *)

\* The change of a file of the map.
MapEdit(f) == [kind |-> "edit", file |-> f, edits |-> editCase.changes[f]]

MapFiles == DOMAIN editCase.changes

OpSet == ToSet(editCase.ops) \cup {MapEdit(f) : f \in MapFiles}

EditValues ==
  /\ editCase \in EditCases /\ DOMAIN disk = File
  /\ opsLeft \in Seq(OpSet) /\ made \in Seq(OpSet)
  /\ Len(opsLeft) <= Len(editCase.ops) /\ mapLeft \subseteq MapFiles
  /\ loaded # Absent => loaded.op \in EditTargets /\ loaded.op.file \in Allowed
  /\ editResult \in {"none", "ok", "error"}

\* The document changes that are left are the last ones, and those that are
\* made the first ones; after them come the files of the map.
EditOrder ==
  /\ \A i \in 1 .. Len(opsLeft) :
       opsLeft[i] = editCase.ops[Len(editCase.ops) - Len(opsLeft) + i]
  /\ \A i \in 1 .. Len(made) : i <= Len(editCase.ops) => made[i] = editCase.ops[i]
  /\ opsLeft # << >> => /\ Len(made) = Len(editCase.ops) - Len(opsLeft)
                        /\ mapLeft = MapFiles
  /\ opsLeft = << >> =>
       Len(made) = Len(editCase.ops) + Cardinality(MapFiles) - Cardinality(mapLeft)
  /\ editResult = "ok" => opsLeft = << >> /\ mapLeft = {}

EditInv == EditValues /\ EditOrder

\* The changes of a case.
LEMMA CaseOps ==
  ASSUME NEW c \in EditCases
  PROVE  /\ DOMAIN c.files = File /\ c.ops \in Seq(ToSet(c.ops))
         /\ DOMAIN c.changes \subseteq File /\ IsFiniteSet(DOMAIN c.changes)
BY EditConstants

LEMMA InitEdits == EditInit => EditInv
<1> SUFFICES ASSUME EditInit PROVE EditInv
  OBVIOUS
<1>1. /\ editCase \in EditCases /\ disk = editCase.files /\ opsLeft = editCase.ops
      /\ mapLeft = MapFiles /\ loaded = Absent /\ editResult = "none" /\ made = << >>
  BY DEF EditInit, MapFiles
<1>2. PICK S, T : S = ToSet(editCase.ops) /\ T = OpSet /\ S \subseteq T
  BY DEF OpSet
<1>3. opsLeft \in Seq(S) /\ DOMAIN disk = File
  BY <1>1, <1>2, CaseOps
<1>4. opsLeft \in Seq(T) /\ made \in Seq(T)
  <2>1. opsLeft \in Seq(T)
    BY <1>2, <1>3, SeqMonotonic
  <2> QED
    BY <1>1, <2>1
<1>5. PICK n \in Nat : n = Len(opsLeft) /\ DOMAIN opsLeft = 1 .. n
  BY <1>3, LenProperties
<1>6. EditValues
  BY <1>1, <1>2, <1>3, <1>4, <1>5 DEF EditValues
<1>7. EditOrder
  <2>1. \A i \in 1 .. n : n - n + i = i
    OBVIOUS
  <2>2. Len(made) = 0
    BY <1>1
  <2>3. IsFiniteSet(MapFiles) /\ Cardinality(MapFiles) \in Nat
    BY <1>1, CaseOps, FS_CardinalityType DEF MapFiles
  <2>4. opsLeft = << >> => n = 0
    BY <1>5
  <2>5. opsLeft # << >> => Len(made) = n - n /\ mapLeft = MapFiles
    BY <1>1, <2>2
  <2>6. opsLeft = << >> => Len(made) = n + Cardinality(MapFiles) - Cardinality(mapLeft)
    BY <1>1, <2>2, <2>3, <2>4
  <2>7. \A i \in 1 .. Len(made) : FALSE
    BY <2>2
  <2> QED
    BY <1>1, <1>5, <2>1, <2>5, <2>6, <2>7 DEF EditOrder
<1> QED
  BY <1>6, <1>7 DEF EditInv

\* The next change of a document is made, or skipped.
LEMMA NextOp ==
  ASSUME EditInv, opsLeft # << >>, OpDone, UNCHANGED editCase, loaded' = Absent,
         DOMAIN disk' = File, Running
  PROVE  EditInv'
<1>1. PICK n \in Nat, l \in Nat, m \in Nat, T \in {OpSet} :
        /\ n = Len(editCase.ops) /\ l = Len(opsLeft) /\ m = Len(made) /\ T = OpSet
        /\ DOMAIN opsLeft = 1 .. l /\ DOMAIN made = 1 .. m
  <2>1. editCase.ops \in Seq(ToSet(editCase.ops))
    BY CaseOps DEF EditInv, EditValues
  <2>2. Len(editCase.ops) \in Nat
    BY <2>1, LenProperties
  <2> QED
    BY <2>2, LenProperties DEF EditInv, EditValues
<1>2. l > 0 /\ l <= n /\ m = n - l
  <2>1. l <= n /\ m = n - l
    BY <1>1 DEF EditInv, EditValues, EditOrder
  <2>2. l > 0
    BY <1>1, EmptySeq DEF EditInv, EditValues
  <2> QED
    BY <2>1, <2>2
<1>3. PICK op \in T : op = Head(opsLeft) /\ op = opsLeft[1]
  <2>1. opsLeft[1] \in OpSet /\ Head(opsLeft) = opsLeft[1]
    BY <1>1, <1>2 DEF EditInv, EditValues
  <2> QED
    BY <1>1, <2>1
<1>4. op = editCase.ops[m + 1]
  <2>1. 1 \in 1 .. l /\ n - l + 1 = m + 1
    BY <1>2
  <2> QED
    BY <1>1, <1>3, <2>1 DEF EditInv, EditOrder
<1>5. /\ opsLeft' \in Seq(T) /\ Len(opsLeft') = l - 1
      /\ \A i \in 1 .. l - 1 : opsLeft'[i] = opsLeft[i + 1]
  <2>1. opsLeft' = Tail(opsLeft) /\ opsLeft \in Seq(T)
    BY <1>1 DEF OpDone, EditInv, EditValues
  <2>2. /\ Tail(opsLeft) \in Seq(T) /\ Len(Tail(opsLeft)) = Len(opsLeft) - 1
        /\ \A i \in 1 .. Len(Tail(opsLeft)) : Tail(opsLeft)[i] = opsLeft[i + 1]
    BY <2>1, HeadTailProperties
  <2> QED
    BY <1>1, <2>1, <2>2
<1>6. /\ made' \in Seq(T) /\ Len(made') = m + 1
      /\ \A i \in 1 .. m + 1 : made'[i] = IF i <= m THEN made[i] ELSE op
  <2>1. made' = Append(made, op) /\ made \in Seq(T)
    BY <1>1, <1>3 DEF OpDone, EditInv, EditValues
  <2>2. /\ Append(made, op) \in Seq(T) /\ Len(Append(made, op)) = Len(made) + 1
        /\ \A i \in 1 .. Len(made) : Append(made, op)[i] = made[i]
        /\ Append(made, op)[Len(made) + 1] = op
    BY <2>1, <1>3, AppendProperties
  <2> QED
    BY <1>1, <2>1, <2>2
<1>7. /\ mapLeft' = mapLeft /\ mapLeft = MapFiles /\ editResult' = editResult
      /\ editResult = "none"
  BY DEF OpDone, EditInv, EditOrder, Running
<1>8. /\ MapFiles' = MapFiles /\ OpSet' = OpSet /\ editCase' = editCase
  BY DEF MapFiles, OpSet, MapEdit
<1>9. EditValues'
  <2>1. /\ editCase \in EditCases /\ mapLeft \subseteq MapFiles
    BY DEF EditInv, EditValues
  <2>2. Len(opsLeft') <= Len(editCase.ops)
    BY <1>1, <1>2, <1>5
  <2> QED
    BY <1>1, <1>5, <1>6, <1>7, <1>8, <2>1, <2>2 DEF EditValues
<1>10. EditOrder'
  <2>1. ASSUME NEW i \in 1 .. l - 1
        PROVE  opsLeft'[i] = editCase.ops[n - (l - 1) + i]
    <3>1. i + 1 \in 1 .. l /\ n - l + (i + 1) = n - (l - 1) + i
      OBVIOUS
    <3>2. opsLeft[i + 1] = editCase.ops[n - l + (i + 1)]
      BY <1>1, <3>1 DEF EditInv, EditOrder
    <3> QED
      BY <1>5, <3>1, <3>2
  <2>2. ASSUME NEW i \in 1 .. m + 1, i <= n
        PROVE  made'[i] = editCase.ops[i]
    <3>1. CASE i <= m
      <4>1. i \in 1 .. m
        BY <3>1
      <4> QED
        BY <1>1, <1>6, <2>2, <3>1, <4>1 DEF EditInv, EditOrder
    <3>2. CASE ~(i <= m)
      <4>1. i = m + 1
        BY <3>2
      <4> QED
        BY <1>4, <1>6, <3>2, <4>1
    <3> QED
      BY <3>1, <3>2
  <2>3. IsFiniteSet(MapFiles) /\ Cardinality(MapFiles) \in Nat
    BY CaseOps, FS_CardinalityType DEF MapFiles, EditInv, EditValues
  <2>4. opsLeft' = << >> => l - 1 = 0
    BY <1>5
  <2>5. opsLeft' # << >> => m + 1 = n - (l - 1) /\ mapLeft' = MapFiles
    BY <1>2, <1>7
  <2>6. opsLeft' = << >> => m + 1 = n + Cardinality(MapFiles) - Cardinality(mapLeft')
    BY <1>2, <1>7, <2>3, <2>4
  <2>7. editResult' # "ok"
    BY <1>7
  <2> QED
    BY <1>1, <1>5, <1>6, <1>8, <2>1, <2>2, <2>5, <2>6, <2>7 DEF EditOrder
<1> QED
  BY <1>9, <1>10 DEF EditInv

\* Steps that make no change.
LEMMA NoChange ==
  ASSUME EditInv, UNCHANGED <<editCase, opsLeft, mapLeft, made>>, DOMAIN disk' = File,
         editResult' \in {"none", "ok", "error"},
         editResult' = "ok" => opsLeft = << >> /\ mapLeft = {},
         loaded' # Absent => loaded'.op \in EditTargets /\ loaded'.op.file \in Allowed
  PROVE  EditInv'
<1>1. /\ MapFiles' = MapFiles /\ OpSet' = OpSet /\ EditTargets' = EditTargets
  BY DEF MapFiles, OpSet, MapEdit, EditTargets
<1>2. EditValues'
  BY <1>1 DEF EditInv, EditValues
<1>3. EditOrder'
  BY <1>1 DEF EditInv, EditOrder
<1> QED
  BY <1>2, <1>3 DEF EditInv

\* A file of the map is edited.
LEMMA NextFile ==
  ASSUME EditInv, opsLeft = << >>, NEW f \in mapLeft, UNCHANGED <<editCase, opsLeft>>,
         made' = Append(made, MapEdit(f)), mapLeft' = mapLeft \ {f},
         loaded' = Absent, DOMAIN disk' = File, Running, editResult' = editResult
  PROVE  EditInv'
<1>1. PICK n \in Nat, m \in Nat, T \in {OpSet}, op \in {MapEdit(f)} :
        /\ n = Len(editCase.ops) /\ m = Len(made) /\ T = OpSet /\ op = MapEdit(f)
        /\ DOMAIN made = 1 .. m
  <2>1. editCase.ops \in Seq(ToSet(editCase.ops))
    BY CaseOps DEF EditInv, EditValues
  <2>2. Len(editCase.ops) \in Nat
    BY <2>1, LenProperties
  <2> QED
    BY <2>2, LenProperties DEF EditInv, EditValues
<1>2. op \in T
  BY <1>1 DEF OpSet, EditInv, EditValues
<1>3. /\ made' \in Seq(T) /\ Len(made') = m + 1
      /\ \A i \in 1 .. m + 1 : made'[i] = IF i <= m THEN made[i] ELSE op
  <2>1. made' = Append(made, op) /\ made \in Seq(T)
    BY <1>1 DEF EditInv, EditValues
  <2>2. /\ Append(made, op) \in Seq(T) /\ Len(Append(made, op)) = Len(made) + 1
        /\ \A i \in 1 .. Len(made) : Append(made, op)[i] = made[i]
        /\ Append(made, op)[Len(made) + 1] = op
    BY <2>1, <1>2, AppendProperties
  <2> QED
    BY <1>1, <2>1, <2>2
<1>4. /\ MapFiles' = MapFiles /\ OpSet' = OpSet /\ editCase' = editCase
      /\ opsLeft' = opsLeft /\ editResult' = "none"
  BY DEF MapFiles, OpSet, MapEdit, Running
<1>5. /\ IsFiniteSet(MapFiles) /\ Cardinality(MapFiles) \in Nat
      /\ IsFiniteSet(mapLeft) /\ Cardinality(mapLeft) \in Nat
      /\ Cardinality(mapLeft \ {f}) = Cardinality(mapLeft) - 1
      /\ Cardinality(mapLeft) <= Cardinality(MapFiles)
  <2>1. IsFiniteSet(MapFiles) /\ mapLeft \subseteq MapFiles
    BY CaseOps DEF MapFiles, EditInv, EditValues
  <2>2. IsFiniteSet(mapLeft) /\ Cardinality(mapLeft) <= Cardinality(MapFiles)
    BY <2>1, FS_Subset
  <2>3. Cardinality(mapLeft \ {f}) = Cardinality(mapLeft) - 1
    BY <2>2, FS_RemoveElement
  <2> QED
    BY <2>1, <2>2, <2>3, FS_CardinalityType
<1>6. m = n + Cardinality(MapFiles) - Cardinality(mapLeft)
  BY <1>1 DEF EditInv, EditOrder
<1>7. EditValues'
  BY <1>1, <1>3, <1>4 DEF EditInv, EditValues
<1>8. EditOrder'
  <2>1. ASSUME NEW i \in 1 .. m + 1, i <= n
        PROVE  made'[i] = editCase.ops[i]
    <3>1. i <= m /\ i \in 1 .. m
      BY <1>5, <1>6, <2>1
    <3> QED
      BY <1>1, <1>3, <2>1, <3>1 DEF EditInv, EditOrder
  <2>2. m + 1 = n + Cardinality(MapFiles) - Cardinality(mapLeft')
    BY <1>5, <1>6
  <2>3. \A i \in 1 .. Len(opsLeft) :
          opsLeft[i] = editCase.ops[Len(editCase.ops) - Len(opsLeft) + i]
    BY DEF EditInv, EditOrder
  <2> QED
    BY <1>1, <1>3, <1>4, <2>1, <2>2, <2>3 DEF EditOrder
<1> QED
  BY <1>7, <1>8 DEF EditInv

LEMMA NextEdits == EditInv /\ (EditNext \/ UNCHANGED editVars) => EditInv'
<1> SUFFICES ASSUME EditInv, EditNext \/ UNCHANGED editVars
             PROVE  EditInv'
  OBVIOUS
<1>0. /\ DOMAIN disk = File /\ editResult \in {"none", "ok", "error"}
      /\ editResult = "ok" => opsLeft = << >> /\ mapLeft = {}
      /\ loaded # Absent => loaded.op \in EditTargets /\ loaded.op.file \in Allowed
  BY DEF EditInv, EditValues, EditOrder
<1>1. CASE FileOp
  <2>1. DOMAIN disk' = File
    BY <1>0, <1>1 DEF FileOp
  <2>2. loaded = Absent /\ loaded' = loaded /\ editCase' = editCase
    BY <1>1 DEF FileOp
  <2>3. CASE OpDone
    BY <1>1, <2>1, <2>2, <2>3, NextOp DEF FileOp
  <2>4. CASE EditFails
    BY <2>1, <2>2, <2>4, NoChange DEF EditFails
  <2> QED
    BY <1>1, <2>3, <2>4 DEF FileOp
<1>2. CASE SkipOp
  BY <1>0, <1>2, NextOp DEF SkipOp
<1>3. CASE ReadFile
  <2>1. UNCHANGED <<editCase, disk, opsLeft, mapLeft, made>>
    BY <1>3 DEF ReadFile, EditFails
  <2>2. editResult' \in {"none", "ok", "error"} /\ editResult' # "ok"
    BY <1>3 DEF ReadFile, EditFails, Running
  <2>3. loaded' # Absent => loaded'.op \in EditTargets /\ loaded'.op.file \in Allowed
    <3>1. CASE UNCHANGED loaded
      BY <1>0, <3>1
    <3>2. CASE ~UNCHANGED loaded
      <4>1. PICK op \in EditTargets :
              op.file \in Allowed /\ loaded' = [op |-> op, lines |-> disk[op.file]]
        BY <1>3, <3>2 DEF ReadFile
      <4> QED
        BY <4>1
    <3> QED
      BY <3>1, <3>2
  <2> QED
    BY <1>0, <2>1, <2>2, <2>3, NoChange
<1>4. CASE WriteFile
  <2>1. /\ Running /\ loaded # Absent /\ loaded' = Absent /\ editCase' = editCase
    BY <1>4 DEF WriteFile
  <2>2. DOMAIN disk' = File
    BY <1>0, <1>4 DEF WriteFile
  <2>3. CASE EditFails
    BY <2>1, <2>2, <2>3, NoChange DEF EditFails
  <2>4. CASE ~EditFails
    <3>1. PICK op : op = loaded.op /\ op \in EditTargets
      BY <1>0, <2>1
    <3>2. /\ made' = Append(made, op) /\ editResult' = editResult
          /\ IF opsLeft # << >> THEN opsLeft' = Tail(opsLeft) /\ UNCHANGED mapLeft
             ELSE mapLeft' = mapLeft \ {op.file} /\ UNCHANGED opsLeft
      BY <1>4, <2>4, <3>1 DEF WriteFile
    <3>3. CASE opsLeft # << >>
      <4>1. op = Head(opsLeft)
        BY <3>1, <3>3 DEF EditTargets
      <4>2. OpDone
        BY <3>2, <3>3, <4>1 DEF OpDone
      <4> QED
        BY <2>1, <2>2, <3>3, <4>2, NextOp
    <3>4. CASE opsLeft = << >>
      <4>1. PICK f \in mapLeft : op = MapEdit(f)
        BY <3>1, <3>4 DEF EditTargets, MapEdit
      <4>2. op.file = f
        BY <4>1 DEF MapEdit
      <4>3. mapLeft' = mapLeft \ {f} /\ UNCHANGED <<editCase, opsLeft>>
        BY <2>1, <3>2, <3>4, <4>2
      <4> QED
        BY <2>1, <2>2, <3>2, <3>4, <4>1, <4>3, NextFile
    <3> QED
      BY <3>3, <3>4
  <2> QED
    BY <2>3, <2>4
<1>5. CASE EditReturns
  BY <1>0, <1>5, NoChange DEF EditReturns
<1>6. CASE UNCHANGED editVars
  <2>1. EditTargets' = EditTargets
    BY <1>6 DEF EditTargets, editVars
  <2> QED
    BY <1>0, <1>6, <2>1, NoChange DEF editVars
<1> QED
  BY <1>1, <1>2, <1>3, <1>4, <1>5, <1>6 DEF EditNext

LEMMA EditsHold == EditInv => EditTypeOK /\ MadeInOrder
<1> SUFFICES ASSUME EditInv PROVE EditTypeOK /\ MadeInOrder
  OBVIOUS
<1>1. EditTypeOK
  BY DEF EditInv, EditValues, EditTypeOK, MapFiles
<1>2. PICK n \in Nat, m \in Nat, T \in {OpSet} :
        /\ n = Len(editCase.ops) /\ m = Len(made)
        /\ DOMAIN editCase.ops = 1 .. n /\ DOMAIN made = 1 .. m
  <2>1. editCase.ops \in Seq(ToSet(editCase.ops))
    BY CaseOps DEF EditInv, EditValues
  <2>2. Len(editCase.ops) \in Nat /\ DOMAIN editCase.ops = 1 .. Len(editCase.ops)
    BY <2>1, LenProperties
  <2> QED
    BY <2>2, LenProperties DEF EditInv, EditValues
<1>3. \A i \in 1 .. m : i <= n => made[i] = editCase.ops[i]
  BY <1>2 DEF EditInv, EditOrder
<1>4. ASSUME editResult = "ok"
      PROVE  m = n + Cardinality(MapFiles) /\ SubSeq(made, 1, n) = editCase.ops
  <2>1. m = n + Cardinality(MapFiles) - Cardinality(mapLeft) /\ mapLeft = {}
    BY <1>2, <1>4 DEF EditInv, EditOrder
  <2>2. IsFiniteSet(MapFiles) /\ Cardinality(MapFiles) \in Nat
    BY CaseOps, FS_CardinalityType DEF MapFiles, EditInv, EditValues
  <2>3. m = n + Cardinality(MapFiles) /\ n <= m
    BY <2>1, <2>2, FS_EmptySet
  <2>4. /\ SubSeq(made, 0 + 1, n) \in Seq(T)
        /\ Len(SubSeq(made, 0 + 1, n)) = IF 0 <= n THEN n - 0 ELSE 0
        /\ \A i \in 1 .. n - 0 : SubSeq(made, 0 + 1, n)[i] = made[0 + i]
    <3>1. made \in Seq(T) /\ n <= Len(made) /\ 0 \in Nat
      BY <1>2, <2>3 DEF EditInv, EditValues
    <3> QED
      BY <3>1, PartOf
  <2>5. PICK s : s = SubSeq(made, 0 + 1, n)
    OBVIOUS
  <2>6. s \in Seq(T) /\ Len(s) = n /\ \A i \in 1 .. n : s[i] = made[i]
    BY <2>4, <2>5
  <2>7. editCase.ops \in Seq(T)
    <3>1. editCase.ops \in Seq(ToSet(editCase.ops)) /\ ToSet(editCase.ops) \subseteq T
      BY CaseOps DEF EditInv, EditValues, OpSet
    <3> QED
      BY <3>1, SeqMonotonic
  <2>8. \A i \in 1 .. n : s[i] = editCase.ops[i]
    BY <1>3, <2>3, <2>6
  <2>9. s = editCase.ops
    BY <1>2, <2>6, <2>7, <2>8, SeqEqual
  <2> QED
    BY <2>3, <2>5, <2>9
<1> QED
  BY <1>1, <1>2, <1>3, <1>4 DEF MadeInOrder, MapFiles

-----------------------------------------------------------------------------
(* The types. *)

\* The inductive invariants imply the types.
LEMMA CallTypes == CallInv => CallTypeOK
<1> SUFFICES ASSUME CallInv PROVE CallTypeOK
  OBVIOUS
<1>1. CallValues /\ CallLength
  BY DEF CallInv
<1>2. /\ \A i \in DOMAIN came : came[i] \in Came
      /\ \A i \in DOMAIN pending : pending[i] \in DOMAIN Bridge
  BY <1>1 DEF CallValues
<1>3. \A e \in Came : e.answer \in {"value", "empty", "nil", "error", "sent"}
  BY DEF Came
<1>4. Len(came) <= 1 + 2 * MaxItems
  BY <1>1 DEF CallLength
<1>5. linkUp \in BOOLEAN
  BY <1>1 DEF CallValues
<1> QED
  BY <1>1, <1>2, <1>3, <1>4, <1>5, Zenon DEF CallValues, CallTypeOK, Starting, Serving

LEMMA ParallelTypes == ParInv => ParTypeOK
<1> SUFFICES ASSUME ParInv PROVE ParTypeOK
  OBVIOUS
<1>1. ParValues
  BY DEF ParInv
<1>2. ASSUME NEW r \in ToSet(channel) \cup ToSet(gathered) PROVE r \in ParResult
  <2>1. \/ \E i \in DOMAIN channel : r = channel[i]
        \/ \E i \in DOMAIN gathered : r = gathered[i]
    BY <1>2 DEF ToSet
  <2> QED
    BY <1>1, <2>1, ResultKeys
<1>3. \A r \in ToSet(channel) \cup ToSet(gathered) : r.key \in Language /\ r.answer \in Answers
  BY <1>2 DEF ParResult
<1> QED
  BY <1>1, <1>3 DEF ParValues, ParTypeOK

LEMMA PageTypes == PageInv => PageTypeOK
<1> SUFFICES ASSUME PageInv PROVE PageTypeOK
  OBVIOUS
<1>1. PageValues /\ PageStages
  BY DEF PageInv, PageShape
<1>2. ToSet(pgSources) \subseteq DOMAIN pgCase.lists
  BY <1>1 DEF PageValues, ToSet
<1> QED
  BY <1>1, <1>2 DEF PageValues, PageStages, PageTypeOK

LEMMA ContextTypes == CtxInv => CtxTypeOK
<1> SUFFICES ASSUME CtxInv PROVE CtxTypeOK
  OBVIOUS
<1>1. CtxValues
  BY DEF CtxInv
<1>2. ASSUME NEW c \in CtxCaller
      PROVE  /\ ctxCall[c].pc \in {"idle", "try", "suggest", "store", "found", "missing"}
             /\ ctxCall[c].found \subseteq Entries
             /\ ctxCall[c].suggests \subseteq [dir : PatternDirs, count : Nat]
  <2>1. ctxCall[c] \in CtxQuery
    BY <1>1 DEF CtxValues
  <2>2. /\ ctxCall[c].pc \in {"idle", "try", "suggest", "store", "found", "missing"}
        /\ ctxCall[c].found \in EntrySets /\ ctxCall[c].suggests \in SuggestSets
    BY <2>1 DEF CtxQuery
  <2>3. \A S \in SuggestSets : S \subseteq [dir : PatternDirs, count : Nat]
    BY DEF SuggestSets
  <2> QED
    BY <2>2, <2>3 DEF EntrySets
<1> QED
  BY <1>1, <1>2 DEF CtxValues, CtxTypeOK

LEMMA AnalysisTypes == AnInv => AnTypeOK
<1> SUFFICES ASSUME AnInv PROVE AnTypeOK
  OBVIOUS
<1>1. AnValues
  BY DEF AnInv
<1>2. /\ DOMAIN anTask = Tasks(anRequest.kind)
      /\ \A t \in DOMAIN anTask :
           anTask[t].pc \in {"new", "append", "done"} /\ anTask[t].read \in Nat
  BY <1>1 DEF AnValues, TaskState
<1> QED
  BY <1>1, <1>2 DEF AnValues, AnTypeOK

LEMMA CacheTypes == CacheInv => CacheTypeOK
<1> SUFFICES ASSUME CacheInv PROVE CacheTypeOK
  OBVIOUS
<1>1. CacheItems /\ statsSize = Cardinality(DOMAIN items)
  BY DEF CacheInv, CacheSize
<1>2. statsSize \in Nat
  BY <1>1, KeysFinite DEF CacheItems
<1>3. /\ \A k \in DOMAIN items : items[k] \in Item
      /\ \A k \in DOMAIN noted : noted[k] \in Item
  BY <1>1 DEF CacheItems
<1> QED
  BY <1>1, <1>2, <1>3 DEF CacheItems, CacheTypeOK

\* The tools: for all values of the constants, every variable has its type.
THEOREM ToolsTypeCorrect == ToolsSpec => []ToolsTypeOK
<1> DEFINE Inv == CallInv /\ ParInv /\ PageInv /\ EditInv /\ PathInv /\ CtxInv /\ AnInv
                    /\ CacheInv
<1>1. ToolsInit => Inv /\ GraphInit
  BY InitCall, InitParallel, InitPages, InitEdits, InitNames, InitContext,
     InitAnalysis, InitCache DEF ToolsInit
<1>2. [ToolsNext]_vars => [GraphNext]_graphVars
  BY DEF ToolsNext, Rest, vars
<1>3. Inv /\ [ToolsNext]_vars => Inv'
  <2> SUFFICES ASSUME Inv, [ToolsNext]_vars PROVE Inv'
    OBVIOUS
  <2>1. [CallNext]_toolVars /\ [ParNext]_parVars
    BY DEF ToolsNext, Rest, vars
  <2>2. (PageNext \/ UNCHANGED pageVars) /\ (EditNext \/ UNCHANGED editVars)
    BY DEF ToolsNext, Rest, vars
  <2>3. (PathNext \/ UNCHANGED pathVars) /\ (CtxNext \/ UNCHANGED ctxVars)
    BY DEF ToolsNext, Rest, vars
  <2>4. [AnNext]_anVars /\ [CacheNext]_cacheVars
    BY DEF ToolsNext, Rest, vars
  <2>5. CallInv' /\ ParInv'
    BY <2>1, NextCall, NextParallel
  <2>6. PageInv' /\ EditInv'
    BY <2>2, NextPages, NextEdits
  <2>7. PathInv' /\ CtxInv'
    BY <2>3, NextNames, NextContext
  <2>8. AnInv' /\ CacheInv'
    BY <2>4, NextAnalysis, NextCache
  <2> QED
    BY <2>5, <2>6, <2>7, <2>8
<1>4. Inv => /\ CallTypeOK /\ ParTypeOK /\ PageTypeOK /\ EditTypeOK /\ PathTypeOK
             /\ CtxTypeOK /\ AnTypeOK /\ CacheTypeOK
  BY CallTypes, ParallelTypes, PageTypes, EditsHold, NameTypes, ContextTypes,
     AnalysisTypes, CacheTypes
<1>5. Inv /\ GraphTypeOK => ToolsTypeOK
  BY <1>4 DEF ToolsTypeOK
<1> HIDE DEF Inv
<1>6. ToolsSpec => []Inv
  BY <1>1, <1>3, PTL DEF ToolsSpec
<1>7. ToolsSpec => GraphSpec
  BY <1>1, <1>2, PTL DEF ToolsSpec, GraphSpec
<1> QED
  BY <1>5, <1>6, <1>7, GraphTypeCorrect, PTL

\* bridge.go: for any edits and however the calls fail, document changes are
\* made in their order, and when the bridge reports success each change, and
\* each file of the map, was made once.
THEOREM EditsInOrder == ToolsSpec => []MadeInOrder
<1>1. ToolsInit => EditInv
  BY InitEdits DEF ToolsInit
<1>2. EditInv /\ [ToolsNext]_vars => EditInv'
  <2>1. [ToolsNext]_vars => EditNext \/ UNCHANGED editVars
    BY DEF ToolsNext, Rest, vars
  <2> QED
    BY <2>1, NextEdits
<1>3. EditInv => MadeInOrder
  BY EditsHold
<1> QED
  BY <1>1, <1>2, <1>3, PTL DEF ToolsSpec

=============================================================================
