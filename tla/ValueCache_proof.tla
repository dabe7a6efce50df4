-------------------------- MODULE ValueCache_proof --------------------------
(***************************************************************************)
(* Theorems about ValueCache, for any number of threads, vectors, blocks   *)
(* and Values, any size of the caches, with and without threads and with   *)
(* allocations that fail.  The inductive invariant is the conjunction of   *)
(* TypeOK, NoAlias and BlocksExact.                                        *)
(***************************************************************************)
EXTENDS ValueCache, SequenceTheorems, TLAPS

KeyNames == {"values", "exceptions"}

\* TypeOK in two halves: the keys, and the memory.
KeysOK ==
  /\ keys \in [KeyNames -> Slot \cup {0}]
  /\ slots \subseteq {keys["values"], keys["exceptions"]} \ {0}
  /\ specific \in [Threads -> [Slot -> {"nothing", "values", "exceptions"}]]

CachesOK ==
  /\ cache \in [Threads -> Seq(Entry)]
  /\ \A t \in Threads : Len(cache[t]) <= build.MAX_CACHE_SIZE

MemoryOK ==
  /\ DOMAIN heap \subseteq Blocks
  /\ heap \in [DOMAIN heap -> Block]
  /\ DOMAIN vectors \subseteq Vectors
  /\ vectors \in [DOMAIN vectors -> Vector]

StatusOK ==
  /\ build \in Builds
  /\ closing \subseteq Threads
  /\ status \in {"running", "aborted", "crashed", "corrupted"}

\* The type invariant by its parts.
LEMMA TypeParts == TypeOK <=> KeysOK /\ CachesOK /\ MemoryOK /\ StatusOK
BY DEF TypeOK, KeysOK, CachesOK, MemoryOK, StatusOK, KeyNames

LEMMA TypePartsPrime == TypeOK' <=> KeysOK' /\ CachesOK' /\ MemoryOK' /\ StatusOK'
BY DEF TypeOK, KeysOK, CachesOK, MemoryOK, StatusOK, KeyNames

CacheInv == TypeOK /\ NoAlias /\ BlocksExact

\* What a build in Builds may be used for.
LEMMA BuildFacts ==
  ASSUME StatusOK
  PROVE  /\ build.MAX_CACHE_SIZE \in Nat
         /\ build.threads \subseteq Threads
         /\ build.blocks \subseteq Blocks
         /\ build.vectors \subseteq Vectors
         /\ build.threadSafe \in BOOLEAN
BY ConstantsAssumption DEF StatusOK

-----------------------------------------------------------------------------
(* The keys.                                                               *)

\* With at most one slot in use, the lowest free one exists.
LEMMA FreeSlot ==
  ASSUME NEW x, NEW used \in SUBSET {x}
  PROVE  (CHOOSE k \in Slot \ used : \A l \in Slot \ used : k <= l) \in Slot \ used
<1>1. \A k, l \in used : k = l
  OBVIOUS
<1>2. 1 \in Slot /\ 2 \in Slot /\ \A k \in Slot : k = 1 \/ k = 2
  BY DEF Slot
<1>3. \E k \in Slot \ used : \A l \in Slot \ used : k <= l
  <2>1. CASE 1 \in used
    BY <1>1, <1>2, <2>1
  <2>2. CASE 1 \notin used
    BY <1>2, <2>2
  <2> QED
    BY <2>1, <2>2
<1> QED
  BY <1>3

\* Creating a key once keeps the keys, as does making sure of one.
LEMMA OnceKeys ==
  ASSUME KeysOK, NEW key \in KeyNames
  PROVE  /\ Once(key).keys \in [KeyNames -> Slot \cup {0}]
         /\ Once(key).slots \subseteq
              {Once(key).keys["values"], Once(key).keys["exceptions"]} \ {0}
         /\ Once(key).keys[key] \in Slot
<1>1. CASE keys[key] # 0
  BY <1>1 DEF KeysOK, Once, KeyNames
<1>2. CASE keys[key] = 0
  <2>1. \E other \in KeyNames : other # key /\ slots \subseteq {keys[other]} \ {0}
    BY <1>2 DEF KeysOK, KeyNames
  <2>3. LowestFree \in Slot \ slots
    BY <2>1, FreeSlot DEF LowestFree
  <2>4. /\ Once(key).keys = [keys EXCEPT ![key] = LowestFree]
        /\ Once(key).slots = slots \cup {LowestFree}
    BY <1>2 DEF Once
  <2> QED
    BY <1>2, <2>3, <2>4 DEF KeysOK, KeyNames, Slot
<1> QED
  BY <1>1, <1>2

LEMMA EnsuredKeys ==
  ASSUME KeysOK, NEW t \in Threads, NEW key \in KeyNames, Ensured(t, key)
  PROVE  KeysOK'
<1>1. /\ keys' \in [KeyNames -> Slot \cup {0}]
      /\ slots' \subseteq {keys'["values"], keys'["exceptions"]} \ {0}
  BY OnceKeys DEF Ensured
<1>2. specific' \in [Threads -> [Slot -> {"nothing", "values", "exceptions"}]]
  BY OnceKeys DEF Ensured, KeysOK, KeyNames
<1> QED
  BY <1>1, <1>2 DEF KeysOK

-----------------------------------------------------------------------------
(* Sequences of entries.                                                   *)

\* The entry c[j] of a cache was c[From(c, i, j)] before entry i was taken.
From(c, i, j) == IF j = i THEN Len(c) ELSE j

\* An array taken out of a cache is replaced by the last entry.
LEMMA TakenIs ==
  ASSUME NEW c \in Seq(Entry), NEW i \in DOMAIN c
  PROVE  /\ Taken(c, i) \in Seq(Entry)
         /\ Len(Taken(c, i)) = Len(c) - 1
         /\ \A j \in 1..Len(c) - 1 : Taken(c, i)[j] = c[From(c, i, j)]
<1> DEFINE d == [c EXCEPT ![i] = Last(c)]
<1>1. DOMAIN c = 1..Len(c) /\ Len(c) \in Nat /\ Len(c) >= 1
  OBVIOUS
<1>2. Last(c) = c[Len(c)] /\ Last(c) \in Entry
  BY <1>1 DEF Last
<1>3. d \in Seq(Entry) /\ Len(d) = Len(c)
  BY <1>2, ExceptSeq
<1>4. \A j \in 1..Len(c) : d[j] = IF j = i THEN Last(c) ELSE c[j]
  BY <1>1
<1> HIDE DEF d
<1>5. /\ SubSeq(d, 1, Len(c) - 1) \in Seq(Entry)
      /\ Len(SubSeq(d, 1, Len(c) - 1)) = Len(c) - 1
      /\ \A j \in 1..Len(c) - 1 : SubSeq(d, 1, Len(c) - 1)[j] = d[j]
  BY <1>1, <1>3, SubSeqProperties
<1>6. Taken(c, i) = SubSeq(d, 1, Len(c) - 1)
  BY DEF Taken, d
<1> QED
  BY <1>1, <1>2, <1>4, <1>5, <1>6 DEF From

TakesEntry(t, i) == cache' = [cache EXCEPT ![t] = Taken(@, i)]
StoresEntry(t, p, size) == cache' = [cache EXCEPT ![t] = Stored(@, p, size)]

\* The caches after an entry of one of them was taken.
LEMMA TakenEntries ==
  ASSUME CachesOK, StatusOK, build' = build, NEW t \in Threads, NEW i \in DOMAIN cache[t],
         TakesEntry(t, i)
  PROVE  /\ CachesOK'
         /\ \A u \in Threads \ {t} : cache'[u] = cache[u]
         /\ \A j \in DOMAIN cache'[t] :
              /\ From(cache[t], i, j) \in DOMAIN cache[t] \ {i}
              /\ cache'[t][j] = cache[t][From(cache[t], i, j)]
         /\ \A j, k \in DOMAIN cache'[t] :
              From(cache[t], i, j) = From(cache[t], i, k) => j = k
<1>1. cache[t] \in Seq(Entry) /\ Len(cache[t]) \in Nat /\ DOMAIN cache[t] = 1..Len(cache[t])
  BY DEF CachesOK
<1>2. cache'[t] = Taken(cache[t], i) /\ \A u \in Threads \ {t} : cache'[u] = cache[u]
  BY DEF CachesOK, TakesEntry
<1>3. /\ cache'[t] \in Seq(Entry)
      /\ Len(cache'[t]) = Len(cache[t]) - 1
      /\ \A j \in 1..Len(cache[t]) - 1 : cache'[t][j] = cache[t][From(cache[t], i, j)]
  BY <1>1, <1>2, TakenIs
<1>4. DOMAIN cache'[t] = 1..Len(cache[t]) - 1
  BY <1>3
<1>5. CachesOK'
  <2>1. cache' \in [Threads -> Seq(Entry)]
    BY <1>2, <1>3 DEF CachesOK, TakesEntry
  <2>2. \A u \in Threads : Len(cache'[u]) <= build.MAX_CACHE_SIZE
    BY <1>1, <1>2, <1>3, BuildFacts DEF CachesOK
  <2> QED
    BY <2>1, <2>2 DEF CachesOK
<1> QED
  BY <1>1, <1>2, <1>3, <1>4, <1>5 DEF From

\* The caches after an array was added to one of them.
LEMMA StoredEntries ==
  ASSUME CachesOK, StatusOK, build' = build, NEW t \in Threads, HasRoom(cache[t]),
         NEW p \in Blocks \cup {NULL}, NEW size \in Lengths,
         StoresEntry(t, p, size)
  PROVE  /\ CachesOK'
         /\ \A u \in Threads \ {t} : cache'[u] = cache[u]
         /\ DOMAIN cache[t] = 1..Len(cache[t]) /\ Len(cache[t]) \in Nat
         /\ DOMAIN cache'[t] = 1..Len(cache[t]) + 1
         /\ \A j \in DOMAIN cache[t] : cache'[t][j] = cache[t][j]
         /\ cache'[t][Len(cache[t]) + 1] = [p |-> p, size |-> size]
<1>1. cache[t] \in Seq(Entry) /\ Len(cache[t]) \in Nat /\ DOMAIN cache[t] = 1..Len(cache[t])
  BY DEF CachesOK
<1>2. [p |-> p, size |-> size] \in Entry
  BY DEF Entry
<1>3. cache'[t] = Append(cache[t], [p |-> p, size |-> size])
      /\ \A u \in Threads \ {t} : cache'[u] = cache[u]
  BY DEF CachesOK, StoresEntry, Stored
<1>4. /\ cache'[t] \in Seq(Entry)
      /\ Len(cache'[t]) = Len(cache[t]) + 1
      /\ \A j \in 1..Len(cache[t]) : cache'[t][j] = cache[t][j]
      /\ cache'[t][Len(cache[t]) + 1] = [p |-> p, size |-> size]
  <2> DEFINE c == cache[t]
             e == [p |-> p, size |-> size]
  <2>1. c \in Seq(Entry) /\ e \in Entry /\ cache'[t] = Append(c, e)
    BY <1>1, <1>2, <1>3
  <2> HIDE DEF c, e
  <2>2. /\ Append(c, e) \in Seq(Entry)
        /\ Len(Append(c, e)) = Len(c) + 1
        /\ \A j \in 1..Len(c) : Append(c, e)[j] = c[j]
        /\ Append(c, e)[Len(c) + 1] = e
    BY <2>1, AppendProperties
  <2> QED
    BY <2>1, <2>2 DEF c, e
<1>5. CachesOK'
  <2>1. cache' \in [Threads -> Seq(Entry)]
    BY <1>3, <1>4 DEF CachesOK, StoresEntry
  <2>2. \A u \in Threads : Len(cache'[u]) <= build.MAX_CACHE_SIZE
    BY <1>1, <1>3, <1>4, BuildFacts DEF CachesOK, HasRoom
  <2> QED
    BY <2>1, <2>2 DEF CachesOK
<1>6. DOMAIN cache'[t] = 1..Len(cache[t]) + 1
  BY <1>4
<1>7. \A u \in Threads \ {t} : cache'[u] = cache[u]
  BY <1>3
<1>8. \A j \in DOMAIN cache[t] : cache'[t][j] = cache[t][j]
  BY <1>1, <1>4
<1> QED
  BY <1>1, <1>4, <1>5, <1>6, <1>7, <1>8, Zenon

-----------------------------------------------------------------------------
(* Owners of arrays.                                                       *)

\* The caches lose entries, and those of the array p among them.
CachesLose(p) ==
  /\ \A t \in Threads : \A i \in DOMAIN cache'[t] :
       /\ \E j \in DOMAIN cache[t] : cache'[t][i] = cache[t][j]
       /\ cache'[t][i].p = p => p = NULL
  /\ \A t \in Threads : \A i, j \in DOMAIN cache'[t] :
       cache'[t][i].p = cache'[t][j].p => i = j \/ cache'[t][i].p = NULL

\* The vectors lose some, and those of the array p among them, but for v.
VectorsLose(v, p) ==
  \A w \in DOMAIN vectors' \ {v} :
    /\ w \in DOMAIN vectors
    /\ vectors'[w] = vectors[w]
    /\ vectors[w].p = p => p = NULL

\* The block p becomes q, or is lost; q = NULL stands for no block.
HeapMoves(p, q) ==
  /\ DOMAIN heap \ {p} \subseteq DOMAIN heap'
  /\ \A r \in DOMAIN heap' \ {q} : r \in DOMAIN heap /\ heap'[r] = heap[r]
  /\ q # NULL => q \in DOMAIN heap' /\ (q = p \/ q \notin DOMAIN heap)
  /\ q # NULL => \A i \in heap'[q].dirty : i < heap'[q].init

\* The vector v has the array q from now on.
Gets(v, q, want, got) ==
  /\ v \in DOMAIN vectors' => vectors'[v] = NewVector(q, want, got)
  /\ got = IF q = NULL THEN 0 ELSE heap'[q].init
  /\ q # NULL => want <= got

\* What was left of the owners still owns, and v owns q alone.
LEMMA OwnersMove ==
  ASSUME NoAlias, BlocksExact, NULL \notin DOMAIN heap, NULL \notin DOMAIN heap',
         NEW p, NEW q, NEW v, NEW want, NEW got,
         CachesLose(p), VectorsLose(v, p), HeapMoves(p, q), Gets(v, q, want, got)
  PROVE  NoAlias' /\ BlocksExact'
<1>1. ASSUME NEW r \in DOMAIN heap, r # p
      PROVE  r \in DOMAIN heap' /\ r # q /\ heap'[r] = heap[r]
  BY <1>1 DEF HeapMoves
<1>2. ASSUME NEW r \in DOMAIN heap \cup {NULL}, r = p => p = NULL
      PROVE  /\ r \in DOMAIN heap' \cup {NULL}
             /\ r = q => r = NULL
             /\ Initialised(heap', r) = Initialised(heap, r)
  <2>1. CASE r = NULL
    BY <2>1 DEF Initialised
  <2>2. CASE r # NULL
    BY <1>1, <1>2, <2>2 DEF Initialised
  <2> QED
    BY <2>1, <2>2
<1>3. ASSUME NEW t \in Threads, NEW i \in DOMAIN cache'[t]
      PROVE  /\ cache'[t][i].p \in DOMAIN heap \cup {NULL}
             /\ cache'[t][i].p \in DOMAIN heap' \cup {NULL}
             /\ cache'[t][i].p = q => cache'[t][i].p = NULL
             /\ cache'[t][i].size = Initialised(heap', cache'[t][i].p)
  <2>1. PICK j \in DOMAIN cache[t] : cache'[t][i] = cache[t][j]
    BY DEF CachesLose
  <2>2. cache'[t][i].p = p => p = NULL
    BY DEF CachesLose
  <2>3. cache[t][j].p \in DOMAIN heap \cup {NULL}
    BY DEF NoAlias
  <2>4. cache[t][j].size = Initialised(heap, cache[t][j].p)
    BY DEF BlocksExact
  <2> QED
    BY <1>2, <2>1, <2>2, <2>3, <2>4
<1>4. ASSUME NEW w \in DOMAIN vectors', w # v
      PROVE  /\ vectors'[w].p \in DOMAIN heap' \cup {NULL}
             /\ vectors'[w].p = q => vectors'[w].p = NULL
             /\ vectors'[w].p_Init_size = Initialised(heap', vectors'[w].p)
             /\ vectors'[w].p # NULL => vectors'[w].Size <= vectors'[w].p_Init_size
             /\ w \in DOMAIN vectors /\ vectors'[w] = vectors[w]
  <2>1. w \in DOMAIN vectors /\ vectors'[w] = vectors[w] /\ (vectors[w].p = p => p = NULL)
    BY <1>4 DEF VectorsLose
  <2>2. vectors[w].p \in DOMAIN heap \cup {NULL}
    BY <2>1 DEF NoAlias
  <2>3. /\ vectors[w].p_Init_size = Initialised(heap, vectors[w].p)
        /\ vectors[w].p # NULL => vectors[w].Size <= vectors[w].p_Init_size
    BY <2>1 DEF BlocksExact
  <2> QED
    BY <1>2, <2>1, <2>2, <2>3
<1>5. ASSUME v \in DOMAIN vectors'
      PROVE  /\ vectors'[v].p = q
             /\ q \in DOMAIN heap' \cup {NULL}
             /\ vectors'[v].p_Init_size = Initialised(heap', q)
             /\ q # NULL => vectors'[v].Size <= vectors'[v].p_Init_size
  <2>1. vectors'[v] = [p |-> q, Size |-> want, p_Init_size |-> got]
    BY <1>5 DEF Gets, NewVector
  <2>2. Initialised(heap', q) = got
    BY DEF Gets, HeapMoves, Initialised
  <2> QED
    BY <2>1, <2>2 DEF Gets, HeapMoves
<1>6. ASSUME NEW t \in Threads, NEW u \in Threads,
             NEW i \in DOMAIN cache'[t], NEW j \in DOMAIN cache'[u],
             cache'[t][i].p = cache'[u][j].p
      PROVE  (t = u /\ i = j) \/ cache'[t][i].p = NULL
  <2>1. CASE t = u
    BY <1>6, <2>1 DEF CachesLose
  <2>2. CASE t # u
    BY <1>6, <2>2 DEF CachesLose, NoAlias
  <2> QED
    BY <2>1, <2>2
<1>7. ASSUME NEW w \in DOMAIN vectors', NEW x \in DOMAIN vectors', vectors'[w].p = vectors'[x].p
      PROVE  w = x \/ vectors'[w].p = NULL
  BY <1>4, <1>5, <1>7 DEF NoAlias
<1>8. ASSUME NEW t \in Threads, NEW i \in DOMAIN cache'[t], NEW w \in DOMAIN vectors',
             cache'[t][i].p = vectors'[w].p
      PROVE  vectors'[w].p = NULL
  <2>1. CASE w = v
    BY <1>3, <1>5, <1>8, <2>1
  <2>2. CASE w # v
    BY <1>4, <1>8, <2>2 DEF CachesLose, NoAlias
  <2> QED
    BY <2>1, <2>2
<1>9. NoAlias'
  BY <1>3, <1>4, <1>5, <1>6, <1>7, <1>8 DEF NoAlias
<1>10. \A r \in DOMAIN heap' : \A i \in heap'[r].dirty : i < heap'[r].init
  BY DEF HeapMoves, BlocksExact
<1> QED
  BY <1>3, <1>4, <1>5, <1>9, <1>10 DEF BlocksExact

\* Entries and vectors may go, and blocks that no remaining owner has.
LEMMA OwnersShrink ==
  ASSUME NoAlias, BlocksExact, NULL \notin DOMAIN heap,
         \A t \in Threads : \A i \in DOMAIN cache'[t] :
           /\ i \in DOMAIN cache[t] /\ cache'[t][i] = cache[t][i]
           /\ cache[t][i].p \in DOMAIN heap => cache[t][i].p \in DOMAIN heap',
         \A w \in DOMAIN vectors' :
           /\ w \in DOMAIN vectors /\ vectors'[w] = vectors[w]
           /\ vectors[w].p \in DOMAIN heap => vectors[w].p \in DOMAIN heap',
         \A r \in DOMAIN heap' :
           /\ r \in DOMAIN heap /\ heap'[r].init = heap[r].init
           /\ \A i \in heap'[r].dirty : i < heap'[r].init
  PROVE  NoAlias' /\ BlocksExact'
<1>1. ASSUME NEW r, r \in DOMAIN heap => r \in DOMAIN heap'
      PROVE  Initialised(heap', r) = Initialised(heap, r)
  BY <1>1 DEF Initialised
<1>2. NoAlias'
  <2>1. \A t \in Threads : \A i \in DOMAIN cache'[t] : cache'[t][i].p \in DOMAIN heap' \cup {NULL}
    BY DEF NoAlias
  <2>2. \A w \in DOMAIN vectors' : vectors'[w].p \in DOMAIN heap' \cup {NULL}
    BY DEF NoAlias
  <2> QED
    BY <2>1, <2>2 DEF NoAlias
<1>3. \A t \in Threads : \A i \in DOMAIN cache'[t] :
        cache'[t][i].size = Initialised(heap', cache'[t][i].p)
  BY <1>1 DEF BlocksExact
<1>4. \A w \in DOMAIN vectors' :
        /\ vectors'[w].p_Init_size = Initialised(heap', vectors'[w].p)
        /\ vectors'[w].p # NULL => vectors'[w].Size <= vectors'[w].p_Init_size
  BY <1>1 DEF BlocksExact
<1> QED
  BY <1>2, <1>3, <1>4 DEF BlocksExact

\* The conjuncts of the invariant that the owners are about.
Parts == CachesOK /\ MemoryOK /\ StatusOK /\ NoAlias /\ BlocksExact

\* The null pointer is never a block.
LEMMA NullIsNoBlock == MemoryOK => NULL \notin DOMAIN heap
BY ConstantsAssumption DEF MemoryOK

LEMMA NullIsNoBlockPrime == MemoryOK' => NULL \notin DOMAIN heap'
BY ConstantsAssumption DEF MemoryOK

\* Adding and removing an element keeps the type of a function.
LEMMA WithType ==
  ASSUME NEW S, NEW f, f \in [DOMAIN f -> S], NEW x, NEW value \in S
  PROVE  With(f, x, value) \in [DOMAIN With(f, x, value) -> S]
BY DEF With

LEMMA WithoutType ==
  ASSUME NEW S, NEW f, f \in [DOMAIN f -> S], NEW x
  PROVE  Without(f, x) \in [DOMAIN Without(f, x) -> S]
BY DEF Without

\* A block reallocated with the length its owner recorded has zeros from there.
LEMMA GrownIs ==
  ASSUME MemoryOK, BlocksExact, NEW p, NEW want \in Lengths, Initialised(heap, p) <= want
  PROVE  /\ Grown(p, Initialised(heap, p), want) \in Block
         /\ Grown(p, Initialised(heap, p), want).init = want
         /\ \A i \in Grown(p, Initialised(heap, p), want).dirty : i < Initialised(heap, p)
         /\ p \in DOMAIN heap => Grown(p, Initialised(heap, p), want).dirty = heap[p].dirty
<1>1. CASE p \in DOMAIN heap
  <2>1. heap[p] \in Block /\ Initialised(heap, p) = heap[p].init
    BY <1>1 DEF MemoryOK, Initialised
  <2>2. Grown(p, Initialised(heap, p), want) = [init |-> want, dirty |-> heap[p].dirty]
    BY <1>1, <2>1 DEF Grown, Block, Lengths
  <2>3. \A i \in heap[p].dirty : i < heap[p].init
    BY <1>1 DEF BlocksExact
  <2> QED
    BY <2>1, <2>2, <2>3 DEF Block
<1>2. CASE p \notin DOMAIN heap
  <2>1. Grown(p, Initialised(heap, p), want) = [init |-> want, dirty |-> {}]
    BY <1>2, ConstantsAssumption DEF Grown, Initialised, Lengths
  <2> QED
    BY <1>2, <2>1 DEF Block
<1> QED
  BY <1>1, <1>2

\* realloc: the block p is gone and q has the contents block.
LEMMA Reallocated ==
  ASSUME MemoryOK, StatusOK, BlocksExact, NEW p \in Blocks \cup {NULL}, NEW q \in Fresh(p),
         NEW block \in Block, \A i \in block.dirty : i < block.init,
         heap' = With(Without(heap, p), q, block)
  PROVE  /\ HeapMoves(p, q)
         /\ q # NULL /\ q \in Blocks
         /\ heap'[q] = block
         /\ DOMAIN heap' \subseteq Blocks /\ heap' \in [DOMAIN heap' -> Block]
<1>1. q \in Blocks /\ q # NULL /\ (q = p \/ q \notin DOMAIN heap)
  BY BuildFacts, ConstantsAssumption DEF Fresh
<1>2. /\ DOMAIN heap' = (DOMAIN heap \ {p}) \cup {q}
      /\ heap'[q] = block
      /\ \A r \in DOMAIN heap' \ {q} : r \in DOMAIN heap \ {p} /\ heap'[r] = heap[r]
  BY DEF With, Without
<1>3. heap' \in [DOMAIN heap' -> Block]
  <2>1. Without(heap, p) \in [DOMAIN Without(heap, p) -> Block]
    BY WithoutType DEF MemoryOK
  <2> QED
    BY <2>1, WithType
<1>4. HeapMoves(p, q)
  BY <1>1, <1>2 DEF HeapMoves
<1> QED
  BY <1>1, <1>2, <1>3, <1>4 DEF MemoryOK

-----------------------------------------------------------------------------
(* The steps of value_alloc and value_free.                                *)

\* An entry that is taken leaves no other owner of its array behind.
LEMMA TakenLoses ==
  ASSUME Parts, build' = build, NEW t \in Threads, NEW i \in DOMAIN cache[t],
         TakesEntry(t, i)
  PROVE  CachesOK' /\ CachesLose(cache[t][i].p)
<1> DEFINE from(j) == From(cache[t], i, j)
<1>1. /\ CachesOK'
      /\ \A u \in Threads \ {t} : cache'[u] = cache[u]
      /\ \A j \in DOMAIN cache'[t] : from(j) \in DOMAIN cache[t] \ {i} /\ cache'[t][j] = cache[t][from(j)]
      /\ \A j, k \in DOMAIN cache'[t] : from(j) = from(k) => j = k
  BY TakenEntries DEF Parts
<1> HIDE DEF from
<1>2. ASSUME NEW u \in Threads, NEW j \in DOMAIN cache'[u]
      PROVE  /\ \E k \in DOMAIN cache[u] : cache'[u][j] = cache[u][k]
             /\ cache'[u][j].p = cache[t][i].p => cache[t][i].p = NULL
  <2>1. CASE u = t
    BY <1>1, <2>1 DEF Parts, NoAlias
  <2>2. CASE u # t
    BY <1>1, <2>2 DEF Parts, NoAlias
  <2> QED
    BY <2>1, <2>2
<1>3. ASSUME NEW u \in Threads, NEW j \in DOMAIN cache'[u], NEW k \in DOMAIN cache'[u],
             cache'[u][j].p = cache'[u][k].p
      PROVE  j = k \/ cache'[u][j].p = NULL
  <2>1. CASE u = t
    BY <1>1, <1>3, <2>1 DEF Parts, NoAlias
  <2>2. CASE u # t
    BY <1>1, <1>3, <2>2 DEF Parts, NoAlias
  <2> QED
    BY <2>1, <2>2
<1> QED
  BY <1>1, <1>2, <1>3 DEF CachesLose

\* A new vector: its record, the others, and none of them with a cached array.
LEMMA VectorAdded ==
  ASSUME Parts, NEW v \in Vectors \ DOMAIN vectors, NEW q \in Blocks \cup {NULL},
         NEW want \in Lengths, NEW got \in Lengths,
         vectors' = With(vectors, v, NewVector(q, want, got))
  PROVE  /\ DOMAIN vectors' \subseteq Vectors /\ vectors' \in [DOMAIN vectors' -> Vector]
         /\ vectors'[v] = NewVector(q, want, got)
         /\ \A w \in DOMAIN vectors' \ {v} : w \in DOMAIN vectors /\ vectors'[w] = vectors[w]
<1>1. NewVector(q, want, got) \in Vector
  BY DEF NewVector, Vector
<1>2. DOMAIN vectors \subseteq Vectors /\ vectors \in [DOMAIN vectors -> Vector]
  BY DEF Parts, MemoryOK
<1>3. vectors' \in [DOMAIN vectors' -> Vector]
  BY <1>1, <1>2, WithType
<1> QED
  BY <1>2, <1>3 DEF With

\* What is known of the entry that is taken.
LEMMA EntryFacts ==
  ASSUME Parts, NEW t \in Threads, NEW i \in DOMAIN cache[t]
  PROVE  /\ cache[t][i].p \in Blocks \cup {NULL}
         /\ cache[t][i].p \in DOMAIN heap \cup {NULL}
         /\ cache[t][i].size \in Lengths
         /\ cache[t][i].size = Initialised(heap, cache[t][i].p)
         /\ \A w \in DOMAIN vectors : vectors[w].p = cache[t][i].p => cache[t][i].p = NULL
<1>1. cache[t] \in Seq(Entry)
  BY DEF Parts, CachesOK
<1>2. cache[t][i] \in Entry
  BY <1>1
<1>3. cache[t][i].p \in DOMAIN heap \cup {NULL}
  BY DEF Parts, NoAlias
<1>4. cache[t][i].size = Initialised(heap, cache[t][i].p)
  BY DEF Parts, BlocksExact
<1>5. \A w \in DOMAIN vectors : vectors[w].p = cache[t][i].p => cache[t][i].p = NULL
  BY DEF Parts, NoAlias
<1> QED
  BY <1>2, <1>3, <1>4, <1>5 DEF Entry

\* Each of the three ways of value_alloc keeps the invariant.
LEMMA ReuseStep ==
  ASSUME Parts, build' = build, NEW t \in Threads, NEW v \in Vectors \ DOMAIN vectors,
         NEW want \in Lengths, Reuse(t, v, want)
  PROVE  CachesOK' /\ MemoryOK' /\ NoAlias' /\ BlocksExact'
<1>1. PICK i \in DOMAIN cache[t] :
        /\ cache[t][i].size >= want
        /\ TakesEntry(t, i)
        /\ vectors' = With(vectors, v, NewVector(cache[t][i].p, want, cache[t][i].size))
        /\ heap' = IF cache[t][i].p = NULL THEN heap
                   ELSE [heap EXCEPT ![cache[t][i].p] = Cleaned(@, want)]
  BY DEF Reuse, Fits, Got, Reused, TakesEntry
<1> DEFINE p == cache[t][i].p
           size == cache[t][i].size
<1>2. /\ p \in Blocks \cup {NULL} /\ p \in DOMAIN heap \cup {NULL} /\ size \in Lengths
      /\ size = Initialised(heap, p)
      /\ \A w \in DOMAIN vectors : vectors[w].p = p => p = NULL
  BY EntryFacts
<1>3. CachesOK' /\ CachesLose(p)
  BY <1>1, TakenLoses
<1>4. /\ vectors' = With(vectors, v, NewVector(p, want, size))
      /\ heap' = IF p = NULL THEN heap ELSE [heap EXCEPT ![p] = Cleaned(@, want)]
      /\ size >= want
  BY <1>1
<1> HIDE DEF p, size
<1>5. /\ DOMAIN vectors' \subseteq Vectors /\ vectors' \in [DOMAIN vectors' -> Vector]
      /\ vectors'[v] = NewVector(p, want, size)
      /\ \A w \in DOMAIN vectors' \ {v} : w \in DOMAIN vectors /\ vectors'[w] = vectors[w]
  BY <1>2, <1>4, VectorAdded
<1>6. /\ NULL \notin DOMAIN heap /\ heap \in [DOMAIN heap -> Block] /\ DOMAIN heap \subseteq Blocks
      /\ \A r \in DOMAIN heap : \A j \in heap[r].dirty : j < heap[r].init
  BY NullIsNoBlock DEF Parts, MemoryOK, BlocksExact
<1>7. ASSUME NEW block \in Block
      PROVE  /\ Cleaned(block, want) \in Block
             /\ Cleaned(block, want).init = block.init
             /\ Cleaned(block, want).dirty \subseteq block.dirty
  BY DEF Cleaned, Block
<1>8. /\ DOMAIN heap' = DOMAIN heap /\ heap' \in [DOMAIN heap -> Block]
      /\ \A r \in DOMAIN heap : heap'[r].init = heap[r].init /\ heap'[r].dirty \subseteq heap[r].dirty
      /\ \A r \in DOMAIN heap \ {p} : heap'[r] = heap[r]
  <2>1. CASE p = NULL
    BY <1>4, <1>6, <2>1
  <2>2. CASE p # NULL
    <3>1. p \in DOMAIN heap /\ heap' = [heap EXCEPT ![p] = Cleaned(heap[p], want)]
      BY <1>2, <1>4, <2>2
    <3>2. heap'[p] = Cleaned(heap[p], want) /\ \A r \in DOMAIN heap \ {p} : heap'[r] = heap[r]
      BY <1>6, <3>1
    <3>3. heap[p] \in Block
      BY <1>6, <3>1
    <3> QED
      BY <1>6, <1>7, <3>1, <3>2, <3>3
  <2> QED
    BY <2>1, <2>2
<1>9. MemoryOK'
  BY <1>5, <1>6, <1>8 DEF MemoryOK
<1>10. HeapMoves(p, p)
  BY <1>2, <1>6, <1>8 DEF HeapMoves
<1>11. Gets(v, p, want, size)
  BY <1>2, <1>4, <1>5, <1>6, <1>8 DEF Gets, Initialised
<1>12. VectorsLose(v, p)
  BY <1>2, <1>5 DEF VectorsLose
<1> QED
  BY <1>3, <1>6, <1>8, <1>9, <1>10, <1>11, <1>12, OwnersMove DEF Parts

\* The vector v gets the block that realloc made of the array p.
LEMMA Regrown ==
  ASSUME Parts, CachesOK',
         NEW v, NEW want \in Nat, NEW p \in Blocks \cup {NULL}, NEW q \in Fresh(p),
         CachesLose(p),
         \A w \in DOMAIN vectors : w # v /\ vectors[w].p = p => p = NULL,
         NEW block \in Block, block.init = want, \A i \in block.dirty : i < want,
         heap' = With(Without(heap, p), q, block),
         DOMAIN vectors' \subseteq Vectors /\ vectors' \in [DOMAIN vectors' -> Vector],
         vectors'[v] = NewVector(q, want, want),
         \A w \in DOMAIN vectors' \ {v} : w \in DOMAIN vectors /\ vectors'[w] = vectors[w]
  PROVE  MemoryOK' /\ NoAlias' /\ BlocksExact'
<1>1. /\ HeapMoves(p, q)
      /\ q # NULL /\ heap'[q] = block
      /\ DOMAIN heap' \subseteq Blocks /\ heap' \in [DOMAIN heap' -> Block]
  BY Reallocated DEF Parts
<1>2. MemoryOK'
  BY <1>1 DEF MemoryOK
<1>3. VectorsLose(v, p)
  BY DEF VectorsLose
<1>4. Gets(v, q, want, want)
  BY <1>1 DEF Gets
<1> QED
  BY <1>1, <1>2, <1>3, <1>4, OwnersMove, NullIsNoBlock, NullIsNoBlockPrime DEF Parts

\* The vector v gets the null pointer, or nothing, and the array p is lost.
LEMMA NothingGot ==
  ASSUME Parts, CachesOK', UNCHANGED heap, NEW p, CachesLose(p), NEW v \in Vectors \ DOMAIN vectors,
         NEW want \in Lengths,
         \A w \in DOMAIN vectors : vectors[w].p = p => p = NULL,
         vectors' = vectors \/ vectors' = With(vectors, v, NewVector(NULL, want, 0))
  PROVE  MemoryOK' /\ NoAlias' /\ BlocksExact'
<1>1. 0 \in Lengths
  BY ConstantsAssumption DEF Lengths
<1>2. /\ DOMAIN vectors' \subseteq Vectors /\ vectors' \in [DOMAIN vectors' -> Vector]
      /\ v \in DOMAIN vectors' => vectors'[v] = NewVector(NULL, want, 0)
      /\ \A w \in DOMAIN vectors' \ {v} : w \in DOMAIN vectors /\ vectors'[w] = vectors[w]
  <2>1. CASE vectors' = vectors
    BY <2>1 DEF Parts, MemoryOK
  <2>2. CASE vectors' = With(vectors, v, NewVector(NULL, want, 0))
    BY <1>1, <2>2, VectorAdded
  <2> QED
    BY <2>1, <2>2
<1>3. MemoryOK'
  BY <1>2 DEF Parts, MemoryOK
<1>4. NULL \notin DOMAIN heap
  BY NullIsNoBlock DEF Parts
<1>5. HeapMoves(p, NULL)
  BY DEF HeapMoves
<1>6. Gets(v, NULL, want, 0)
  BY <1>2 DEF Gets
<1>7. VectorsLose(v, p)
  BY <1>2 DEF VectorsLose
<1> QED
  BY <1>3, <1>4, <1>5, <1>6, <1>7, OwnersMove DEF Parts

LEMMA GrowStep ==
  ASSUME Parts, build' = build, NEW t \in Threads, NEW v \in Vectors \ DOMAIN vectors,
         NEW want \in Lengths, Grow(t, v, want)
  PROVE  CachesOK' /\ MemoryOK' /\ NoAlias' /\ BlocksExact'
<1>1. PICK i \in Best(cache[t]) :
        LET best == cache[t][i] IN
        /\ Fits(cache[t], want) = {}
        /\ TakesEntry(t, i)
        /\ \/ \E q \in Fresh(best.p) :
                /\ heap' = With(Without(heap, best.p), q,
                                Cleaned(Grown(best.p, best.size, want), best.size))
                /\ vectors' = With(vectors, v, NewVector(q, want, want))
           \/ UNCHANGED <<heap, vectors>>
           \/ UNCHANGED heap /\ vectors' = With(vectors, v, NewVector(NULL, want, 0))
  BY DEF Grow, TakesEntry
<1>2. i \in DOMAIN cache[t]
  BY DEF Best
<1> DEFINE p == cache[t][i].p
           size == cache[t][i].size
<1>3. /\ p \in Blocks \cup {NULL} /\ size \in Lengths
      /\ size = Initialised(heap, p)
      /\ \A w \in DOMAIN vectors : vectors[w].p = p => p = NULL
  BY <1>2, EntryFacts
<1>4. CachesOK' /\ CachesLose(p)
  BY <1>1, <1>2, TakenLoses
<1>5. size <= want
  BY <1>1, <1>2, <1>3 DEF Fits, Lengths
<1>6. \/ \E q \in Fresh(p) :
            /\ heap' = With(Without(heap, p), q, Cleaned(Grown(p, size, want), size))
            /\ vectors' = With(vectors, v, NewVector(q, want, want))
      \/ /\ UNCHANGED heap
         /\ vectors' = vectors \/ vectors' = With(vectors, v, NewVector(NULL, want, 0))
  BY <1>1
<1> HIDE DEF p, size
<1>7. CASE \E q \in Fresh(p) :
             /\ heap' = With(Without(heap, p), q, Cleaned(Grown(p, size, want), size))
             /\ vectors' = With(vectors, v, NewVector(q, want, want))
  <2>1. PICK q \in Fresh(p) :
          /\ heap' = With(Without(heap, p), q, Cleaned(Grown(p, size, want), size))
          /\ vectors' = With(vectors, v, NewVector(q, want, want))
    BY <1>7
  <2> DEFINE block == Cleaned(Grown(p, size, want), size)
  <2>2. /\ Grown(p, size, want) \in Block
        /\ Grown(p, size, want).init = want
        /\ \A j \in Grown(p, size, want).dirty : j < size
    BY <1>3, <1>5, GrownIs DEF Parts
  <2>3. block \in Block /\ block.init = want /\ \A j \in block.dirty : j < block.init
    BY <1>3, <1>5, <2>2 DEF Cleaned, Block, Lengths
  <2>4. q \in Blocks \cup {NULL} /\ want \in Nat
    BY <1>3, BuildFacts DEF Fresh, Lengths, Parts
  <2>5. /\ DOMAIN vectors' \subseteq Vectors /\ vectors' \in [DOMAIN vectors' -> Vector]
        /\ vectors'[v] = NewVector(q, want, want)
        /\ \A w \in DOMAIN vectors' \ {v} : w \in DOMAIN vectors /\ vectors'[w] = vectors[w]
    BY <2>1, <2>4, VectorAdded
  <2> HIDE DEF block
  <2>6. heap' = With(Without(heap, p), q, block)
    BY <2>1 DEF block
  <2> QED
    BY <1>3, <1>4, <2>3, <2>4, <2>5, <2>6, Regrown
<1>8. CASE /\ UNCHANGED heap
           /\ vectors' = vectors \/ vectors' = With(vectors, v, NewVector(NULL, want, 0))
  BY <1>3, <1>4, <1>8, NothingGot
<1> QED
  BY <1>4, <1>6, <1>7, <1>8

LEMMA SameCaches ==
  ASSUME Parts, build' = build, cache' = cache, NEW p,
         \A t \in Threads : \A i \in DOMAIN cache[t] : cache[t][i].p = p => p = NULL
  PROVE  CachesOK' /\ CachesLose(p)
BY DEF Parts, CachesOK, CachesLose, NoAlias

LEMMA MallocStep ==
  ASSUME Parts, build' = build, NEW t \in Threads, NEW v \in Vectors \ DOMAIN vectors,
         NEW want \in Lengths, Malloc(t, v, want)
  PROVE  CachesOK' /\ MemoryOK' /\ NoAlias' /\ BlocksExact'
<1>1. CachesOK' /\ CachesLose(NULL)
  BY SameCaches DEF Malloc
<1>2. CASE \E q \in Fresh(NULL) :
             /\ heap' = With(heap, q, Grown(NULL, 0, want))
             /\ vectors' = With(vectors, v, NewVector(q, want, want))
  <2>1. PICK q \in Fresh(NULL) :
          /\ heap' = With(heap, q, Grown(NULL, 0, want))
          /\ vectors' = With(vectors, v, NewVector(q, want, want))
    BY <1>2
  <2> DEFINE block == Grown(NULL, 0, want)
  <2>2. NULL \notin DOMAIN heap /\ Initialised(heap, NULL) = 0
    BY NullIsNoBlock DEF Parts, Initialised
  <2>3. block \in Block /\ block.init = want /\ \A j \in block.dirty : j < 0
    BY <2>2, GrownIs DEF Parts, Lengths
  <2>4. \A j \in block.dirty : j < block.init
    BY <2>3 DEF Lengths, Block
  <2>5. Without(heap, NULL) = heap
    BY <2>2 DEF Without, Parts, MemoryOK
  <2>6. q \in Blocks \cup {NULL} /\ want \in Nat
    BY BuildFacts DEF Fresh, Lengths, Parts
  <2>7. /\ DOMAIN vectors' \subseteq Vectors /\ vectors' \in [DOMAIN vectors' -> Vector]
        /\ vectors'[v] = NewVector(q, want, want)
        /\ \A w \in DOMAIN vectors' \ {v} : w \in DOMAIN vectors /\ vectors'[w] = vectors[w]
    BY <2>1, <2>6, VectorAdded
  <2> HIDE DEF block
  <2>8. heap' = With(Without(heap, NULL), q, block)
    BY <2>1, <2>5 DEF block
  <2> QED
    BY <1>1, <2>3, <2>4, <2>6, <2>7, <2>8, Regrown
<1>3. CASE heap' = heap /\ vectors' = With(vectors, v, NewVector(NULL, want, 0))
  BY <1>1, <1>3, NothingGot
<1> QED
  BY <1>1, <1>2, <1>3 DEF Malloc
LEMMA WithoutVector ==
  ASSUME Parts, NEW v \in DOMAIN vectors, vectors' = Without(vectors, v)
  PROVE  /\ DOMAIN vectors' = DOMAIN vectors \ {v}
         /\ DOMAIN vectors' \subseteq Vectors /\ vectors' \in [DOMAIN vectors' -> Vector]
         /\ \A w \in DOMAIN vectors' : w \in DOMAIN vectors \ {v} /\ vectors'[w] = vectors[w]
BY WithoutType DEF Without, Parts, MemoryOK

\* A vector points to a block of Values that were all initialised.
LEMMA VectorFacts ==
  ASSUME Parts, NEW v \in DOMAIN vectors
  PROVE  /\ vectors[v].p \in Blocks \cup {NULL}
         /\ vectors[v].p \in DOMAIN heap \cup {NULL}
         /\ vectors[v].Size \in Lengths /\ vectors[v].p_Init_size \in Lengths
         /\ vectors[v].p_Init_size = Initialised(heap, vectors[v].p)
         /\ vectors[v].p # NULL => vectors[v].Size <= vectors[v].p_Init_size
         /\ \A w \in DOMAIN vectors \ {v} : vectors[w].p = vectors[v].p => vectors[v].p = NULL
         /\ \A t \in Threads : \A i \in DOMAIN cache[t] :
              cache[t][i].p = vectors[v].p => vectors[v].p = NULL
<1>1. vectors[v] \in Vector
  BY DEF Parts, MemoryOK
<1>2. /\ vectors[v].p_Init_size = Initialised(heap, vectors[v].p)
      /\ vectors[v].p # NULL => vectors[v].Size <= vectors[v].p_Init_size
  BY DEF Parts, BlocksExact
<1>3. /\ vectors[v].p \in DOMAIN heap \cup {NULL}
      /\ \A w \in DOMAIN vectors \ {v} : vectors[w].p = vectors[v].p => vectors[v].p = NULL
      /\ \A t \in Threads : \A i \in DOMAIN cache[t] :
           cache[t][i].p = vectors[v].p => vectors[v].p = NULL
  BY DEF Parts, NoAlias
<1> QED
  BY <1>1, <1>2, <1>3 DEF Vector

\* The array of a vector becomes the last entry of a cache.
LEMMA HandedOver ==
  ASSUME Parts, build' = build, UNCHANGED heap,
         NEW t \in Threads, NEW v \in DOMAIN vectors, HasRoom(cache[t]),
         StoresEntry(t, vectors[v].p, vectors[v].p_Init_size),
         vectors' = Without(vectors, v)
  PROVE  CachesOK' /\ MemoryOK' /\ NoAlias' /\ BlocksExact'
<1> DEFINE p == vectors[v].p
           size == vectors[v].p_Init_size
           n == Len(cache[t])
<1>1. /\ p \in Blocks \cup {NULL} /\ p \in DOMAIN heap \cup {NULL} /\ size \in Lengths
      /\ size = Initialised(heap, p)
      /\ \A w \in DOMAIN vectors \ {v} : vectors[w].p = p => p = NULL
      /\ \A u \in Threads : \A i \in DOMAIN cache[u] : cache[u][i].p = p => p = NULL
  BY VectorFacts
<1>2. StoresEntry(t, p, size)
  OBVIOUS
<1> HIDE DEF p, size
<1>3. /\ CachesOK'
      /\ \A u \in Threads \ {t} : cache'[u] = cache[u]
      /\ DOMAIN cache[t] = 1..n /\ n \in Nat
      /\ DOMAIN cache'[t] = 1..n + 1
      /\ \A j \in DOMAIN cache[t] : cache'[t][j] = cache[t][j]
      /\ cache'[t][n + 1] = [p |-> p, size |-> size]
  BY <1>1, <1>2, StoredEntries DEF Parts
<1>4. /\ DOMAIN vectors' \subseteq Vectors /\ vectors' \in [DOMAIN vectors' -> Vector]
      /\ \A w \in DOMAIN vectors' : w \in DOMAIN vectors \ {v} /\ vectors'[w] = vectors[w]
  BY WithoutVector
<1> HIDE DEF n
<1>5. MemoryOK'
  BY <1>4 DEF Parts, MemoryOK
\* Every entry is an old one, or the new one.
<1>6. ASSUME NEW u \in Threads, NEW j \in DOMAIN cache'[u]
      PROVE  \/ j \in DOMAIN cache[u] /\ cache'[u][j] = cache[u][j]
             \/ u = t /\ j = n + 1 /\ cache'[u][j].p = p /\ cache'[u][j].size = size
  <2>1. CASE u # t
    BY <1>3, <2>1
  <2>2. CASE u = t /\ j \in DOMAIN cache[t]
    BY <1>3, <2>2
  <2>3. CASE u = t /\ j \notin DOMAIN cache[t]
    <3>1. j = n + 1
      BY <1>3, <2>3
    <3> QED
      BY <1>3, <2>3, <3>1
  <2> QED
    BY <2>1, <2>2, <2>3
<1>7. ASSUME NEW u \in Threads, NEW x \in Threads,
             NEW i \in DOMAIN cache'[u], NEW j \in DOMAIN cache'[x],
             cache'[u][i].p = cache'[x][j].p
      PROVE  (u = x /\ i = j) \/ cache'[u][i].p = NULL
  BY <1>1, <1>6, <1>7 DEF Parts, NoAlias
<1>8. ASSUME NEW u \in Threads, NEW i \in DOMAIN cache'[u]
      PROVE  /\ cache'[u][i].p \in DOMAIN heap' \cup {NULL}
             /\ cache'[u][i].size = Initialised(heap', cache'[u][i].p)
             /\ \A w \in DOMAIN vectors' : cache'[u][i].p = vectors'[w].p => vectors'[w].p = NULL
  <2>1. CASE i \in DOMAIN cache[u] /\ cache'[u][i] = cache[u][i]
    BY <1>4, <2>1 DEF Parts, NoAlias, BlocksExact
  <2>2. CASE cache'[u][i].p = p /\ cache'[u][i].size = size
    BY <1>1, <1>4, <2>2
  <2> QED
    BY <1>6, <2>1, <2>2
<1>9. NoAlias'
  BY <1>4, <1>7, <1>8 DEF Parts, NoAlias
<1>10. BlocksExact'
  BY <1>4, <1>8 DEF Parts, BlocksExact
<1> QED
  BY <1>3, <1>5, <1>9, <1>10

\* The array of a vector goes back to the heap.
LEMMA GivenBack ==
  ASSUME Parts, build' = build, UNCHANGED cache, NEW v \in DOMAIN vectors,
         heap' = Without(heap, vectors[v].p), vectors' = Without(vectors, v)
  PROVE  CachesOK' /\ MemoryOK' /\ NoAlias' /\ BlocksExact'
<1>1. /\ \A w \in DOMAIN vectors \ {v} : vectors[w].p = vectors[v].p => vectors[v].p = NULL
      /\ \A u \in Threads : \A i \in DOMAIN cache[u] :
           cache[u][i].p = vectors[v].p => vectors[v].p = NULL
  BY VectorFacts
<1>2. NULL \notin DOMAIN heap
  BY NullIsNoBlock DEF Parts
<1>3. /\ DOMAIN heap' = DOMAIN heap \ {vectors[v].p}
      /\ \A r \in DOMAIN heap' : heap'[r] = heap[r]
      /\ heap' \in [DOMAIN heap' -> Block]
  BY WithoutType DEF Without, Parts, MemoryOK
<1>4. /\ DOMAIN vectors' \subseteq Vectors /\ vectors' \in [DOMAIN vectors' -> Vector]
      /\ \A w \in DOMAIN vectors' : w \in DOMAIN vectors \ {v} /\ vectors'[w] = vectors[w]
  BY WithoutVector
<1>5. CachesOK' /\ MemoryOK'
  BY <1>3, <1>4 DEF Parts, CachesOK, MemoryOK
<1>6. /\ \A u \in Threads : \A i \in DOMAIN cache'[u] :
           /\ i \in DOMAIN cache[u] /\ cache'[u][i] = cache[u][i]
           /\ cache[u][i].p \in DOMAIN heap => cache[u][i].p \in DOMAIN heap'
      /\ \A w \in DOMAIN vectors' :
           /\ w \in DOMAIN vectors /\ vectors'[w] = vectors[w]
           /\ vectors[w].p \in DOMAIN heap => vectors[w].p \in DOMAIN heap'
  BY <1>1, <1>2, <1>3, <1>4
<1>7. \A r \in DOMAIN heap' :
        /\ r \in DOMAIN heap /\ heap'[r].init = heap[r].init
        /\ \A i \in heap'[r].dirty : i < heap'[r].init
  BY <1>3 DEF Parts, BlocksExact
<1> QED
  BY <1>2, <1>5, <1>6, <1>7, OwnersShrink DEF Parts

\* A vector becomes longer or shorter in the array it has.
LEMMA Resized ==
  ASSUME Parts, build' = build, UNCHANGED <<heap, cache>>, NEW v \in DOMAIN vectors,
         NEW newlength \in Lengths, newlength <= vectors[v].p_Init_size,
         vectors' = [vectors EXCEPT ![v].Size = newlength]
  PROVE  CachesOK' /\ MemoryOK' /\ NoAlias' /\ BlocksExact'
<1>1. vectors[v] \in Vector /\ vectors \in [DOMAIN vectors -> Vector]
  BY DEF Parts, MemoryOK
<1>2. /\ DOMAIN vectors' = DOMAIN vectors
      /\ \A w \in DOMAIN vectors \ {v} : vectors'[w] = vectors[w]
      /\ vectors'[v] = [vectors[v] EXCEPT !.Size = newlength]
  BY <1>1
<1>3. /\ vectors'[v] \in Vector
      /\ vectors'[v].p = vectors[v].p /\ vectors'[v].Size = newlength
      /\ vectors'[v].p_Init_size = vectors[v].p_Init_size
  BY <1>1, <1>2 DEF Vector
<1>4. MemoryOK'
  BY <1>1, <1>2, <1>3 DEF Parts, MemoryOK
<1>5. NoAlias'
  BY <1>2, <1>3 DEF Parts, NoAlias
<1>6. BlocksExact'
  BY <1>2, <1>3 DEF Parts, BlocksExact
<1> QED
  BY <1>4, <1>5, <1>6 DEF Parts, CachesOK
LEMMA ReallocStep ==
  ASSUME Parts, build' = build, NEW t \in Threads, NEW v \in Vectors,
         NEW newlength \in Lengths, VectorRealloc(t, v, newlength)
  PROVE  CachesOK' /\ MemoryOK' /\ NoAlias' /\ BlocksExact'
<1> DEFINE p == vectors[v].p
           size == vectors[v].p_Init_size
<1>1. v \in DOMAIN vectors /\ UNCHANGED cache
  BY DEF VectorRealloc
<1>2. /\ p \in Blocks \cup {NULL} /\ size \in Lengths
      /\ size = Initialised(heap, p)
      /\ \A w \in DOMAIN vectors \ {v} : vectors[w].p = p => p = NULL
      /\ \A u \in Threads : \A i \in DOMAIN cache[u] : cache[u][i].p = p => p = NULL
  BY <1>1, VectorFacts
<1>3. CachesOK' /\ CachesLose(p)
  BY <1>1, <1>2, SameCaches
<1>4. CASE newlength <= size
  <2>1. UNCHANGED heap /\ vectors' = [vectors EXCEPT ![v].Size = newlength]
    BY <1>2, <1>4 DEF VectorRealloc, Lengths
  <2> QED
    BY <1>1, <1>4, <2>1, Resized
<1>5. CASE newlength > size /\ UNCHANGED <<heap, vectors>>
  BY <1>1, <1>3, <1>5 DEF Parts, MemoryOK, NoAlias, BlocksExact, Initialised
<1>6. CASE /\ newlength > size
           /\ \E q \in Fresh(p) :
                /\ heap' = With(Without(heap, p), q, Grown(p, size, newlength))
                /\ vectors' = [vectors EXCEPT ![v] = NewVector(q, newlength, newlength)]
  <2>1. PICK q \in Fresh(p) :
          /\ heap' = With(Without(heap, p), q, Grown(p, size, newlength))
          /\ vectors' = [vectors EXCEPT ![v] = NewVector(q, newlength, newlength)]
    BY <1>6
  <2> HIDE DEF p, size
  <2> DEFINE block == Grown(p, size, newlength)
  <2>2. size <= newlength /\ newlength \in Nat
    BY <1>2, <1>6 DEF Lengths
  <2>3. block \in Block /\ block.init = newlength /\ \A i \in block.dirty : i < size
    BY <1>2, <2>2, GrownIs DEF Parts
  <2>4. \A i \in block.dirty : i < newlength
    BY <1>2, <2>2, <2>3 DEF Block, Lengths
  <2>5. q \in Blocks \cup {NULL}
    BY <1>2, BuildFacts DEF Fresh, Parts
  <2>6. NewVector(q, newlength, newlength) \in Vector
    BY <2>5 DEF NewVector, Vector
  <2>7. /\ DOMAIN vectors' \subseteq Vectors /\ vectors' \in [DOMAIN vectors' -> Vector]
        /\ vectors'[v] = NewVector(q, newlength, newlength)
        /\ \A w \in DOMAIN vectors' \ {v} : w \in DOMAIN vectors /\ vectors'[w] = vectors[w]
    BY <1>1, <2>1, <2>6 DEF Parts, MemoryOK
  <2>8. heap' = With(Without(heap, p), q, block)
    BY <2>1
  <2>9. \A w \in DOMAIN vectors : w # v /\ vectors[w].p = p => p = NULL
    BY <1>2
  <2> HIDE DEF block
  <2> QED
    BY <1>2, <1>3, <2>2, <2>3, <2>4, <2>7, <2>8, <2>9, Regrown
<1> QED
  BY <1>2, <1>3, <1>4, <1>5, <1>6 DEF VectorRealloc, Lengths

\* Writing a Value changes no owner and no length.
LEMMA WriteStep ==
  ASSUME Parts, build' = build, NEW t \in Threads, NEW v \in Vectors,
         NEW i \in 0..MaxLength - 1, Write(t, v, i)
  PROVE  CachesOK' /\ MemoryOK' /\ NoAlias' /\ BlocksExact'
<1>1. /\ v \in DOMAIN vectors /\ vectors[v].p # NULL /\ i < vectors[v].Size
      /\ heap' = [heap EXCEPT ![vectors[v].p].dirty = @ \cup {i}]
      /\ UNCHANGED <<cache, vectors>>
  BY DEF Write
<1> DEFINE p == vectors[v].p
<1>2. p \in DOMAIN heap /\ i < heap[p].init
  BY <1>1, VectorFacts DEF Initialised, Lengths
<1>3. heap \in [DOMAIN heap -> Block] /\ heap[p] \in Block
  BY <1>2 DEF Parts, MemoryOK
<1>4. heap' = [heap EXCEPT ![p].dirty = @ \cup {i}]
  BY <1>1
<1> HIDE DEF p
<1>5. /\ DOMAIN heap' = DOMAIN heap
      /\ heap'[p] = [heap[p] EXCEPT !.dirty = @ \cup {i}]
      /\ \A r \in DOMAIN heap \ {p} : heap'[r] = heap[r]
  BY <1>2, <1>3, <1>4
<1>6. /\ heap'[p].init = heap[p].init /\ heap'[p].dirty = heap[p].dirty \cup {i}
      /\ heap'[p] \in Block
  BY <1>3, <1>5 DEF Block
<1>7. \A r \in DOMAIN heap : \A j \in heap[r].dirty : j < heap[r].init
  BY DEF Parts, BlocksExact
<1>8. heap' \in [DOMAIN heap' -> Block]
  BY <1>3, <1>4, <1>5, <1>6
<1>9. CachesOK' /\ MemoryOK'
  BY <1>1, <1>5, <1>8 DEF Parts, CachesOK, MemoryOK
<1>10. \A r \in DOMAIN heap' :
         /\ r \in DOMAIN heap /\ heap'[r].init = heap[r].init
         /\ \A j \in heap'[r].dirty : j < heap'[r].init
  BY <1>2, <1>5, <1>6, <1>7
<1> QED
  BY <1>1, <1>5, <1>9, <1>10, NullIsNoBlock, OwnersShrink DEF Parts

-----------------------------------------------------------------------------
(* The steps of polylib_close and those on the keys.                       *)

\* The caches that t does not free stay or are lost with their key.
LEMMA CachesFreed ==
  ASSUME Parts, build' = build, NEW t \in Threads, UNCHANGED vectors,
         cache' \in [Threads -> Seq(Entry)],
         \A u \in Threads : cache'[u] = cache[u] \/ cache'[u] = << >>,
         heap' = heap \/ (FreeCache(t) /\ cache'[t] = << >>)
  PROVE  CachesOK' /\ MemoryOK' /\ NoAlias' /\ BlocksExact'
<1>1. \A r \in DOMAIN heap' : r \in DOMAIN heap /\ heap'[r] = heap[r]
  BY DEF FreeCache
<1>2. \A r \in DOMAIN heap : r \in DOMAIN heap' \/ (r \in ClosedBlocks(t) /\ cache'[t] = << >>)
  BY DEF FreeCache
<1>3. NULL \notin DOMAIN heap
  BY NullIsNoBlock DEF Parts
<1>4. heap' \in [DOMAIN heap' -> Block]
  BY <1>1 DEF Parts, MemoryOK, FreeCache
<1>5. MemoryOK'
  BY <1>1, <1>4 DEF Parts, MemoryOK
<1>6. CachesOK'
  BY BuildFacts DEF Parts, CachesOK
<1>7. ASSUME NEW u \in Threads, NEW i \in DOMAIN cache'[u]
      PROVE  /\ i \in DOMAIN cache[u] /\ cache'[u][i] = cache[u][i]
             /\ cache[u][i].p \in DOMAIN heap => cache[u][i].p \in DOMAIN heap'
  <2>1. cache'[u] = cache[u] /\ i \in DOMAIN cache[u]
    BY <1>7
  <2>2. CASE u = t
    BY <1>2, <1>7, <2>1, <2>2
  <2>3. CASE u # t
    BY <1>2, <1>3, <2>1, <2>3 DEF Parts, NoAlias, ClosedBlocks
  <2> QED
    BY <2>1, <2>2, <2>3
<1>8. \A w \in DOMAIN vectors : vectors[w].p \in DOMAIN heap => vectors[w].p \in DOMAIN heap'
  BY <1>2, <1>3 DEF Parts, NoAlias, ClosedBlocks
<1>9. \A r \in DOMAIN heap' :
        /\ r \in DOMAIN heap /\ heap'[r].init = heap[r].init
        /\ \A i \in heap'[r].dirty : i < heap'[r].init
  BY <1>1 DEF Parts, BlocksExact
<1> QED
  BY <1>3, <1>5, <1>6, <1>7, <1>8, <1>9, OwnersShrink DEF Parts
LEMMA FinishKeys ==
  ASSUME KeysOK, NEW t \in Threads, FinishClose(t)
  PROVE  KeysOK'
<1> DEFINE deleted == IF t \in closing THEN {keys["values"]} ELSE {}
           open  == Once("values").slots \ deleted
           first == CHOOSE k \in Slot \ open : \A l \in Slot \ open : k <= l
           stack == IF keys["exceptions"] = 0 THEN first ELSE keys["exceptions"]
<1>1. \/ UNCHANGED keyVars
      \/ /\ keys' = [Once("values").keys EXCEPT !["exceptions"] = stack]
         /\ slots' = IF keys["exceptions"] = 0 THEN open \cup {first} ELSE open
         /\ specific' = [u \in Threads |-> [k \in Slot |->
              IF k \in deleted \/ (u = t /\ k = stack) THEN "nothing" ELSE specific[u][k]]]
  BY DEF FinishClose, Fail
<1> HIDE DEF deleted
<1>2. /\ Once("values").keys \in [KeyNames -> Slot \cup {0}]
      /\ Once("values").slots \subseteq
           {Once("values").keys["values"], Once("values").keys["exceptions"]} \ {0}
      /\ Once("values").keys["values"] \in Slot
  BY OnceKeys DEF KeyNames
<1>3. Once("values").keys["exceptions"] = keys["exceptions"]
  BY DEF Once, KeysOK, KeyNames
<1>4. /\ open \subseteq {Once("values").keys["values"], keys["exceptions"]} \ {0}
      /\ keys["exceptions"] \in Slot \cup {0}
  BY <1>2, <1>3 DEF KeysOK, KeyNames
<1> HIDE DEF open
<1>5. keys["exceptions"] = 0 => first \in Slot
  <2> SUFFICES ASSUME keys["exceptions"] = 0 PROVE first \in Slot
    OBVIOUS
  <2>1. open \in SUBSET {Once("values").keys["values"]}
    BY <1>4
  <2> QED
    BY <2>1, FreeSlot
<1> HIDE DEF first
<1>6. stack \in Slot
  BY <1>4, <1>5
<1>7. CASE UNCHANGED keyVars
  BY <1>7 DEF KeysOK, keyVars
<1>8. CASE /\ keys' = [Once("values").keys EXCEPT !["exceptions"] = stack]
           /\ slots' = IF keys["exceptions"] = 0 THEN open \cup {first} ELSE open
           /\ specific' = [u \in Threads |-> [k \in Slot |->
                IF k \in deleted \/ (u = t /\ k = stack) THEN "nothing" ELSE specific[u][k]]]
  <2>1. /\ keys' \in [KeyNames -> Slot \cup {0}]
        /\ keys'["values"] = Once("values").keys["values"] /\ keys'["exceptions"] = stack
    <3> HIDE DEF stack
    <3> QED
      BY <1>2, <1>6, <1>8 DEF KeyNames
  <2>2. slots' \subseteq {keys'["values"], keys'["exceptions"]} \ {0}
    <3>1. slots' \subseteq {Once("values").keys["values"], stack}
      BY <1>4, <1>8
    <3>2. 0 \notin slots'
      BY <1>4, <1>5, <1>8 DEF Slot
    <3> QED
      BY <2>1, <3>1, <3>2
  <2>3. specific' \in [Threads -> [Slot -> {"nothing", "values", "exceptions"}]]
    BY <1>8 DEF KeysOK
  <2> QED
    BY <2>1, <2>2, <2>3 DEF KeysOK
<1> QED
  BY <1>1, <1>7, <1>8

\* pthread_key_delete frees the slot of the key.
LEMMA DeleteKeys ==
  ASSUME KeysOK, NEW t \in Threads, DeleteKey(t)
  PROVE  KeysOK'
<1>1. CASE UNCHANGED keyVars
  BY <1>1 DEF KeysOK, keyVars
<1>2. CASE /\ slots' = slots \ {keys["values"]} /\ keys' = keys
           /\ specific' = [u \in Threads |-> [specific[u] EXCEPT ![keys["values"]] = "nothing"]]
  BY <1>2 DEF KeysOK
<1> QED
  BY <1>1, <1>2 DEF DeleteKey, Fail

\* The memory after the steps of polylib_close.
LEMMA CloseStep ==
  ASSUME Parts, build' = build, NEW t \in Threads,
         PolylibClose(t) \/ DeleteKey(t) \/ FinishClose(t)
  PROVE  CachesOK' /\ MemoryOK' /\ NoAlias' /\ BlocksExact'
<1>1. cache \in [Threads -> Seq(Entry)] /\ << >> \in Seq(Entry)
  BY DEF Parts, CachesOK
<1>2. /\ UNCHANGED vectors
      /\ cache' \in [Threads -> Seq(Entry)]
      /\ \A u \in Threads : cache'[u] = cache[u] \/ cache'[u] = << >>
      /\ heap' = heap \/ (FreeCache(t) /\ cache'[t] = << >>)
  <2>1. CASE PolylibClose(t)
    BY <1>1, <2>1 DEF PolylibClose
  <2>2. CASE DeleteKey(t)
    <3>1. /\ UNCHANGED <<heap, vectors>>
          /\ \/ UNCHANGED cache
             \/ cache' = [u \in Threads |->
                  IF u # t /\ LosesCache(u, keys["values"]) THEN << >> ELSE cache[u]]
      BY <2>2 DEF DeleteKey, Fail
    <3> QED
      BY <1>1, <3>1
  <2>3. CASE FinishClose(t)
    <3>1. /\ UNCHANGED vectors
          /\ \/ UNCHANGED <<heap, cache>>
             \/ /\ FreeCache(t)
                /\ cache' = [u \in Threads |->
                     IF u = t \/ LosesCache(u, keys["values"]) THEN << >> ELSE cache[u]]
      BY <2>3 DEF FinishClose, Fail
    <3> QED
      BY <1>1, <3>1
  <2> QED
    BY <2>1, <2>2, <2>3
<1> QED
  BY <1>2, CachesFreed

-----------------------------------------------------------------------------
(* The invariant.                                                          *)

LEMMA InvParts == CacheInv <=> KeysOK /\ Parts
BY TypeParts DEF CacheInv, Parts

LEMMA InvPartsPrime ==
  CacheInv' <=> KeysOK' /\ CachesOK' /\ MemoryOK' /\ StatusOK' /\ NoAlias' /\ BlocksExact'
BY TypePartsPrime DEF CacheInv

\* The invariant holds in an empty heap.
LEMMA InvInit == Init => CacheInv
<1> SUFFICES ASSUME Init PROVE CacheInv
  OBVIOUS
<1>1. KeysOK
  BY DEF Init, KeysOK, KeyNames, Slot
<1>2. CachesOK
  BY ConstantsAssumption DEF Init, CachesOK
<1>3. MemoryOK
  BY DEF Init, MemoryOK
<1>4. StatusOK
  BY DEF Init, StatusOK
<1>5. NoAlias /\ BlocksExact
  BY DEF Init, NoAlias, BlocksExact
<1> QED
  BY <1>1, <1>2, <1>3, <1>4, <1>5, InvParts DEF Parts

\* A step that leaves heap, caches and vectors alone.
LEMMA NothingMoves ==
  ASSUME Parts, build' = build, UNCHANGED <<heap, cache, vectors>>
  PROVE  CachesOK' /\ MemoryOK' /\ NoAlias' /\ BlocksExact'
BY DEF Parts, CachesOK, MemoryOK, NoAlias, BlocksExact, Initialised

\* Vector_Alloc keeps the invariant, also when it fails.
LEMMA AllocStep ==
  ASSUME KeysOK, Parts, build' = build, NEW t \in Threads, NEW v \in Vectors, NEW want \in Lengths,
         VectorAlloc(t, v, want)
  PROVE  KeysOK' /\ CachesOK' /\ MemoryOK' /\ StatusOK' /\ NoAlias' /\ BlocksExact'
<1>1. v \notin DOMAIN vectors
  BY DEF VectorAlloc
<1>2. CASE /\ Reuse(t, v, want) \/ Grow(t, v, want) \/ Malloc(t, v, want)
           /\ IF build.threadSafe THEN Ensured(t, "values") ELSE UNCHANGED keyVars
           /\ UNCHANGED closing
  <2>1. CachesOK' /\ MemoryOK' /\ NoAlias' /\ BlocksExact'
    BY <1>1, <1>2, ReuseStep, GrowStep, MallocStep
  <2>2. KeysOK'
    <3>1. CASE Ensured(t, "values")
      BY <3>1, EnsuredKeys DEF KeyNames
    <3>2. CASE UNCHANGED keyVars
      BY <3>2 DEF KeysOK, keyVars
    <3> QED
      BY <1>2, <3>1, <3>2
  <2>3. StatusOK'
    BY <1>2 DEF Parts, StatusOK, Reuse, Grow, Malloc
  <2> QED
    BY <2>1, <2>2, <2>3
<1>3. CASE Fail(Outcome(Found(t, "values")))
  <2>1. KeysOK'
    BY <1>3 DEF Fail, KeysOK, keyVars
  <2>2. StatusOK'
    BY <1>3 DEF Fail, Outcome, Parts, StatusOK
  <2> QED
    BY <1>3, <2>1, <2>2, NothingMoves DEF Fail
<1> QED
  BY <1>2, <1>3 DEF VectorAlloc

\* Vector_Free keeps it, whether the cache has room or not.
LEMMA FreeStep ==
  ASSUME KeysOK, Parts, build' = build, NEW t \in Threads, NEW v \in Vectors, VectorFree(t, v)
  PROVE  KeysOK' /\ CachesOK' /\ MemoryOK' /\ StatusOK' /\ NoAlias' /\ BlocksExact'
<1>1. v \in DOMAIN vectors
  BY DEF VectorFree
<1>2. KeysOK'
  BY DEF VectorFree, Fail, KeysOK, keyVars
<1>3. StatusOK'
  BY DEF VectorFree, Fail, Outcome, Parts, StatusOK
<1>4. CASE HasCache(t) /\ HasRoom(cache[t])
  BY <1>1, <1>2, <1>3, <1>4, HandedOver DEF VectorFree, SizeToFree, StoresEntry
<1>5. CASE HasCache(t) /\ ~HasRoom(cache[t])
  BY <1>1, <1>2, <1>3, <1>5, GivenBack DEF VectorFree
<1>6. CASE ~HasCache(t)
  BY <1>2, <1>3, <1>6, NothingMoves DEF VectorFree, Fail
<1> QED
  BY <1>4, <1>5, <1>6

\* Every step keeps it.
LEMMA InvNext == CacheInv /\ [Next]_vars => CacheInv'
<1> SUFFICES ASSUME CacheInv, [Next]_vars PROVE CacheInv'
  OBVIOUS
<1>1. KeysOK /\ Parts
  BY InvParts
<1>2. CASE UNCHANGED vars
  <2>1. KeysOK' /\ StatusOK'
    BY <1>1, <1>2 DEF vars, keyVars, KeysOK, Parts, StatusOK
  <2> QED
    BY <1>1, <1>2, <2>1, NothingMoves, InvPartsPrime DEF vars
<1>3. ASSUME NEW t \in build.threads, NEW v \in build.vectors, NEW n \in Lengths,
             build' = build, VectorAlloc(t, v, n)
      PROVE  CacheInv'
  BY <1>1, <1>3, AllocStep, InvPartsPrime, BuildFacts DEF Parts
<1>4. ASSUME NEW t \in build.threads, NEW v \in build.vectors, build' = build, VectorFree(t, v)
      PROVE  CacheInv'
  BY <1>1, <1>4, FreeStep, InvPartsPrime, BuildFacts DEF Parts
<1>5. ASSUME NEW t \in build.threads, NEW v \in build.vectors, NEW n \in Lengths,
             build' = build, VectorRealloc(t, v, n)
      PROVE  CacheInv'
  <2>1. KeysOK' /\ StatusOK'
    BY <1>1, <1>5 DEF VectorRealloc, keyVars, KeysOK, Parts, StatusOK
  <2> QED
    BY <1>1, <1>5, <2>1, ReallocStep, InvPartsPrime, BuildFacts DEF Parts
<1>6. ASSUME NEW t \in build.threads, NEW v \in build.vectors, NEW i \in 0..MaxLength - 1,
             build' = build, Write(t, v, i)
      PROVE  CacheInv'
  <2>1. KeysOK' /\ StatusOK'
    BY <1>1, <1>6 DEF Write, keyVars, KeysOK, Parts, StatusOK
  <2> QED
    BY <1>1, <1>6, <2>1, WriteStep, InvPartsPrime, BuildFacts DEF Parts
<1>7. ASSUME NEW t \in build.threads, build' = build, CatchUncatch(t)
      PROVE  CacheInv'
  <2>1. KeysOK'
    <3>1. t \in Threads
      BY <1>1, BuildFacts DEF Parts
    <3>2. CASE Ensured(t, "exceptions")
      BY <1>1, <3>1, <3>2, EnsuredKeys DEF KeyNames
    <3>3. CASE UNCHANGED keyVars
      BY <1>1, <3>3 DEF KeysOK, keyVars
    <3> QED
      BY <1>7, <3>2, <3>3 DEF CatchUncatch, Fail
  <2>2. StatusOK'
    BY <1>1, <1>7 DEF CatchUncatch, Fail, Outcome, Parts, StatusOK
  <2>3. UNCHANGED <<heap, cache, vectors>>
    BY <1>7 DEF CatchUncatch, Fail
  <2> QED
    BY <1>1, <1>7, <2>1, <2>2, <2>3, NothingMoves, InvPartsPrime
<1>8. ASSUME NEW t \in build.threads, build' = build,
             PolylibClose(t) \/ DeleteKey(t) \/ FinishClose(t)
      PROVE  CacheInv'
  <2>1. t \in Threads
    BY <1>1, BuildFacts DEF Parts
  <2>2. KeysOK'
    <3>1. CASE PolylibClose(t)
      BY <1>1, <3>1 DEF PolylibClose, keyVars, KeysOK
    <3> QED
      BY <1>1, <1>8, <2>1, <3>1, DeleteKeys, FinishKeys
  <2>3. StatusOK'
    BY <1>1, <1>8, <2>1 DEF PolylibClose, DeleteKey, FinishClose, Fail, Parts, StatusOK
  <2> QED
    BY <1>1, <1>8, <2>1, <2>2, <2>3, CloseStep, InvPartsPrime
<1> QED
  BY <1>2, <1>3, <1>4, <1>5, <1>6, <1>7, <1>8 DEF Next

LEMMA InvCorrect == Spec => []CacheInv
BY InvInit, InvNext, PTL DEF Spec

\* The caches, keys, blocks and vectors keep their types; no cache is ever
\* longer than MAX_CACHE_SIZE, and there is a slot for each key.
THEOREM TypeCorrect == Spec => []TypeOK
<1>1. CacheInv => TypeOK
  BY DEF CacheInv
<1> QED
  BY <1>1, InvCorrect, PTL

\* value_alloc, value_free and the reallocations never give an array two owners,
\* in any build, with any number of threads closing the library at any moment.
THEOREM NoAliasCorrect == Spec => []NoAlias
<1>1. CacheInv => NoAlias
  BY DEF CacheInv
<1> QED
  BY <1>1, InvCorrect, PTL

\* The length recorded with an array is the number of its initialised Values.
THEOREM BlocksExactCorrect == Spec => []BlocksExact
<1>1. CacheInv => BlocksExact
  BY DEF CacheInv
<1> QED
  BY <1>1, InvCorrect, PTL

-----------------------------------------------------------------------------
(* The contents of the vectors.                                            *)

\* The vectors that stay keep their records and their blocks.
OthersKept ==
  \A w \in DOMAIN vectors \cap DOMAIN vectors' :
    /\ vectors'[w] = vectors[w]
    /\ vectors[w].p \in DOMAIN heap \cap DOMAIN heap' => heap'[vectors[w].p] = heap[vectors[w].p]

\* The vector v, if there is one now, is the only new one and all zero.
OnlyZero(v) ==
  /\ DOMAIN vectors' \subseteq DOMAIN vectors \cup {v}
  /\ v \in DOMAIN vectors' /\ vectors'[v].p \in DOMAIN heap' =>
       \A i \in heap'[vectors'[v].p].dirty : i >= vectors'[v].Size

\* The three ways of value_alloc: others are kept, and the new vector is zero.
LEMMA ReuseContents ==
  ASSUME Parts, NEW t \in Threads, NEW v \in Vectors \ DOMAIN vectors, NEW want \in Lengths,
         Reuse(t, v, want)
  PROVE  OthersKept /\ OnlyZero(v)
<1>1. PICK i \in DOMAIN cache[t] :
        /\ vectors' = With(vectors, v, NewVector(cache[t][i].p, want, cache[t][i].size))
        /\ heap' = IF cache[t][i].p = NULL THEN heap
                   ELSE [heap EXCEPT ![cache[t][i].p] = Cleaned(@, want)]
  BY DEF Reuse, Fits, Got, Reused
<1> DEFINE p == cache[t][i].p
           size == cache[t][i].size
<1>2. /\ p \in Blocks \cup {NULL} /\ p \in DOMAIN heap \cup {NULL} /\ size \in Lengths
      /\ \A w \in DOMAIN vectors : vectors[w].p = p => p = NULL
  BY EntryFacts
<1>3. /\ vectors' = With(vectors, v, NewVector(p, want, size))
      /\ heap' = IF p = NULL THEN heap ELSE [heap EXCEPT ![p] = Cleaned(@, want)]
  BY <1>1
<1> HIDE DEF p, size
<1>4. /\ vectors'[v] = NewVector(p, want, size)
      /\ DOMAIN vectors' = DOMAIN vectors \cup {v}
      /\ \A w \in DOMAIN vectors : vectors'[w] = vectors[w]
  BY <1>3 DEF With
<1>5. NULL \notin DOMAIN heap /\ heap \in [DOMAIN heap -> Block]
  BY NullIsNoBlock DEF Parts, MemoryOK
<1>6. /\ \A r \in DOMAIN heap \ {p} : heap'[r] = heap[r]
      /\ DOMAIN heap' = DOMAIN heap
      /\ p # NULL => heap'[p] = Cleaned(heap[p], want) /\ heap[p] \in Block
  BY <1>2, <1>3, <1>5
<1>7. vectors'[v].p = p /\ vectors'[v].Size = want
  BY <1>4 DEF NewVector
<1>8. ASSUME p # NULL PROVE \A j \in heap'[p].dirty : j >= want
  BY <1>6, <1>8 DEF Cleaned, Block
<1>9. OnlyZero(v)
  BY <1>4, <1>5, <1>6, <1>7, <1>8 DEF OnlyZero
<1>10. OthersKept
  BY <1>2, <1>4, <1>5, <1>6 DEF OthersKept
<1> QED
  BY <1>9, <1>10

\* An array that realloc or malloc made is zero from the end of the old one on.
LEMMA RegrownContents ==
  ASSUME Parts, NEW v \in Vectors \ DOMAIN vectors, NEW want \in Lengths,
         NEW p \in Blocks \cup {NULL}, NEW q \in Fresh(p),
         \A w \in DOMAIN vectors : vectors[w].p = p => p = NULL,
         NEW block \in Block, block.dirty = {},
         heap' = With(Without(heap, p), q, block),
         vectors' = With(vectors, v, NewVector(q, want, want))
  PROVE  OthersKept /\ OnlyZero(v)
<1>1. HeapMoves(p, q) /\ q # NULL /\ q \in Blocks /\ heap'[q] = block
  BY Reallocated DEF Parts
<1>2. /\ vectors'[v] = NewVector(q, want, want)
      /\ DOMAIN vectors' = DOMAIN vectors \cup {v}
      /\ \A w \in DOMAIN vectors : vectors'[w] = vectors[w]
  BY DEF With
<1>3. vectors'[v].p = q
  BY <1>2 DEF NewVector
<1>4. NULL \notin DOMAIN heap
  BY NullIsNoBlock DEF Parts
<1>5. \A w \in DOMAIN vectors : vectors[w].p \in DOMAIN heap => vectors[w].p # q
  BY <1>1, <1>4 DEF HeapMoves
<1>6. OthersKept
  BY <1>1, <1>2, <1>5 DEF OthersKept, HeapMoves
<1>7. OnlyZero(v)
  BY <1>1, <1>2, <1>3 DEF OnlyZero
<1> QED
  BY <1>6, <1>7

LEMMA NothingContents ==
  ASSUME Parts, NEW v \in Vectors \ DOMAIN vectors, NEW want, UNCHANGED heap,
         vectors' = vectors \/ vectors' = With(vectors, v, NewVector(NULL, want, 0))
  PROVE  OthersKept /\ OnlyZero(v)
<1>1. /\ DOMAIN vectors' \subseteq DOMAIN vectors \cup {v}
      /\ \A w \in DOMAIN vectors : vectors'[w] = vectors[w]
      /\ v \in DOMAIN vectors' => vectors'[v] = NewVector(NULL, want, 0)
  BY DEF With
<1>2. NULL \notin DOMAIN heap
  BY NullIsNoBlock DEF Parts
<1> QED
  BY <1>1, <1>2 DEF OthersKept, OnlyZero, NewVector

LEMMA GrowContents ==
  ASSUME Parts, NEW t \in Threads, NEW v \in Vectors \ DOMAIN vectors, NEW want \in Lengths,
         Grow(t, v, want)
  PROVE  OthersKept /\ OnlyZero(v)
<1>1. PICK i \in Best(cache[t]) :
        LET best == cache[t][i] IN
        /\ Fits(cache[t], want) = {}
        /\ \/ \E q \in Fresh(best.p) :
                /\ heap' = With(Without(heap, best.p), q,
                                Cleaned(Grown(best.p, best.size, want), best.size))
                /\ vectors' = With(vectors, v, NewVector(q, want, want))
           \/ UNCHANGED <<heap, vectors>>
           \/ UNCHANGED heap /\ vectors' = With(vectors, v, NewVector(NULL, want, 0))
  BY DEF Grow
<1>2. i \in DOMAIN cache[t]
  BY DEF Best
<1> DEFINE p == cache[t][i].p
           size == cache[t][i].size
<1>3. /\ p \in Blocks \cup {NULL} /\ size \in Lengths
      /\ size = Initialised(heap, p)
      /\ \A w \in DOMAIN vectors : vectors[w].p = p => p = NULL
  BY <1>2, EntryFacts
<1>4. size <= want
  BY <1>1, <1>2, <1>3 DEF Fits, Lengths
<1>5. \/ \E q \in Fresh(p) :
            /\ heap' = With(Without(heap, p), q, Cleaned(Grown(p, size, want), size))
            /\ vectors' = With(vectors, v, NewVector(q, want, want))
      \/ /\ UNCHANGED heap
         /\ vectors' = vectors \/ vectors' = With(vectors, v, NewVector(NULL, want, 0))
  BY <1>1
<1> HIDE DEF p, size
<1> DEFINE block == Cleaned(Grown(p, size, want), size)
<1>6. Grown(p, size, want) \in Block /\ \A j \in Grown(p, size, want).dirty : j < size
  BY <1>3, <1>4, GrownIs DEF Parts
<1>7. block \in Block /\ block.dirty = {}
  BY <1>3, <1>6 DEF Cleaned, Block, Lengths
<1>8. ASSUME NEW q \in Fresh(p), heap' = With(Without(heap, p), q, block),
             vectors' = With(vectors, v, NewVector(q, want, want))
      PROVE  OthersKept /\ OnlyZero(v)
  <2> HIDE DEF block
  <2> QED
    BY <1>3, <1>7, <1>8, RegrownContents
<1> QED
  BY <1>5, <1>8, NothingContents

LEMMA MallocContents ==
  ASSUME Parts, NEW t \in Threads, NEW v \in Vectors \ DOMAIN vectors, NEW want \in Lengths,
         Malloc(t, v, want)
  PROVE  OthersKept /\ OnlyZero(v)
<1> DEFINE block == Grown(NULL, 0, want)
<1>1. NULL \notin DOMAIN heap /\ Initialised(heap, NULL) = 0
  BY NullIsNoBlock DEF Parts, Initialised
<1>2. block \in Block /\ \A j \in block.dirty : j < 0
  BY <1>1, GrownIs DEF Parts, Lengths
<1>3. block.dirty = {}
  BY <1>2 DEF Block
<1>4. Without(heap, NULL) = heap
  BY <1>1 DEF Without, Parts, MemoryOK
<1>5. ASSUME NEW q \in Fresh(NULL), heap' = With(heap, q, block),
             vectors' = With(vectors, v, NewVector(q, want, want))
      PROVE  OthersKept /\ OnlyZero(v)
  <2>1. heap' = With(Without(heap, NULL), q, block)
    BY <1>4, <1>5
  <2> HIDE DEF block
  <2> QED
    BY <1>2, <1>3, <1>5, <2>1, RegrownContents
<1> QED
  BY <1>5, NothingContents DEF Malloc

\* What the step makes of the Values of the vectors that stay.
SameContents ==
  \A w \in DOMAIN vectors \cap DOMAIN vectors' :
    vectors[w].p \in DOMAIN heap /\ vectors'[w].p \in DOMAIN heap' =>
      heap'[vectors'[w].p].dirty = heap[vectors[w].p].dirty

NothingNew == DOMAIN vectors' \subseteq DOMAIN vectors

\* The same for Vector_Alloc, and the other calls create no vector.
LEMMA AllocContents ==
  ASSUME Parts, NEW t \in Threads, NEW v \in Vectors, NEW want \in Lengths, VectorAlloc(t, v, want)
  PROVE  SameContents /\ OnlyZero(v) /\ v \notin DOMAIN vectors
<1>1. v \notin DOMAIN vectors
  BY DEF VectorAlloc
<1>2. CASE Reuse(t, v, want) \/ Grow(t, v, want) \/ Malloc(t, v, want)
  <2>1. OthersKept /\ OnlyZero(v)
    BY <1>1, <1>2, ReuseContents, GrowContents, MallocContents
  <2> QED
    BY <1>1, <2>1 DEF OthersKept, SameContents
<1>3. CASE UNCHANGED <<heap, vectors>>
  BY <1>1, <1>3 DEF SameContents, OnlyZero
<1> QED
  BY <1>1, <1>2, <1>3 DEF VectorAlloc, Fail

LEMMA FreeContents ==
  ASSUME Parts, NEW t \in Threads, NEW v, VectorFree(t, v)
  PROVE  SameContents /\ NothingNew
<1>1. v \in DOMAIN vectors
  BY DEF VectorFree
<1>2. heap' = heap \/ heap' = Without(heap, vectors[v].p)
  BY DEF VectorFree, Fail
<1>3. vectors' = vectors \/ vectors' = Without(vectors, v)
  BY DEF VectorFree, Fail
<1>4. \A r \in DOMAIN heap' : r \in DOMAIN heap /\ heap'[r] = heap[r]
  BY <1>2 DEF Without
<1>5. \A w \in DOMAIN vectors' : w \in DOMAIN vectors /\ vectors'[w] = vectors[w]
  BY <1>3 DEF Without
<1> QED
  BY <1>4, <1>5 DEF SameContents, NothingNew

LEMMA ReallocContents ==
  ASSUME Parts, NEW t \in Threads, NEW v \in Vectors, NEW newlength \in Lengths,
         VectorRealloc(t, v, newlength)
  PROVE  SameContents /\ NothingNew
<1> DEFINE p == vectors[v].p
           size == vectors[v].p_Init_size
<1>1. v \in DOMAIN vectors
  BY DEF VectorRealloc
<1>2. /\ p \in Blocks \cup {NULL} /\ size \in Lengths
      /\ size = Initialised(heap, p)
      /\ \A w \in DOMAIN vectors \ {v} : vectors[w].p = p => p = NULL
  BY <1>1, VectorFacts
<1>3. vectors \in [DOMAIN vectors -> Vector] /\ vectors[v] \in Vector
  BY <1>1 DEF Parts, MemoryOK
<1>4. CASE heap' = heap /\ vectors' = vectors
  BY <1>4 DEF SameContents, NothingNew
<1>5. CASE heap' = heap /\ vectors' = [vectors EXCEPT ![v].Size = newlength]
  <2>1. \A w \in DOMAIN vectors : vectors'[w].p = vectors[w].p
    BY <1>3, <1>5 DEF Vector
  <2> QED
    BY <1>5, <2>1 DEF SameContents, NothingNew
<1>6. CASE /\ newlength > size
           /\ \E q \in Fresh(p) :
                /\ heap' = With(Without(heap, p), q, Grown(p, size, newlength))
                /\ vectors' = [vectors EXCEPT ![v] = NewVector(q, newlength, newlength)]
  <2>1. PICK q \in Fresh(p) :
          /\ heap' = With(Without(heap, p), q, Grown(p, size, newlength))
          /\ vectors' = [vectors EXCEPT ![v] = NewVector(q, newlength, newlength)]
    BY <1>6
  <2>2. /\ DOMAIN vectors' = DOMAIN vectors
        /\ vectors'[v] = NewVector(q, newlength, newlength)
        /\ \A w \in DOMAIN vectors \ {v} : vectors'[w] = vectors[w]
    BY <1>1, <1>3, <2>1
  <2> HIDE DEF size
  <2> DEFINE block == Grown(p, size, newlength)
  <2>3. size <= newlength
    BY <1>2, <1>6 DEF Lengths
  <2>4. /\ block \in Block /\ block.init = newlength /\ \A i \in block.dirty : i < size
        /\ p \in DOMAIN heap => block.dirty = heap[p].dirty
    BY <1>2, <2>3, GrownIs DEF Parts
  <2>5. \A i \in block.dirty : i < block.init
    BY <1>2, <2>3, <2>4 DEF Block, Lengths
  <2>6. heap' = With(Without(heap, p), q, block)
    BY <2>1
  <2> HIDE DEF block
  <2>7. HeapMoves(p, q) /\ q # NULL /\ q \in Blocks /\ heap'[q] = block
    BY <1>2, <2>4, <2>5, <2>6, Reallocated DEF Parts
  <2>8. p \in DOMAIN heap => heap'[vectors'[v].p].dirty = heap[p].dirty
    BY <2>2, <2>4, <2>7 DEF NewVector
  <2>9. ASSUME NEW w \in DOMAIN vectors \ {v}, vectors[w].p \in DOMAIN heap
        PROVE  heap'[vectors'[w].p] = heap[vectors[w].p]
    <3>1. vectors[w].p # p /\ vectors[w].p # q
      BY <1>2, <2>7, <2>9, NullIsNoBlock DEF HeapMoves, Parts
    <3> QED
      BY <2>2, <2>7, <2>9, <3>1 DEF HeapMoves
  <2> QED
    BY <1>1, <2>2, <2>8, <2>9 DEF SameContents, NothingNew
<1> QED
  BY <1>4, <1>5, <1>6 DEF VectorRealloc

LEMMA WriteContents ==
  ASSUME Parts, NEW t \in Threads, NEW v \in Vectors, NEW i \in 0..MaxLength - 1, Write(t, v, i)
  PROVE  /\ NothingNew
         /\ \A w \in DOMAIN vectors \cap DOMAIN vectors' :
              vectors[w].p \in DOMAIN heap /\ vectors'[w].p \in DOMAIN heap' =>
                \/ heap'[vectors'[w].p].dirty = heap[vectors[w].p].dirty
                \/ w = v /\ i \in 0..vectors[w].Size - 1
<1>1. /\ v \in DOMAIN vectors /\ vectors[v].p # NULL /\ i < vectors[v].Size
      /\ heap' = [heap EXCEPT ![vectors[v].p].dirty = @ \cup {i}]
      /\ vectors' = vectors
  BY DEF Write
<1>2. /\ \A w \in DOMAIN vectors \ {v} : vectors[w].p # vectors[v].p
      /\ vectors[v].Size \in Int
  BY <1>1, VectorFacts DEF Lengths
<1>3. \A r \in DOMAIN heap \ {vectors[v].p} : heap'[r] = heap[r]
  BY <1>1 DEF Parts, MemoryOK
<1>4. i \in 0..vectors[v].Size - 1
  BY <1>1, <1>2
<1> QED
  BY <1>1, <1>2, <1>3, <1>4 DEF NothingNew

LEMMA OtherContents ==
  ASSUME Parts, NEW t \in Threads,
         CatchUncatch(t) \/ PolylibClose(t) \/ DeleteKey(t) \/ FinishClose(t)
  PROVE  SameContents /\ NothingNew
<1>1. vectors' = vectors /\ (heap' = heap \/ FreeCache(t))
  BY DEF CatchUncatch, PolylibClose, DeleteKey, FinishClose, Fail
<1>2. \A r \in DOMAIN heap' : heap'[r] = heap[r]
  BY <1>1 DEF FreeCache
<1> QED
  BY <1>1, <1>2 DEF SameContents, NothingNew

\* One step of the program: what becomes of contents, and of new vectors.
LEMMA StepContents ==
  ASSUME CacheInv, [Next]_vars
  PROVE  \/ SameContents /\ (NothingNew \/ \E v \in Vectors \ DOMAIN vectors : OnlyZero(v))
         \/ \E t \in Threads, v \in Vectors, i \in 0..MaxLength - 1 : Write(t, v, i)
<1>1. Parts /\ build.threads \subseteq Threads /\ build.vectors \subseteq Vectors
  BY InvParts, BuildFacts DEF Parts
<1>2. CASE UNCHANGED vars
  BY <1>2 DEF vars, SameContents, NothingNew
<1>3. ASSUME NEW t \in build.threads, NEW v \in build.vectors, NEW n \in Lengths, VectorAlloc(t, v, n)
      PROVE  SameContents /\ \E w \in Vectors \ DOMAIN vectors : OnlyZero(w)
  BY <1>1, <1>3, AllocContents
<1>4. ASSUME NEW t \in build.threads, NEW v \in build.vectors, NEW n \in Lengths, VectorRealloc(t, v, n)
      PROVE  SameContents /\ NothingNew
  BY <1>1, <1>4, ReallocContents
<1>5. ASSUME NEW t \in build.threads, NEW v \in build.vectors, VectorFree(t, v)
      PROVE  SameContents /\ NothingNew
  BY <1>1, <1>5, FreeContents
<1>6. ASSUME NEW t \in build.threads,
             CatchUncatch(t) \/ PolylibClose(t) \/ DeleteKey(t) \/ FinishClose(t)
      PROVE  SameContents /\ NothingNew
  BY <1>1, <1>6, OtherContents
<1> QED
  BY <1>1, <1>2, <1>3, <1>4, <1>5, <1>6 DEF Next

\* No Value written in an earlier life of an array is visible in a new vector,
\* whether value_alloc reuses the array, enlarges it or gets a new one.
THEOREM FreshIsZeroCorrect == Spec => FreshIsZero
<1> DEFINE Zero == \A v \in DOMAIN vectors' \ DOMAIN vectors :
                     vectors'[v].p \in DOMAIN heap' =>
                       \A i \in heap'[vectors'[v].p].dirty : i >= vectors'[v].Size
<1>1. ASSUME CacheInv, [Next]_vars PROVE Zero
  <2>1. CASE NothingNew
    BY <2>1 DEF NothingNew
  <2>2. CASE \E v \in Vectors \ DOMAIN vectors : OnlyZero(v)
    BY <2>2 DEF OnlyZero
  <2>3. CASE \E t \in Threads, v \in Vectors, i \in 0..MaxLength - 1 : Write(t, v, i)
    BY <2>3 DEF Write
  <2> QED
    BY <1>1, <2>1, <2>2, <2>3, StepContents
<1>2. CacheInv /\ [Next]_vars => [Zero]_vars
  BY <1>1
<1> QED
  BY <1>2, InvCorrect, PTL DEF Spec, FreshIsZero

\* Values change only in the vector the program writes to: no allocation, free,
\* reallocation or closing touches those of another vector.
THEOREM ContentsKeptCorrect == Spec => ContentsKept
<1> DEFINE Kept == \A v \in DOMAIN vectors \cap DOMAIN vectors' :
                     vectors[v].p \in DOMAIN heap /\ vectors'[v].p \in DOMAIN heap' =>
                       \/ heap'[vectors'[v].p].dirty = heap[vectors[v].p].dirty
                       \/ \E t \in Threads, i \in 0..vectors[v].Size - 1 : Write(t, v, i)
<1>1. ASSUME CacheInv, [Next]_vars PROVE Kept
  <2>1. CASE SameContents
    BY <2>1 DEF SameContents
  <2>2. ASSUME NEW t \in Threads, NEW v \in Vectors, NEW i \in 0..MaxLength - 1, Write(t, v, i)
        PROVE  Kept
    BY <1>1, <2>2, WriteContents, InvParts
  <2> QED
    BY <1>1, <2>1, <2>2, StepContents
<1>2. CacheInv /\ [Next]_vars => [Kept]_vars
  BY <1>1
<1> QED
  BY <1>2, InvCorrect, PTL DEF Spec, ContentsKept

-----------------------------------------------------------------------------
(* Nothing is lost.                                                        *)

Owned(r) ==
  \/ \E t \in Threads : \E i \in DOMAIN cache[t] : cache[t][i].p = r
  \/ \E v \in DOMAIN vectors : vectors[v].p = r

Covered == \A r \in DOMAIN heap : Owned(r)

\* The array r has an owner after the step.
OwnedAfter(r) ==
  \/ \E t \in Threads : \E i \in DOMAIN cache'[t] : cache'[t][i].p = r
  \/ \E v \in DOMAIN vectors' : vectors'[v].p = r

\* The owners of all arrays but p are still there.
CachesKeep(p) ==
  \A t \in Threads : \A i \in DOMAIN cache[t] :
    cache[t][i].p = p \/ \E j \in DOMAIN cache'[t] : cache'[t][j].p = cache[t][i].p

VectorsKeep(p) ==
  \A w \in DOMAIN vectors :
    vectors[w].p = p \/ (w \in DOMAIN vectors' /\ vectors'[w].p = vectors[w].p)

\* The block p may become q, which has an owner; the others keep theirs.
LEMMA CoveredMoves ==
  ASSUME Covered, NEW p, NEW q,
         DOMAIN heap' \subseteq (DOMAIN heap \ {p}) \cup {q},
         q \in DOMAIN heap' => OwnedAfter(q),
         CachesKeep(p), VectorsKeep(p)
  PROVE  Covered'
<1> SUFFICES ASSUME NEW r \in DOMAIN heap' PROVE OwnedAfter(r)
  BY DEF Covered, Owned, OwnedAfter
<1>1. CASE r = q
  BY <1>1
<1>2. CASE r # q
  <2>1. r \in DOMAIN heap /\ r # p
    BY <1>2
  <2>2. CASE \E t \in Threads : \E i \in DOMAIN cache[t] : cache[t][i].p = r
    BY <2>1, <2>2 DEF OwnedAfter, CachesKeep
  <2>3. CASE \E w \in DOMAIN vectors : vectors[w].p = r
    BY <2>1, <2>3 DEF OwnedAfter, VectorsKeep
  <2> QED
    BY <2>1, <2>2, <2>3 DEF Covered, Owned
<1> QED
  BY <1>1, <1>2

\* The entries that are not taken are still there.
LEMMA TakenKeeps ==
  ASSUME Parts, build' = build, NEW t \in Threads, NEW i \in DOMAIN cache[t],
         TakesEntry(t, i)
  PROVE  \A u \in Threads : \A k \in DOMAIN cache[u] :
           \/ u = t /\ k = i
           \/ \E j \in DOMAIN cache'[u] : cache'[u][j] = cache[u][k]
<1>1. cache[t] \in Seq(Entry) /\ DOMAIN cache[t] = 1..Len(cache[t]) /\ Len(cache[t]) \in Nat
  BY DEF Parts, CachesOK
<1>2. cache'[t] = Taken(cache[t], i) /\ \A u \in Threads \ {t} : cache'[u] = cache[u]
  BY DEF Parts, CachesOK, TakesEntry
<1>3. /\ cache'[t] \in Seq(Entry) /\ Len(cache'[t]) = Len(cache[t]) - 1
      /\ \A j \in 1..Len(cache[t]) - 1 : cache'[t][j] = cache[t][From(cache[t], i, j)]
  BY <1>1, <1>2, TakenIs
<1>4. DOMAIN cache'[t] = 1..Len(cache[t]) - 1
  BY <1>3
<1>5. ASSUME NEW k \in DOMAIN cache[t], k # i
      PROVE  \E j \in DOMAIN cache'[t] : cache'[t][j] = cache[t][k]
  <2>1. CASE k = Len(cache[t])
    <3>1. i \in 1..Len(cache[t]) - 1
      BY <1>1, <1>5, <2>1
    <3>2. cache'[t][i] = cache[t][k]
      BY <1>3, <2>1, <3>1 DEF From
    <3> QED
      BY <1>4, <3>1, <3>2
  <2>2. CASE k # Len(cache[t])
    <3>1. k \in 1..Len(cache[t]) - 1
      BY <1>1, <2>2
    <3>2. cache'[t][k] = cache[t][k]
      BY <1>3, <1>5, <3>1 DEF From
    <3> QED
      BY <1>4, <3>1, <3>2
  <2> QED
    BY <2>1, <2>2
<1> QED
  BY <1>2, <1>5

\* Each call leaves every block with an owner.
LEMMA AllocCovers ==
  ASSUME Parts, Covered, ~build.memoryMayFail, build' = build,
         NEW t \in Threads, NEW v \in Vectors \ DOMAIN vectors, NEW want \in Lengths,
         Reuse(t, v, want) \/ Grow(t, v, want) \/ Malloc(t, v, want)
  PROVE  Covered'
<1>1. ASSUME NEW q, NEW got, vectors' = With(vectors, v, NewVector(q, want, got))
      PROVE  /\ OwnedAfter(q)
             /\ \A w \in DOMAIN vectors : w \in DOMAIN vectors' /\ vectors'[w].p = vectors[w].p
  <2>1. /\ vectors'[v] = NewVector(q, want, got) /\ DOMAIN vectors' = DOMAIN vectors \cup {v}
        /\ \A w \in DOMAIN vectors : vectors'[w] = vectors[w]
    BY <1>1 DEF With
  <2> QED
    BY <2>1 DEF OwnedAfter, NewVector
<1>2. ASSUME NEW i \in DOMAIN cache[t], TakesEntry(t, i),
             NEW q, NEW got, vectors' = With(vectors, v, NewVector(q, want, got)),
             DOMAIN heap' \subseteq (DOMAIN heap \ {cache[t][i].p}) \cup {q}
      PROVE  Covered'
  <2>1. CachesKeep(cache[t][i].p)
    BY <1>2, TakenKeeps DEF CachesKeep
  <2>2. OwnedAfter(q) /\ VectorsKeep(cache[t][i].p)
    BY <1>1, <1>2 DEF VectorsKeep
  <2> QED
    BY <1>2, <2>1, <2>2, CoveredMoves
<1>3. CASE Reuse(t, v, want)
  <2>1. PICK i \in DOMAIN cache[t] :
          /\ TakesEntry(t, i)
          /\ vectors' = With(vectors, v, NewVector(cache[t][i].p, want, cache[t][i].size))
          /\ heap' = IF cache[t][i].p = NULL THEN heap
                     ELSE [heap EXCEPT ![cache[t][i].p] = Cleaned(@, want)]
    BY <1>3 DEF Reuse, Fits, Got, Reused, TakesEntry
  <2>2. DOMAIN heap' = DOMAIN heap
    BY <2>1 DEF Parts, MemoryOK
  <2> QED
    BY <1>2, <2>1, <2>2
<1>4. CASE Grow(t, v, want)
  <2>1. PICK i \in DOMAIN cache[t] :
          /\ TakesEntry(t, i)
          /\ \E q \in Fresh(cache[t][i].p) :
               /\ vectors' = With(vectors, v, NewVector(q, want, want))
               /\ heap' = With(Without(heap, cache[t][i].p), q,
                               Cleaned(Grown(cache[t][i].p, cache[t][i].size, want), cache[t][i].size))
    BY <1>4 DEF Grow, Best, TakesEntry
  <2>2. PICK q \in Fresh(cache[t][i].p) :
          /\ vectors' = With(vectors, v, NewVector(q, want, want))
          /\ heap' = With(Without(heap, cache[t][i].p), q,
                          Cleaned(Grown(cache[t][i].p, cache[t][i].size, want), cache[t][i].size))
    BY <2>1
  <2>3. DOMAIN heap' = (DOMAIN heap \ {cache[t][i].p}) \cup {q}
    BY <2>2 DEF With, Without
  <2> QED
    BY <1>2, <2>1, <2>2, <2>3
<1>5. CASE Malloc(t, v, want)
  <2>1. PICK q \in Fresh(NULL) :
          /\ vectors' = With(vectors, v, NewVector(q, want, want))
          /\ heap' = With(heap, q, Grown(NULL, 0, want))
    BY <1>5 DEF Malloc
  <2>2. DOMAIN heap' = DOMAIN heap \cup {q} /\ UNCHANGED cache
    BY <1>5, <2>1 DEF Malloc, With
  <2>3. NULL \notin DOMAIN heap
    BY NullIsNoBlock DEF Parts
  <2>4. DOMAIN heap' \subseteq (DOMAIN heap \ {NULL}) \cup {q}
    BY <2>2, <2>3
  <2>5. OwnedAfter(q) /\ VectorsKeep(NULL)
    BY <1>1, <2>1 DEF VectorsKeep
  <2>6. CachesKeep(NULL)
    BY <2>2 DEF CachesKeep
  <2> QED
    BY <2>4, <2>5, <2>6, CoveredMoves
<1> QED
  BY <1>3, <1>4, <1>5

LEMMA FreeCovers ==
  ASSUME Parts, Covered, ~build.threadSafe, build' = build,
         NEW t \in Threads, NEW v \in Vectors, VectorFree(t, v)
  PROVE  Covered'
<1>1. /\ v \in DOMAIN vectors /\ HasCache(t)
      /\ vectors' = Without(vectors, v)
  BY DEF VectorFree, HasCache
<1>2. VectorsKeep(vectors[v].p)
  BY <1>1 DEF Without, VectorsKeep
<1>3. CASE HasRoom(cache[t])
  <2>1. /\ UNCHANGED heap
        /\ StoresEntry(t, vectors[v].p, vectors[v].p_Init_size)
    BY <1>1, <1>3 DEF VectorFree, SizeToFree, StoresEntry
  <2>2. vectors[v].p \in Blocks \cup {NULL} /\ vectors[v].p_Init_size \in Lengths
    BY <1>1, VectorFacts
  <2>3. /\ \A u \in Threads \ {t} : cache'[u] = cache[u]
        /\ DOMAIN cache[t] = 1..Len(cache[t]) /\ Len(cache[t]) \in Nat
        /\ DOMAIN cache'[t] = 1..Len(cache[t]) + 1
        /\ \A j \in DOMAIN cache[t] : cache'[t][j] = cache[t][j]
        /\ cache'[t][Len(cache[t]) + 1] = [p |-> vectors[v].p, size |-> vectors[v].p_Init_size]
    BY <1>3, <2>1, <2>2, StoredEntries DEF Parts
  <2>4. Len(cache[t]) + 1 \in DOMAIN cache'[t] /\ DOMAIN cache[t] \subseteq DOMAIN cache'[t]
    BY <2>3
  <2>5. OwnedAfter(vectors[v].p)
    BY <2>3, <2>4 DEF OwnedAfter
  <2>6. CachesKeep(vectors[v].p)
    BY <2>3, <2>4 DEF CachesKeep
  <2>7. DOMAIN heap' \subseteq (DOMAIN heap \ {vectors[v].p}) \cup {vectors[v].p}
    BY <2>1
  <2> QED
    BY <1>2, <2>5, <2>6, <2>7, CoveredMoves
<1>4. CASE ~HasRoom(cache[t])
  <2>1. heap' = Without(heap, vectors[v].p) /\ UNCHANGED cache
    BY <1>1, <1>4 DEF VectorFree
  <2>2. DOMAIN heap' \subseteq DOMAIN heap \ {vectors[v].p}
    BY <2>1 DEF Without
  <2>3. CachesKeep(vectors[v].p)
    BY <2>1 DEF CachesKeep
  <2>4. DOMAIN heap' \subseteq (DOMAIN heap \ {vectors[v].p}) \cup {vectors[v].p}
    BY <2>2
  <2>5. vectors[v].p \notin DOMAIN heap'
    BY <2>2
  <2> QED
    BY <1>2, <2>3, <2>4, <2>5, CoveredMoves
<1> QED
  BY <1>3, <1>4

LEMMA ReallocCovers ==
  ASSUME Parts, Covered, ~build.memoryMayFail, build' = build,
         NEW t \in Threads, NEW v \in Vectors, NEW newlength \in Lengths,
         VectorRealloc(t, v, newlength)
  PROVE  Covered'
<1>1. v \in DOMAIN vectors /\ UNCHANGED cache
  BY DEF VectorRealloc
<1>2. vectors \in [DOMAIN vectors -> Vector] /\ vectors[v] \in Vector
  BY <1>1 DEF Parts, MemoryOK
<1>3. CASE heap' = heap /\ vectors' = [vectors EXCEPT ![v].Size = newlength]
  <2>1. DOMAIN vectors' = DOMAIN vectors /\ \A w \in DOMAIN vectors : vectors'[w].p = vectors[w].p
    BY <1>2, <1>3 DEF Vector
  <2> QED
    BY <1>1, <1>3, <2>1 DEF Covered, Owned
<1>4. ASSUME NEW q \in Fresh(vectors[v].p),
             DOMAIN heap' = (DOMAIN heap \ {vectors[v].p}) \cup {q},
             vectors' = [vectors EXCEPT ![v] = NewVector(q, newlength, newlength)]
      PROVE  Covered'
  <2>1. /\ DOMAIN vectors' = DOMAIN vectors /\ vectors'[v].p = q
        /\ \A w \in DOMAIN vectors \ {v} : vectors'[w].p = vectors[w].p
    BY <1>1, <1>2, <1>4 DEF NewVector
  <2>2. OwnedAfter(q)
    BY <1>1, <2>1 DEF OwnedAfter
  <2>3. CachesKeep(vectors[v].p) /\ VectorsKeep(vectors[v].p)
    BY <1>1, <2>1 DEF CachesKeep, VectorsKeep
  <2> QED
    BY <1>4, <2>2, <2>3, CoveredMoves
<1> QED
  BY <1>3, <1>4 DEF VectorRealloc, With, Without

LEMMA OtherCovers ==
  ASSUME Parts, Covered, ~build.threadSafe, NEW t \in Threads,
         \/ PolylibClose(t) \/ DeleteKey(t) \/ FinishClose(t) \/ CatchUncatch(t)
         \/ \E v \in Vectors, i \in 0..MaxLength - 1 : Write(t, v, i)
  PROVE  Covered'
<1>1. CASE PolylibClose(t)
  <2>1. /\ DOMAIN heap' = DOMAIN heap \ ClosedBlocks(t)
        /\ vectors' = vectors
        /\ \A u \in Threads \ {t} : cache'[u] = cache[u]
    BY <1>1 DEF PolylibClose, FreeCache, Parts, CachesOK
  <2>2. ASSUME NEW r \in DOMAIN heap' PROVE OwnedAfter(r)
    <3>1. Owned(r) /\ r \notin ClosedBlocks(t)
      BY <2>1 DEF Covered
    <3> QED
      BY <2>1, <3>1 DEF Owned, OwnedAfter, ClosedBlocks
  <2> QED
    BY <2>2 DEF Covered, Owned, OwnedAfter
<1>2. CASE \E v \in Vectors, i \in 0..MaxLength - 1 : Write(t, v, i)
  <2>1. DOMAIN heap' = DOMAIN heap /\ UNCHANGED <<cache, vectors>>
    BY <1>2 DEF Write, Parts, MemoryOK
  <2> QED
    BY <2>1 DEF Covered, Owned
<1> QED
  BY <1>1, <1>2 DEF DeleteKey, FinishClose, CatchUncatch

\* In the build without threads, and as long as memory lasts, every block of the
\* heap has an owner: none is ever lost, and polylib_close frees all the caches.
THEOREM NoLeakCorrect == Spec => []NoLeak
<1>1. NoLeak <=> (status = "running" /\ ~build.threadSafe /\ ~build.memoryMayFail => Covered)
  BY DEF NoLeak, Covered, Owned
<1>2. Init => NoLeak
  BY DEF Init, NoLeak
<1>3. ASSUME CacheInv, NoLeak, [Next]_vars PROVE NoLeak'
  <2>1. Parts /\ build.threads \subseteq Threads /\ build.vectors \subseteq Vectors
    BY <1>3, InvParts, BuildFacts DEF Parts
  <2>2. CASE UNCHANGED vars
    BY <1>3, <2>2 DEF vars, NoLeak
  <2>3. CASE Next
    <3> SUFFICES ASSUME status' = "running", ~build'.threadSafe, ~build'.memoryMayFail
                 PROVE  Covered'
      BY DEF NoLeak, Covered, Owned
    <3>1. build' = build /\ status = "running"
      BY <2>3 DEF Next, VectorAlloc, VectorRealloc, VectorFree, Write, CatchUncatch,
                  PolylibClose, DeleteKey, FinishClose, Running
    <3>2. Covered
      BY <1>1, <1>3, <3>1
    <3>3. ASSUME NEW t \in build.threads, NEW v \in build.vectors, NEW n \in Lengths, VectorAlloc(t, v, n)
          PROVE  Covered'
      <4>1. /\ v \notin DOMAIN vectors
            /\ Reuse(t, v, n) \/ Grow(t, v, n) \/ Malloc(t, v, n)
        BY <3>1, <3>3 DEF VectorAlloc
      <4> QED
        BY <2>1, <3>1, <3>2, <4>1, AllocCovers
    <3>4. ASSUME NEW t \in build.threads, NEW v \in build.vectors, NEW n \in Lengths, VectorRealloc(t, v, n)
          PROVE  Covered'
      BY <2>1, <3>1, <3>2, <3>4, ReallocCovers
    <3>5. ASSUME NEW t \in build.threads, NEW v \in build.vectors, VectorFree(t, v)
          PROVE  Covered'
      BY <2>1, <3>1, <3>2, <3>5, FreeCovers
    <3>6. ASSUME NEW t \in build.threads,
                 \/ PolylibClose(t) \/ DeleteKey(t) \/ FinishClose(t) \/ CatchUncatch(t)
                 \/ \E v \in Vectors, i \in 0..MaxLength - 1 : Write(t, v, i)
          PROVE  Covered'
      BY <2>1, <3>1, <3>2, <3>6, OtherCovers
    <3> QED
      BY <2>1, <2>3, <3>3, <3>4, <3>5, <3>6 DEF Next
  <2> QED
    BY <1>3, <2>2, <2>3
<1> QED
  BY <1>2, <1>3, InvCorrect, PTL DEF Spec
=============================================================================
