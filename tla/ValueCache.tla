----------------------------- MODULE ValueCache -----------------------------
(* The cache of arrays of Values of source/kernel/vector.c and the vectors   *)
(* that live on it.  Every vector, matrix and polyhedron takes its array     *)
(* from value_alloc and gives it back to value_free; a freed array stays,    *)
(* with its initialised Values, in the cache of the freeing thread and is    *)
(* handed out again, possibly to a request of a smaller length.              *)
(*                                                                           *)
(* In the build with threads a thread finds its cache under the key of the   *)
(* value caches, and its exception stack (source/arith/errors.c) under a     *)
(* second key; polylib_close deletes the first one.  Keys are slots of the   *)
(* C library, which hands out the lowest free one.                           *)
(*                                                                           *)
(* A block of the C heap is [init, dirty]: how many of its Values went       *)
(* through value_init, and which of them are not zero.                       *)
EXTENDS Integers, FiniteSets, SequencesExt

CONSTANTS
  Threads,          \* the threads of the program
  Blocks,           \* the addresses malloc and realloc return
  NULL,             \* the null pointer
  Vectors,          \* the vectors the program may hold at a time
  MaxLength,        \* bound: the longest vector asked for
  Builds            \* the builds of the library and the programs that use them:
                    \*   threadSafe: built with THREAD_SAFE_POLYLIB
                    \*   MAX_CACHE_SIZE: arrays kept per cache
                    \*   memoryMayFail: malloc and realloc may return NULL
                    \*   threads, blocks, vectors: those this program has

ASSUME ConstantsAssumption ==
  /\ MaxLength \in Nat
  /\ NULL \notin Blocks
  /\ \A b \in Builds :
       /\ b \in [threadSafe : BOOLEAN, MAX_CACHE_SIZE : Nat, memoryMayFail : BOOLEAN,
                 threads : SUBSET Threads, blocks : SUBSET Blocks, vectors : SUBSET Vectors]
       /\ b.threadSafe \/ Cardinality(b.threads) = 1

VARIABLES
  build,     \* the build that runs
  heap,      \* the blocks allocated in the C heap
  cache,     \* per thread: its cache_holder entries, cache_size is the length
  slots,     \* the slots of thread-specific data in use
  keys,      \* the slot in cache_key and in mt_key, 0 before pthread_once
  specific,  \* per thread and slot: what its pointer points to
  vectors,   \* the vectors alive: [p, Size, p_Init_size]
  closing,   \* the threads in polylib_close, the key of the caches just deleted
  status     \* "running", "aborted" by an assert, "crashed" on a NULL pointer,
             \* "corrupted" by using one thread-specific structure as the other

keyVars == <<slots, keys, specific>>
vars == <<build, heap, cache, keyVars, vectors, closing, status>>

Slot == 1..2

Lengths == 0..MaxLength
Block == [init : Lengths, dirty : SUBSET (0..MaxLength - 1)]

Init ==
  /\ build \in Builds
  /\ heap = << >>
  /\ cache = [t \in Threads |-> << >>]
  /\ slots = {}
  /\ keys = [values |-> 0, exceptions |-> 0]
  /\ specific = [t \in Threads |-> [k \in Slot |-> "nothing"]]
  /\ vectors = << >>
  /\ closing = {}
  /\ status = "running"

-----------------------------------------------------------------------------
(* The C heap.                                                               *)

Without(f, x) == [y \in DOMAIN f \ {x} |-> f[y]]
With(f, x, value) == [y \in DOMAIN f \cup {x} |-> IF y = x THEN value ELSE f[y]]

\* The block p, recorded with got Values, once it is reallocated for want: the
\* contents are kept, and value_init makes zeros from got on.
Grown(p, got, want) ==
  LET old == IF p \in DOMAIN heap THEN heap[p] ELSE [init |-> 0, dirty |-> {}] IN
  [init |-> IF got <= old.init THEN want ELSE old.init, dirty |-> old.dirty]

Cleaned(block, length) == [block EXCEPT !.dirty = {i \in @ : i >= length}]

\* The addresses malloc(n), or realloc(p, n), may return.
Fresh(p) == (build.blocks \ DOMAIN heap) \cup ({p} \ {NULL})

-----------------------------------------------------------------------------
(* The thread-specific data.                                                 *)

Fail(outcome) ==
  /\ status' = outcome
  /\ UNCHANGED <<heap, cache, keyVars, vectors, closing>>

\* The thread may call the library.
Running(t) == status = "running" /\ t \notin closing

\* The keys and slots after pthread_once made sure that the key exists.
LowestFree == CHOOSE k \in Slot \ slots : \A l \in Slot \ slots : k <= l
Once(key) ==
  IF keys[key] # 0 THEN [keys |-> keys, slots |-> slots]
  ELSE [keys |-> [keys EXCEPT ![key] = LowestFree], slots |-> slots \cup {LowestFree}]

\* pthread_getspecific.
GetSpecific(t, key) ==
  IF keys[key] # 0 /\ keys[key] \in slots THEN specific[t][keys[key]] ELSE "nothing"

\* What a thread has under a key when it needs its structure there: its own,
\* allocated now if there was none; the other one; or it cannot have any,
\* because pthread_setspecific fails on a deleted key.
Found(t, key) ==
  IF GetSpecific(t, key) # "nothing" THEN GetSpecific(t, key)
  ELSE IF Once(key).keys[key] \in Once(key).slots THEN key ELSE "deleted"

Ensured(t, key) ==
  /\ keys' = Once(key).keys
  /\ slots' = Once(key).slots
  /\ specific' = [specific EXCEPT ![t][Once(key).keys[key]] = key]

\* What becomes of a thread that cannot have its structure.
Outcome(found) == IF found \in {"deleted", "nothing"} THEN "aborted" ELSE "corrupted"

-----------------------------------------------------------------------------
(* value_alloc and value_free, for the cache of one thread.                  *)

\* Wrong variants: the last entry of a cache is dropped instead of the taken
\* one, the bound of the cache is passed.
TakenLast(c, i) == SubSeq(c, 1, Len(c) - 1)
HasRoomOneMore(c) == Len(c) <= build.MAX_CACHE_SIZE

\* The thread finds a cache: its own, or the one of the build without threads.
HasCache(t) == ~build.threadSafe \/ GetSpecific(t, "values") = "values"

\* The cache c after its entry i was taken: the last entry moves there.
Taken(c, i) == SubSeq([c EXCEPT ![i] = Last(c)], 1, Len(c) - 1)

Fits(c, want) == {i \in DOMAIN c : c[i].size >= want}

HasRoom(c) == Len(c) < build.MAX_CACHE_SIZE

\* The first of the largest entries, if there is one.
Best(c) ==
  {i \in DOMAIN c :
    \A j \in DOMAIN c : c[j].size < c[i].size \/ (c[j].size = c[i].size /\ i <= j)}

\* Wrong variant: nothing is cleaned in a reused array.
ReuseUncleaned(block, want) == block

Got(size, want) == size
Reused(block, want) == Cleaned(block, want)

NewVector(p, want, got) == [p |-> p, Size |-> want, p_Init_size |-> got]

\* value_alloc finds an array that is long enough and takes the first one.
Reuse(t, v, want) ==
  \E i \in Fits(cache[t], want) :
    LET found == cache[t][i] IN
    /\ \A j \in Fits(cache[t], want) : i <= j
    /\ cache' = [cache EXCEPT ![t] = Taken(@, i)]
    /\ vectors' = With(vectors, v, NewVector(found.p, want, Got(found.size, want)))
    /\ heap' = IF found.p = NULL THEN heap
               ELSE [heap EXCEPT ![found.p] = Reused(@, want)]
    /\ UNCHANGED status

\* All the arrays of the cache are too short: the longest one is reallocated,
\* its old Values set to zero and the others initialised.
Grow(t, v, want) ==
  \E i \in Best(cache[t]) :
    LET best == cache[t][i] IN
    /\ Fits(cache[t], want) = {}
    /\ cache' = [cache EXCEPT ![t] = Taken(@, i)]
    /\ \/ \E q \in Fresh(best.p) :
            /\ heap' = With(Without(heap, best.p), q,
                            Cleaned(Grown(best.p, best.size, want), best.size))
            /\ vectors' = With(vectors, v, NewVector(q, want, want))
            /\ UNCHANGED status
       \/ /\ build.memoryMayFail   \* the old Values are cleared through NULL
          /\ best.size > 0
          /\ status' = "crashed"
          /\ UNCHANGED <<heap, vectors>>
       \/ /\ build.memoryMayFail   \* nothing to clear: NULL is returned
          /\ best.size = 0
          /\ vectors' = With(vectors, v, NewVector(NULL, want, 0))
          /\ UNCHANGED <<heap, status>>

\* The cache is empty.
Malloc(t, v, want) ==
  /\ cache[t] = << >>
  /\ \/ \E q \in Fresh(NULL) :
          /\ heap' = With(heap, q, Grown(NULL, 0, want))
          /\ vectors' = With(vectors, v, NewVector(q, want, want))
     \/ /\ build.memoryMayFail
        /\ heap' = heap
        /\ vectors' = With(vectors, v, NewVector(NULL, want, 0))
  /\ UNCHANGED <<cache, status>>

\* Vector_Alloc: a thread without a cache gets one.
VectorAlloc(t, v, want) ==
  /\ Running(t)
  /\ v \notin DOMAIN vectors
  /\ \/ /\ HasCache(t) \/ Found(t, "values") = "values"
        /\ Reuse(t, v, want) \/ Grow(t, v, want) \/ Malloc(t, v, want)
        /\ IF build.threadSafe THEN Ensured(t, "values") ELSE UNCHANGED keyVars
        /\ UNCHANGED closing
     \/ /\ build.threadSafe
        /\ Found(t, "values") # "values"
        /\ Fail(Outcome(Found(t, "values")))

Stored(c, p, size) == Append(c, [p |-> p, size |-> size])

\* A wrong variant: value_free given the length of the vector, not of its array.
FreedSize(vector) == vector.Size
SizeToFree(vector) == vector.p_Init_size

\* Vector_Free: the array goes to the cache of the thread, or back to the heap
\* when that cache is full.
VectorFree(t, v) ==
  /\ Running(t)
  /\ v \in DOMAIN vectors
  /\ IF HasCache(t)
     THEN /\ IF HasRoom(cache[t])
             THEN /\ cache' = [cache EXCEPT ![t] =
                                 Stored(@, vectors[v].p, SizeToFree(vectors[v]))]
                  /\ UNCHANGED heap
             ELSE /\ heap' = Without(heap, vectors[v].p)
                  /\ UNCHANGED cache
          /\ vectors' = Without(vectors, v)
          /\ UNCHANGED <<keyVars, closing, status>>
     ELSE Fail(Outcome(GetSpecific(t, "values")))

-----------------------------------------------------------------------------
(* The other operations of the program on its vectors.                       *)

\* Vector_Realloc: the array is reallocated when it is too short.  The loop
\* that should set the new Values to zero runs from the new length.
VectorRealloc(t, v, newlength) ==
  LET old == vectors[v] IN
  /\ Running(t)
  /\ v \in DOMAIN vectors
  /\ IF newlength > old.p_Init_size
     THEN \/ \E q \in Fresh(old.p) :
               /\ heap' = With(Without(heap, old.p), q, Grown(old.p, old.p_Init_size, newlength))
               /\ vectors' = [vectors EXCEPT ![v] = NewVector(q, newlength, newlength)]
               /\ UNCHANGED status
          \/ /\ build.memoryMayFail   \* the message is printed, then NULL is used
             /\ status' = "crashed"
             /\ UNCHANGED <<heap, vectors>>
     ELSE /\ vectors' = [vectors EXCEPT ![v].Size = newlength]
          /\ UNCHANGED <<heap, status>>
  /\ UNCHANGED <<cache, keyVars, closing>>

\* The program stores a value that is not zero in a vector it got.
Write(t, v, i) ==
  /\ Running(t)
  /\ v \in DOMAIN vectors
  /\ vectors[v].p # NULL
  /\ i < vectors[v].Size
  /\ heap' = [heap EXCEPT ![vectors[v].p].dirty = @ \cup {i}]
  /\ UNCHANGED <<cache, keyVars, vectors, closing, status>>

\* Wrong variants: the last entry of the cache is forgotten, the caches of all
\* the threads are freed.
ClosedAllButLast(t) == {cache[t][i].p : i \in 1..Len(cache[t]) - 1}
ClosedOfAll(t) == UNION {{cache[u][i].p : i \in DOMAIN cache[u]} : u \in Threads}
ClosedBlocks(t) == {cache[t][i].p : i \in DOMAIN cache[t]}

\* A library call that pushes an exception context and pops it.
CatchUncatch(t) ==
  /\ Running(t)
  /\ build.threadSafe
  /\ IF Found(t, "exceptions") = "exceptions"
     THEN /\ Ensured(t, "exceptions")
          /\ UNCHANGED <<heap, cache, vectors, closing, status>>
     ELSE Fail(Outcome(Found(t, "exceptions")))

\* free_value_cache frees the blocks of the cache of the thread.
FreeCache(t) == heap' = [p \in DOMAIN heap \ ClosedBlocks(t) |-> heap[p]]

\* A thread that finds its cache in slot k loses it with the slot; what the cache
\* holds stays allocated.
LosesCache(u, k) == specific[u][k] = "values"

\* What free_exception_stack finds, the key of the caches being deleted or not.
StackFound(t, deleted) ==
  IF keys["exceptions"] \in deleted THEN "nothing" ELSE GetSpecific(t, "exceptions")

\* polylib_close in the build without threads.
PolylibClose(t) ==
  /\ status = "running"
  /\ ~build.threadSafe
  /\ FreeCache(t)
  /\ cache' = [cache EXCEPT ![t] = << >>]
  /\ UNCHANGED <<keyVars, vectors, closing, status>>

\* polylib_close of a thread that has a cache: free_value_cache deletes the key,
\* and with it what every other thread finds under it.
DeleteKey(t) ==
  /\ Running(t)
  /\ build.threadSafe
  /\ \/ /\ GetSpecific(t, "values") = "values"
        /\ slots' = slots \ {keys["values"]}
        /\ specific' = [u \in Threads |-> [specific[u] EXCEPT ![keys["values"]] = "nothing"]]
        /\ cache' = [u \in Threads |->
             IF u # t /\ LosesCache(u, keys["values"]) THEN << >> ELSE cache[u]]
        /\ closing' = closing \cup {t}
        /\ UNCHANGED <<heap, keys, vectors, status>>
     \/ /\ GetSpecific(t, "values") = "exceptions"
        /\ Fail("corrupted")

\* The rest of it: the cache is freed and its key deleted once more, whoever has
\* got the slot since, or there was no cache and the key exists from now on;
\* then free_exception_stack, which creates its key if nobody did.
FinishClose(t) ==
  LET deleted == IF t \in closing THEN {keys["values"]} ELSE {}
      open  == Once("values").slots \ deleted
      first == CHOOSE k \in Slot \ open : \A l \in Slot \ open : k <= l
      stack == IF keys["exceptions"] = 0 THEN first ELSE keys["exceptions"]
  IN /\ status = "running"
     /\ build.threadSafe
     /\ t \in closing \/ GetSpecific(t, "values") = "nothing"
     /\ \/ /\ StackFound(t, deleted) # "values"
           /\ IF t \in closing
              THEN /\ FreeCache(t)
                   /\ cache' = [u \in Threads |->
                        IF u = t \/ LosesCache(u, keys["values"])
                        THEN << >> ELSE cache[u]]
              ELSE UNCHANGED <<heap, cache>>
           /\ keys' = [Once("values").keys EXCEPT !["exceptions"] = stack]
           /\ slots' = IF keys["exceptions"] = 0 THEN open \cup {first} ELSE open
           /\ specific' = [u \in Threads |-> [k \in Slot |->
                IF k \in deleted \/ (u = t /\ k = stack) THEN "nothing" ELSE specific[u][k]]]
           /\ closing' = closing \ {t}
           /\ UNCHANGED <<vectors, status>>
        \/ /\ StackFound(t, deleted) = "values"
           /\ Fail("corrupted")

Next ==
  /\ \/ \E t \in build.threads, v \in build.vectors :
           \/ \E n \in Lengths : VectorAlloc(t, v, n) \/ VectorRealloc(t, v, n)
           \/ VectorFree(t, v)
           \/ \E i \in 0..MaxLength - 1 : Write(t, v, i)
     \/ \E t \in build.threads :
           CatchUncatch(t) \/ PolylibClose(t) \/ DeleteKey(t) \/ FinishClose(t)
  /\ UNCHANGED build

Spec == Init /\ [][Next]_vars

-----------------------------------------------------------------------------
(* Properties.                                                               *)

Entry == [p : Blocks \cup {NULL}, size : Lengths]
Vector == [p : Blocks \cup {NULL}, Size : Lengths, p_Init_size : Lengths]

\* Types, and no cache ever holds more than MAX_CACHE_SIZE entries: in the
\* thread-safe build the entry after the last one holds cache_size itself.  Each
\* slot in use belongs to a key, so that a key can always be created.
TypeOK ==
  /\ build \in Builds
  /\ DOMAIN heap \subseteq Blocks
  /\ heap \in [DOMAIN heap -> Block]
  /\ cache \in [Threads -> Seq(Entry)]
  /\ \A t \in Threads : Len(cache[t]) <= build.MAX_CACHE_SIZE
  /\ keys \in [{"values", "exceptions"} -> Slot \cup {0}]
  /\ slots \subseteq {keys["values"], keys["exceptions"]} \ {0}
  /\ specific \in [Threads -> [Slot -> {"nothing", "values", "exceptions"}]]
  /\ DOMAIN vectors \subseteq Vectors
  /\ vectors \in [DOMAIN vectors -> Vector]
  /\ closing \subseteq Threads
  /\ status \in {"running", "aborted", "crashed", "corrupted"}

\* No array has two owners, whatever was freed, taken from the middle of the
\* cache, moved by realloc or cached by another thread: two vectors never share
\* Values, a vector never holds a cached array, and no array is freed twice.
NoAlias ==
  /\ \A t, u \in Threads : \A i \in DOMAIN cache[t], j \in DOMAIN cache[u] :
       cache[t][i].p = cache[u][j].p => (t = u /\ i = j) \/ cache[t][i].p = NULL
  /\ \A v, w \in DOMAIN vectors : vectors[v].p = vectors[w].p => v = w \/ vectors[v].p = NULL
  /\ \A t \in Threads : \A i \in DOMAIN cache[t], v \in DOMAIN vectors :
       cache[t][i].p = vectors[v].p => vectors[v].p = NULL
  /\ \A t \in Threads : \A i \in DOMAIN cache[t] : cache[t][i].p \in DOMAIN heap \cup {NULL}
  /\ \A v \in DOMAIN vectors : vectors[v].p \in DOMAIN heap \cup {NULL}

\* The number of initialised Values that the pointer p has in the C heap h.
Initialised(h, p) == IF p \in DOMAIN h THEN h[p].init ELSE 0

\* The length recorded with an array, in a cache or in a vector, is the number
\* of its initialised Values: value_clear is called on each of them and on no
\* other when the array is freed.  A vector is no longer than its array, and
\* nothing was ever written behind the initialised Values.
BlocksExact ==
  /\ \A t \in Threads : \A i \in DOMAIN cache[t] :
       cache[t][i].size = Initialised(heap, cache[t][i].p)
  /\ \A v \in DOMAIN vectors :
       /\ vectors[v].p_Init_size = Initialised(heap, vectors[v].p)
       /\ vectors[v].p # NULL => vectors[v].Size <= vectors[v].p_Init_size
  /\ \A p \in DOMAIN heap : \A i \in heap[p].dirty : i < heap[p].init

\* Vector_Alloc initialises the Values to zero: no Value written in an earlier
\* life of the array is visible in the new vector.
FreshIsZero ==
  [][\A v \in DOMAIN vectors' \ DOMAIN vectors :
       vectors'[v].p \in DOMAIN heap' => \A i \in heap'[vectors'[v].p].dirty : i >= vectors'[v].Size]_vars

\* What a vector contains changes only under the program's own write: a step on
\* another vector, a cache or another thread leaves it alone.
ContentsKept ==
  [][\A v \in DOMAIN vectors \cap DOMAIN vectors' :
       vectors[v].p \in DOMAIN heap /\ vectors'[v].p \in DOMAIN heap' =>
         \/ heap'[vectors'[v].p].dirty = heap[vectors[v].p].dirty
         \/ \E t \in Threads, i \in 0..vectors[v].Size - 1 : Write(t, v, i)]_vars

\* Every block of the heap is owned by a vector or by the cache, in the build
\* without threads and as long as memory lasts: with threads polylib_close loses
\* what the caches of the other threads hold, and a failing realloc its argument.
NoLeak ==
  status = "running" /\ ~build.threadSafe /\ ~build.memoryMayFail =>
    \A p \in DOMAIN heap :
      \/ \E t \in Threads : \E i \in DOMAIN cache[t] : cache[t][i].p = p
      \/ \E v \in DOMAIN vectors : vectors[v].p = p

\* The library stays usable, polylib_close or not: no assert of the cache or of
\* the exception stack fails, and neither is taken for the other.
StaysUsable == status \notin {"aborted", "corrupted"}
=============================================================================
