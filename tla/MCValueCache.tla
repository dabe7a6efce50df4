---------------------------- MODULE MCValueCache ----------------------------
(* A few addresses, a few vectors and a cache of one or two entries: it can  *)
(* be empty, hold arrays that are too short, long enough or both, and be     *)
(* full.  The program without threads has more vectors and a longer cache;   *)
(* that with two threads hands vectors over, closes the library and meets    *)
(* failing allocations.                                                      *)
EXTENDS ValueCache, TLC

CONSTANTS b1, b2, b3, b4, v, w, x, t1, t2

MCBlocks  == {b1, b2, b3, b4}
MCVectors == {v, w, x}
MCThreads == {t1, t2}
Symmetry == Permutations({b1, b2, b3}) \cup Permutations({v, w}) \cup Permutations(MCThreads)

OneThread(t) == [threadSafe |-> FALSE, MAX_CACHE_SIZE |-> 2, memoryMayFail |-> FALSE,
                 threads |-> {t}, blocks |-> MCBlocks, vectors |-> MCVectors]
TwoThreads   == [threadSafe |-> TRUE, MAX_CACHE_SIZE |-> 1, memoryMayFail |-> TRUE,
                 threads |-> MCThreads, blocks |-> {b1, b2, b3}, vectors |-> {v, w}]
MCBuilds == {OneThread(t) : t \in MCThreads} \cup {TwoThreads}

\* One thread in the build with threads.
AfterBuilds == {[OneThread(t1) EXCEPT !.threadSafe = TRUE, !.vectors = {v, w}]}
=============================================================================
