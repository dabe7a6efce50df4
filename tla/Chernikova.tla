---------------------------- MODULE Chernikova ----------------------------
(***************************************************************************)
(* Chernikova of source/kernel/polyhedron.c: the incremental computation   *)
(* of the dual of the constraints in Mat (the double description method).  *)
(* Ray holds the rays and lines of the cone of the constraints processed   *)
(* so far, Sat which of these constraints each of them does not saturate.  *)
(*                                                                         *)
(* The steps of the function are the actions of this module; the phase of  *)
(* the function that runs next is pc.  RaySort runs step by step.          *)
(***************************************************************************)
EXTENDS Vectors, RaySort, FiniteSets

CONSTANT WSIZE          \* bits in a word of a saturation row (32 in the code)
ASSUME WSIZEAssumption == WSIZE \in Nat \ {0}

VARIABLES             \* besides those of RaySort
  pc,               \* the phase of the function
  Mat,              \* [0..NbConstraints-1 -> row]; status 0 is an equality
  k,                \* the constraint being processed; its bit is <<jx,bx>>
  dual,             \* the last argument: Mat holds rays, Ray constraints
  NbMaxRays,        \* rows allocated for Ray and Sat
  i, j,             \* the pair of rays being examined
  bound             \* the number of rows before the new rays

pair == <<i, j, bound>>
chernikovaVars == <<pc, Mat, k, dual, Ray, Sat, NbBid, NbRay, NbMaxRays,
                    jx, bx, bounds, pair>>

NbConstraints == Cardinality(DOMAIN Mat)
Equality(c) == Mat[c][0] = 0

\* A ray, as opposed to a vertex: its last coordinate is zero.
AtInfinity(p) == p[Dimension] = 0

\* The first n rows of a matrix; the rows the code leaves behind are dead.
Rows(M, n) == [x \in 0 .. n - 1 |-> M[x]]

\* The matrix with row x written.
WithRow(M, x, p) == [y \in DOMAIN M \cup {x} |-> IF y = x THEN p ELSE M[y]]

(***************************************************************************)
(* The status word of each row becomes its inner product with constraint   *)
(* k.  When a line does not saturate the constraint, it leaves the lines;  *)
(* otherwise the rays are sorted.                                          *)
(***************************************************************************)
Evaluate ==
  /\ pc = "head"
  /\ k < NbConstraints
  /\ Ray' = [x \in 0 .. NbRay - 1 |->
               [Ray[x] EXCEPT ![0] = InnerProduct(Ray[x], Mat[k])]]
  /\ \/ /\ \E x \in 0 .. NbBid - 1 : Ray'[x][0] # 0
        /\ pc' = "line"
        /\ UNCHANGED bounds
     \/ /\ \A x \in 0 .. NbBid - 1 : Ray'[x][0] = 0
        /\ pc' = "sort"
        /\ StartSort
  /\ UNCHANGED <<Mat, k, dual, Sat, NbBid, NbRay, NbMaxRays, jx, bx, pair>>

\* NEXT(jx,bx), and the next turn of the loop over the constraints.
NextConstraint ==
  /\ pc' = "head"
  /\ k' = k + 1
  /\ IF bx = WSIZE - 1 THEN jx' = jx + 1 /\ bx' = 0
                       ELSE bx' = bx + 1 /\ UNCHANGED jx

\* Wrong variant: the first line leaves, whether it saturates k or not.
IndexFirst == 0

\* The first line that does not saturate constraint k.
IndexNonZero ==
  CHOOSE x \in 0 .. NbBid - 1 :
    Ray[x][0] # 0 /\ \A y \in 0 .. x - 1 : Ray[y][0] = 0

\* All the rows of M but row z, moved along row z onto the hyperplane of k.
Projected(M, z, from, to) ==
  [x \in DOMAIN M |->
     IF x \in from .. to - 1 /\ M[x][0] # 0 THEN Combine(M[x], M[z], M[x], 0)
                                            ELSE M[x]]

(***************************************************************************)
(* The rows once the line z that does not saturate constraint k is the     *)
(* last of the lines and points inside: the other lines, and the rays      *)
(* after it has been turned, are combined with it.                         *)
(***************************************************************************)
Straightened ==
  LET z     == NbBid - 1
      moved == Exchange(Ray, IndexNonZero, z)
      lines == Projected(moved, z, 0, z)
      turned == [lines EXCEPT ![z] =
                   IF @[0] < 0 THEN [c \in 0..Dimension |-> -@[c]] ELSE @]
  IN  Projected(turned, z, NbBid, NbRay)

\* An inequality: the line that left is now a ray, inside the half-space.
LineToRay ==
  /\ pc = "line"
  /\ ~Equality(k)
  /\ NbBid' = NbBid - 1
  /\ Ray' = Straightened
  /\ Sat' = [Sat EXCEPT ![NbBid - 1] = {Bit}]
  /\ NextConstraint
  /\ UNCHANGED <<Mat, dual, NbRay, NbMaxRays, bounds, pair>>

\* An equality: it disappears, and the last row takes its place.
DiscardLine ==
  /\ pc = "line"
  /\ Equality(k)
  /\ NbBid' = NbBid - 1
  /\ NbRay' = NbRay - 1
  /\ Ray' = Rows(WithRow(Straightened, NbBid - 1, Straightened[NbRay - 1]),
                 NbRay - 1)
  /\ Sat' = Rows(WithRow(Sat, NbBid - 1, Sat[NbRay - 1]), NbRay - 1)
  /\ NextConstraint
  /\ UNCHANGED <<Mat, dual, NbMaxRays, bounds, pair>>

Sort ==
  /\ pc = "sort"
  /\ SortStep
  /\ UNCHANGED <<pc, Mat, k, dual, NbBid, NbRay, NbMaxRays, jx, bx, pair>>

\* The first pair of the double loop over R+ and R-.
StartPairs ==
  /\ pc = "sort"
  /\ ~Scanning
  /\ pc' = "pairs"
  /\ i' = equal_bound
  /\ j' = sup_bound
  /\ bound' = NbRay
  /\ UNCHANGED <<Mat, k, dual, Ray, Sat, NbBid, NbRay, NbMaxRays, jx, bx,
                 bounds>>
----------------------------------------------------------------------------
\* The bits of the constraints before k, and those up to the end of word jx.
BitsBefore == {b \in (0..jx) \X (0 .. WSIZE - 1) : b[1] < jx \/ b[2] < bx}
ComparedBits == (0..jx) \X (0 .. WSIZE - 1)

\* The pair saturates the positivity constraint, which is not in Mat.
RayOnly(p, q) == AtInfinity(Ray[p]) /\ AtInfinity(Ray[q]) /\ ~dual

NbCommonConstraints(p, q) ==
  Cardinality(BitsBefore \ (Sat[p] \cup Sat[q]))
    + (IF RayOnly(p, q) THEN 1 ELSE 0)

\* Row m saturates every constraint that rows p and q both saturate.
MakesRedundant(m, p, q) ==
  /\ m \notin {p, q}
  /\ RayOnly(p, q) => AtInfinity(Ray[m])
  /\ Sat[m] \cap ComparedBits \subseteq Sat[p] \cup Sat[q]

\* Wrong variant: no search for a third row.
AdjacentByCount(p, q) == NbCommonConstraints(p, q) + NbBid >= Dimension - 2

(***************************************************************************)
(* The adjacency test: a dimension check, then the search for a third row  *)
(* on the smallest face that holds both.                                   *)
(***************************************************************************)
Adjacent(p, q) ==
  /\ NbCommonConstraints(p, q) + NbBid >= Dimension - 2
  /\ \A m \in NbBid .. bound - 1 : ~MakesRedundant(m, p, q)

NextPair ==
  /\ IF j + 1 < bound THEN j' = j + 1 /\ UNCHANGED i
                      ELSE j' = sup_bound /\ i' = i + 1
  /\ UNCHANGED bound

InPairs == pc = "pairs" /\ i < sup_bound /\ j < bound

\* Wrong variant: the matrix is enlarged one row too late.
EnlargeLate ==
  NbMaxRays' = IF NbRay > NbMaxRays THEN 2 * NbMaxRays ELSE NbMaxRays

\* A full matrix is doubled.
Enlarge == NbMaxRays' = IF NbRay = NbMaxRays THEN 2 * NbMaxRays ELSE NbMaxRays

\* Wrong variant: the new ray keeps the bit of the constraint it saturates.
CombinedSatUncleared(p, q) == Sat[p] \cup Sat[q]

\* SatVector_OR, and the bit of constraint k cleared.
CombinedSat(p, q) == (Sat[p] \cup Sat[q]) \ {Bit}

\* An adjacent pair: the combination of both that saturates constraint k.
\* Its status word is not initialised before the next evaluation.
AddRay ==
  /\ InPairs
  /\ Adjacent(i, j)
  /\ Enlarge
  /\ Ray' = WithRow(Ray, NbRay,
              Combine(Ray[j], Ray[i], [c \in 0..Dimension |-> 0], 0))
  /\ Sat' = WithRow(Sat, NbRay, CombinedSat(j, i))
  /\ NbRay' = NbRay + 1
  /\ NextPair
  /\ UNCHANGED <<pc, Mat, k, dual, NbBid, jx, bx, bounds>>

SkipPair ==
  /\ InPairs
  /\ ~Adjacent(i, j)
  /\ NextPair
  /\ UNCHANGED <<pc, Mat, k, dual, Ray, Sat, NbBid, NbRay, NbMaxRays, jx, bx,
                 bounds>>

\* Wrong variant: as many rows as before.
CompactedUnshrunk(M, first) == M

\* The rows of M from first to bound-1 give way to the new ones: rows from
\* the end are copied down until the gap or the new rows are used up.
Compacted(M, first) ==
  LET moved == IF bound - first < NbRay - bound THEN bound - first
                                                 ELSE NbRay - bound
  IN  [x \in 0 .. first + NbRay - bound - 1 |->
         IF x \in first .. first + moved - 1 THEN M[NbRay - 1 - (x - first)]
                                             ELSE M[x]]

\* The first row that leaves: an equality drops R+ as well.
FirstDropped == IF Equality(k) THEN equal_bound ELSE sup_bound

(***************************************************************************)
(* The rays that do not verify the constraint are dropped, for an equality *)
(* those that verify it strictly as well.                                  *)
(***************************************************************************)
Eliminate ==
  /\ pc = "pairs"
  /\ ~InPairs
  /\ Ray' = Compacted(Ray, FirstDropped)
  /\ Sat' = Compacted(Sat, FirstDropped)
  /\ NbRay' = FirstDropped + NbRay - bound
  /\ NextConstraint
  /\ UNCHANGED <<Mat, dual, NbBid, NbMaxRays, bounds, pair>>

ProcessConstraint ==
  \/ Evaluate \/ LineToRay \/ DiscardLine \/ Sort \/ StartPairs
  \/ AddRay \/ SkipPair \/ Eliminate
============================================================================
