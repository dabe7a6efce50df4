------------------------------ MODULE RaySort ------------------------------
(***************************************************************************)
(* RaySort of source/kernel/polyhedron.c: the in-place three-way partition *)
(* of the unidirectional rays that Chernikova runs once per constraint.    *)
(*                                                                         *)
(* A row of Ray is a function p on 0..Dimension; p[0] is the status word,  *)
(* which holds the inner product of the ray with the current constraint.   *)
(* A row of Sat is the set of its 1-bits; a bit is a pair <<word, bit>>    *)
(* (bit 0 is MSB), and a 1-bit means "does not saturate".                  *)
(*                                                                         *)
(* Only the steps of the loop are here: RaySortSpec closes them into a     *)
(* system of their own, Chernikova runs them as its sorting phase.         *)
(***************************************************************************)
EXTENDS Integers

VARIABLES
  Ray,          \* [0..NbRay-1 -> row], Ray->p
  Sat,          \* [0..NbRay-1 -> set of bits], Sat->p
  NbBid,        \* number of lines: the rows below it are not sorted
  NbRay,        \* number of rows
  jx, bx,       \* the bit of the current constraint: word and position
  equal_bound,  \* NbBid..equal_bound-1 saturate the constraint
  sup_bound,    \* equal_bound..sup_bound-1 verify it; the scan is here
  inf_bound     \* inf_bound..NbRay-1 do not verify it

bounds == <<equal_bound, sup_bound, inf_bound>>

\* The bit of the current constraint in a row of Sat.
Bit == <<jx, bx>>

\* Wrong variants: nothing is exchanged; the saturation rows stay behind.
ExchangeNothing(M, a, b) == M
BExchangeNothing(M, a, b) == M

\* Vector_Exchange: the contents of two rows of Ray are exchanged.
Exchange(M, a, b) == [M EXCEPT ![a] = M[b], ![b] = M[a]]

\* bexchange: the same for two rows of Sat.
BExchange(M, a, b) == [M EXCEPT ![a] = M[b], ![b] = M[a]]

\* Wrong variants: the bit is not set; another bit is.
MarkedNothing == Sat
MarkedNextBit == [Sat EXCEPT ![sup_bound] = @ \cup {<<jx, bx + 1>>}]

\* Sat with the bit of the constraint set for the scanned ray.
Marked == [Sat EXCEPT ![sup_bound] = @ \cup {Bit}]

\* The three pointers at the start of the call.
StartSort ==
  /\ equal_bound' = NbBid
  /\ sup_bound' = NbBid
  /\ inf_bound' = NbRay

Scanning == sup_bound < inf_bound

\* The scanned ray saturates the constraint: it joins the first tier, and
\* the first ray of the second tier takes its place.
Satisfy ==
  /\ Scanning
  /\ Ray[sup_bound][0] = 0
  /\ Ray' = Exchange(Ray, equal_bound, sup_bound)
  /\ Sat' = BExchange(Sat, equal_bound, sup_bound)
  /\ equal_bound' = equal_bound + 1
  /\ sup_bound' = sup_bound + 1
  /\ UNCHANGED inf_bound

\* It verifies the constraint strictly: it stays, with its bit set.
Verify ==
  /\ Scanning
  /\ Ray[sup_bound][0] > 0
  /\ Sat' = Marked
  /\ sup_bound' = sup_bound + 1
  /\ UNCHANGED <<Ray, equal_bound, inf_bound>>

\* It does not verify the constraint: with its bit set, it is exchanged with
\* the last ray not yet scanned, which is scanned next.
Violate ==
  /\ Scanning
  /\ Ray[sup_bound][0] < 0
  /\ inf_bound' = inf_bound - 1
  /\ Ray' = Exchange(Ray, inf_bound - 1, sup_bound)
  /\ Sat' = BExchange(Marked, inf_bound - 1, sup_bound)
  /\ UNCHANGED <<equal_bound, sup_bound>>

SortStep == Satisfy \/ Verify \/ Violate
============================================================================
