---------------------------- MODULE RaySortSpec ----------------------------
(***************************************************************************)
(* RaySort as a system of its own: one call, on any matrix of at most      *)
(* MaxRays rows whose saturation rows do not hold the bit of the new       *)
(* constraint yet.  Ray0 and Sat0 keep the arguments of the call.          *)
(***************************************************************************)
EXTENDS RaySort

CONSTANTS
  MaxRays,    \* bound on the number of rows of an instance
  Rows,       \* the rows a matrix may hold
  Words       \* the words of a saturation row

ASSUME MaxRaysAssumption == MaxRays \in Nat
ASSUME RowsAssumption == \A p \in Rows : p[0] \in Int
ASSUME WordsAssumption == \A w \in Words : w = <<w[1], w[2]>>

VARIABLES Ray0, Sat0

args == <<NbBid, NbRay, jx, bx, Ray0, Sat0>>
vars == <<Ray, Sat, bounds, args>>

RowIndex == 0 .. NbRay - 1

Init ==
  /\ NbRay \in 0..MaxRays
  /\ NbBid \in 0..NbRay
  /\ \E w \in Words : jx = w[1] /\ bx = w[2]
  /\ Ray0 \in [RowIndex -> Rows]
  /\ Sat0 \in [RowIndex -> SUBSET (Words \ {Bit})]
  /\ Ray = Ray0
  /\ Sat = Sat0
  /\ equal_bound = NbBid
  /\ sup_bound = NbBid
  /\ inf_bound = NbRay

Next == SortStep /\ UNCHANGED args

Spec == Init /\ [][Next]_vars
----------------------------------------------------------------------------
TypeOK ==
  /\ NbRay \in Nat
  /\ NbBid \in 0..NbRay
  /\ Bit \in Words
  /\ Ray \in [RowIndex -> Rows]
  /\ Ray0 \in [RowIndex -> Rows]
  /\ Sat \in [RowIndex -> SUBSET Words]
  /\ Sat0 \in [RowIndex -> SUBSET (Words \ {Bit})]
  /\ equal_bound \in NbBid..NbRay
  /\ sup_bound \in equal_bound..NbRay
  /\ inf_bound \in sup_bound..NbRay

(***************************************************************************)
(* The three tiers of the comment above RaySort, as far as the scan has    *)
(* come: the rays below equal_bound saturate the constraint, the rays from *)
(* there to sup_bound verify it, the rays from inf_bound on violate it.    *)
(***************************************************************************)
Tiers ==
  /\ \A i \in NbBid .. equal_bound - 1 : Ray[i][0] = 0
  /\ \A i \in equal_bound .. sup_bound - 1 : Ray[i][0] > 0
  /\ \A i \in inf_bound .. NbRay - 1 : Ray[i][0] < 0

(***************************************************************************)
(* A scanned ray has the bit of the constraint exactly when its inner      *)
(* product is not zero, although its saturation row has been moved about;  *)
(* a ray not scanned yet does not have it.                                 *)
(***************************************************************************)
BitExact ==
  \A i \in NbBid .. NbRay - 1 :
    Bit \in Sat[i] <=> (i \notin sup_bound .. inf_bound - 1 /\ Ray[i][0] # 0)

Permutation(f) ==
  /\ f \in [RowIndex -> RowIndex]
  /\ \A i, k \in RowIndex : f[i] = f[k] => i = k

(***************************************************************************)
(* Ray and Sat are exchanged together: one and the same permutation takes  *)
(* the arguments of the call to both, it leaves the lines in place, and    *)
(* the bits of the earlier constraints are not touched.                    *)
(***************************************************************************)
MovedBy(f) ==
  /\ Permutation(f)
  /\ \A i \in 0 .. NbBid - 1 : f[i] = i
  /\ \A i \in RowIndex : /\ Ray[i] = Ray0[f[i]]
                         /\ Sat[i] \ {Bit} = Sat0[f[i]]

MovedTogether == \E f \in [RowIndex -> RowIndex] : MovedBy(f)
============================================================================
