------------------------------- MODULE Regions -------------------------------
(***************************************************************************)
(* What the functions on domains promise, in terms of integer points.  Two *)
(* regions, sets of the points of Window, are combined; call says which    *)
(* function was called last and with which argument.                       *)
(***************************************************************************)
EXTENDS Integers, Sequences

CONSTANTS Window,   \* the points looked at, pairs of integers
          Cuts,     \* rows <<status, a, b, c>>: ax + by + c = 0 or >= 0
          Turns,    \* matrices of one-to-one functions of Window to itself
          Maps,     \* matrices of functions of Window to itself
          Points    \* rays <<1, x, y, 1>>

VARIABLES region, \* region[1] is modified, region[2] the other operand
          call
vars == <<region, call>>

Keeps(c, p) ==
  LET v == c[2] * p[1] + c[3] * p[2] + c[4] IN IF c[1] = 0 THEN v = 0 ELSE v >= 0
Apply(F, p) == <<F[1][1] * p[1] + F[1][2] * p[2] + F[1][3], F[2][1] * p[1] + F[2][2] * p[2] + F[2][3]>>

Init == region \in [1..2 -> SUBSET Window] /\ call = [name |-> "none"]

Becomes(S) == region' = [region EXCEPT ![1] = S]

Union == call' = [name |-> "DomainUnion"] /\ Becomes(region[1] \cup region[2])
Intersection == call' = [name |-> "DomainIntersection"] /\ Becomes(region[1] \cap region[2])
Difference == call' = [name |-> "DomainDifference"] /\ Becomes(region[1] \ region[2])

\* What is kept in the context is exact; out of it anything may be left.
Simplify ==
  /\ call'.name \in {"DomainSimplify", "Stras_DomainSimplify"}
  /\ \E S \in {region'[1]} : S \cap region[2] = region[1] \cap region[2] /\ Becomes(S)

\* Points may be added, none is lost.
Enlarge ==
  /\ \/ call' = [name |-> "DomainConvex"]
     \/ \E r \in Points : call' = [name |-> "DomainAddRays", with |-> r] /\ <<r[2], r[3]>> \in region'[1]
  /\ \E S \in {region'[1]} : region[1] \subseteq S /\ Becomes(S)

AddConstraints == \E c \in Cuts :
  call' = [name |-> "DomainAddConstraints", with |-> c] /\ Becomes({p \in region[1] : Keeps(c, p)})

\* The pieces, or the constraints, of the same points.
Rewrite ==
  /\ call'.name \in {"Disjoint_Domain", "DomainConstraintSimplify"}
  /\ UNCHANGED region

Image == \E F \in Turns :
  call' = [name |-> "DomainImage", with |-> F] /\ Becomes({Apply(F, p) : p \in region[1]})
Preimage == \E F \in Maps :
  call' = [name |-> "DomainPreimage", with |-> F] /\ Becomes({p \in Window : Apply(F, p) \in region[1]})

Swap == call' = [name |-> "swap"] /\ region' = [region EXCEPT ![1] = region[2], ![2] = region[1]]

Next == \/ Union \/ Intersection \/ Difference \/ Simplify \/ Enlarge
        \/ AddConstraints \/ Rewrite \/ Image \/ Preimage \/ Swap
Spec == Init /\ [][Next]_vars
=============================================================================
