-------------------------- MODULE ChernikovaSpec --------------------------
(***************************************************************************)
(* Chernikova on each matrix of Matrices, as Constraints2Polyhedron        *)
(* (primal) and Rays2Polyhedron (dual) call it.  The rows of Mat are read  *)
(* in order and never written, so they are chosen one by one, when the     *)
(* function comes to them: Matrices contains the beginnings of its members.*)
(*                                                                         *)
(* The properties compare the matrices with the cone of the constraints:   *)
(* the vectors that satisfy all of them, the positivity constraint         *)
(* included in the primal case.                                            *)
(***************************************************************************)
EXTENDS Chernikova

CONSTANTS
  Constraints,        \* the rows Mat may hold
  Matrices,           \* the matrices Mat may be
  InitMaxRays,        \* the caller's NbMaxRays
  Duals,              \* the values of dual, a subset of BOOLEAN
  Box,                \* the vectors the cone is sampled on
  Coefficients        \* those of the combinations of lines looked at

\* Matrices of integers; Mat holds rows of them.
ASSUME ConstraintsAssumption == Constraints \subseteq [0..Dimension -> Int]
ASSUME InitMaxRaysAssumption == InitMaxRays \in Nat
ASSUME DualsAssumption == Duals \subseteq BOOLEAN
ASSUME BoxAssumption == Box \subseteq [0..Dimension -> Int]
ASSUME CoefficientsAssumption == Coefficients \subseteq Int

vars == chernikovaVars

Unit(x) == [c \in 0..Dimension |-> IF c = x + 1 THEN 1 ELSE 0]

\* The callers: a line per coordinate; the last is the vertex (the origin)
\* in the primal case.  The matrices have max(InitMaxRays,Dimension) rows.
Init ==
  /\ pc = "head"
  /\ Mat = [x \in {} |-> 0]
  /\ k = 0
  /\ dual \in Duals
  /\ Ray = [x \in 0 .. Dimension - 1 |-> Unit(x)]
  /\ Sat = [x \in 0 .. Dimension - 1 |-> {}]
  /\ NbBid = (IF dual THEN Dimension ELSE Dimension - 1)
  /\ NbRay = Dimension
  /\ NbMaxRays = (IF Dimension > InitMaxRays THEN Dimension ELSE InitMaxRays)
  /\ jx = 0 /\ bx = 0
  /\ equal_bound = 0 /\ sup_bound = 0 /\ inf_bound = 0
  /\ i = 0 /\ j = 0 /\ bound = 0

ChooseConstraint ==
  /\ pc = "head"
  /\ k = NbConstraints
  /\ \E p \in Constraints : Mat' = WithRow(Mat, k, p)
  /\ Mat' \in Matrices
  /\ UNCHANGED <<pc, k, dual, Ray, Sat, NbBid, NbRay, NbMaxRays, jx, bx,
                 bounds, pair>>

Next == ChooseConstraint \/ ProcessConstraint

Spec == Init /\ [][Next]_vars
----------------------------------------------------------------------------
\* The loop is between two constraints; the matrices are as the next turn,
\* or the caller, finds them.
AtHead == pc = "head"
Processed == 0 .. k - 1
RayRows == NbBid .. NbRay - 1
LineRows == 0 .. NbBid - 1

\* A vector satisfies the constraint: equality or inequality.
Satisfies(x, c) == IF Equality(c) THEN InnerProduct(x, Mat[c]) = 0
                                  ELSE InnerProduct(x, Mat[c]) >= 0

Cone == {x \in Box : /\ \A c \in Processed : Satisfies(x, c)
                     /\ dual \/ x[Dimension] >= 0}

\* The constraints a vector saturates; -1 is the positivity constraint.
Saturated(x) == {c \in Processed : InnerProduct(x, Mat[c]) = 0}
                  \cup (IF ~dual /\ AtInfinity(x) THEN {-1} ELSE {})

AllConstraints == Processed \cup (IF dual THEN {} ELSE {-1})

\* The bit of constraint c.
BitOf(c) == <<c \div WSIZE, c % WSIZE>>

TypeOK ==
  /\ pc \in {"head", "line", "sort", "pairs"}
  /\ k \in 0..NbConstraints
  /\ DOMAIN Ray = 0 .. NbRay - 1 /\ DOMAIN Sat = 0 .. NbRay - 1
  /\ 0 <= NbBid /\ NbBid <= NbRay
  /\ \A x \in DOMAIN Ray : Ray[x] \in [0..Dimension -> Int]
  /\ pc \in {"sort", "pairs"} =>
       NbBid <= equal_bound /\ equal_bound <= sup_bound /\ sup_bound <= inf_bound

(***************************************************************************)
(* The matrices are never written past their allocated rows, although they *)
(* are enlarged only when the next ray is about to be added.               *)
(***************************************************************************)
InAllocation == NbRay <= NbMaxRays

(***************************************************************************)
(* Sat is what its comment says, "Sat(i,j)=0 if ray(i) saturates           *)
(* constraint(j), otherwise 1", though it is never recomputed from the     *)
(* rows: it is maintained by setting, copying, or-ing and clearing bits    *)
(* while rows are sorted, combined, dropped and moved.                     *)
(***************************************************************************)
SatExact ==
  AtHead => \A x \in 0 .. NbRay - 1 :
              Sat[x] = {BitOf(c) : c \in Processed \ Saturated(Ray[x])}

(***************************************************************************)
(* Everything the rows generate satisfies the constraints: the rays verify *)
(* them, the lines saturate them.                                          *)
(***************************************************************************)
Sound ==
  AtHead => /\ \A x \in RayRows : /\ \A c \in Processed : Satisfies(Ray[x], c)
                                  /\ dual \/ Ray[x][Dimension] >= 0
            /\ \A x \in LineRows : Saturated(Ray[x]) = AllConstraints

(***************************************************************************)
(* Nothing is missing: every vector of the cone that is not in its         *)
(* lineality space lies on a face that one of the rays spans with others,  *)
(* that is, some ray saturates whatever the vector saturates.  For an      *)
(* extreme vector it says that its ray is in the matrix.                   *)
(***************************************************************************)
Complete ==
  AtHead => \A x \in Cone :
              \/ Saturated(x) = AllConstraints
              \/ \E y \in RayRows : Saturated(x) \subseteq Saturated(Ray[y])

(***************************************************************************)
(* Remove_Redundants relies on it: "'Chernikova' ensures that there are no *)
(* redundant lines and rays".  A ray is redundant when another one         *)
(* saturates everything it saturates, or when it is in the lineality space.*)
(***************************************************************************)
Irredundant ==
  AtHead => /\ \A x, y \in RayRows :
                 x # y => ~(Saturated(Ray[x]) \subseteq Saturated(Ray[y]))
            /\ \A x \in RayRows : Saturated(Ray[x]) # AllConstraints

(***************************************************************************)
(* The lines span the lineality space: a vector orthogonal to all of them  *)
(* is orthogonal to every vector that saturates all constraints.           *)
(***************************************************************************)
LinealitySpanned ==
  AtHead => LET lineality == {x \in Box : Saturated(x) = AllConstraints}
                orthogonal == {v \in Box :
                                 \A n \in LineRows : InnerProduct(v, Ray[n]) = 0}
            IN  \A x \in lineality, v \in orthogonal : InnerProduct(v, x) = 0

(***************************************************************************)
(* After every constraint the rows of Ray, which are in the cone, generate *)
(* all of it, and none of the rays could be left out, whatever the order   *)
(* in which lines became rays and rays were combined.                      *)
(***************************************************************************)
DoubleDescription == Sound /\ Complete /\ Irredundant /\ LinealitySpanned

\* The combination of the lines with coefficients f.
LineCombination(f) ==
  [c \in Coordinates |->
     LET sum[n \in 0..NbBid] ==
           IF n = 0 THEN 0 ELSE sum[n - 1] + f[n - 1] * Ray[n - 1][c]
     IN  sum[NbBid]]
Zero == [c \in Coordinates |-> 0]

(***************************************************************************)
(* No line could be left out either: the lines, which span the lineality   *)
(* space, are independent, so that NbBid, which the adjacency test and     *)
(* Remove_Redundants count with, is its dimension.                         *)
(***************************************************************************)
LinesIndependent ==
  AtHead =>
    \A f \in [LineRows -> Coefficients] :
      LineCombination(f) = Zero => \A x \in LineRows : f[x] = 0
============================================================================
