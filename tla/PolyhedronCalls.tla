-------------------------- MODULE PolyhedronCalls --------------------------
(***************************************************************************)
(* The functions of source/kernel/polyhedron.c that build one polyhedron:  *)
(* Constraints2Polyhedron, Rays2Polyhedron, AddConstraints, AddRays,       *)
(* SubConstraint and, with a filter, SimplifyConstraints, whose common     *)
(* part is to prepare the matrices, run Chernikova and then                *)
(* Remove_Redundants.  A program calls them one after the other, each call *)
(* on the polyhedron that the previous one returned.                       *)
(***************************************************************************)
EXTENDS RemoveRedundants

CONSTANTS
  Constraints,        \* the rows a caller gives to SubConstraint
  ConstraintMatrices, \* the matrices a caller gives as constraints
  RayMatrices,        \* the matrices a caller gives as rays
  WorkSpaces,         \* the values of NbMaxRays and NbMaxConstrs
  MaxCalls,           \* bound on the number of calls that take a matrix
  Box                 \* the homogeneous vectors the properties look at

\* Matrix_Alloc: rows of 1+Dimension Values, numbered from 0.
IsMatrix(M) ==
  /\ Length(M) \in Nat
  /\ M \in [0 .. Length(M) - 1 -> [0..Dimension -> Int]]

ASSUME ConstraintsAssumption ==
  /\ Constraints \subseteq [0..Dimension -> Int]
  /\ \A M \in ConstraintMatrices : IsMatrix(M)

\* The last coordinate of a line or ray is zero, that of a vertex its
\* denominator.
ASSUME RaysAssumption ==
  \A M \in RayMatrices :
    /\ IsMatrix(M)
    /\ \A r \in DOMAIN M :
         M[r][Dimension] >= 0 /\ (M[r][0] = 0 => M[r][Dimension] = 0)

ASSUME WorkSpacesAssumption == WorkSpaces \subseteq Nat
ASSUME BoxAssumption == Box \subseteq [0..Dimension -> Int]

VARIABLES
  op,                 \* the function called last, "none" before
  Given,              \* its matrix argument
  Arg,                \* its polyhedron argument; for the functions without
                      \* one, the polyhedron there was before the call
  calls

callVars == <<op, Given, Arg, calls>>
vars == <<chernikovaVars, reduceVars, callVars>>

\* Universe_Polyhedron
UniversePolyhedron ==
  [NbEq |-> 0, NbBid |-> Dimension - 1,
   Constraint |-> [x \in {0} |-> UnitRow(1, Dimension - 1)],
   Ray |-> [x \in 0 .. Dimension - 1 |->
              UnitRow(IF x = Dimension - 1 THEN 1 ELSE 0, x)]]

Init ==
  /\ Pol = UniversePolyhedron /\ Arg = UniversePolyhedron
  /\ op = "none" /\ Given = EmptyMatrix /\ calls = 0
  /\ pc = "reduced" /\ dual = FALSE
  /\ Mat = EmptyMatrix /\ Ray = EmptyMatrix /\ Sat = EmptyMatrix
  /\ bits = EmptyMatrix
  /\ k = 0 /\ NbBid = 0 /\ NbRay = 0 /\ NbMaxRays = 0 /\ jx = 0 /\ bx = 0
  /\ equal_bound = 0 /\ sup_bound = 0 /\ inf_bound = 0
  /\ i = 0 /\ j = 0 /\ bound = 0
  /\ NbEq = 0 /\ NbEq2 = 0 /\ NbBid2 = 0 /\ Dim_RaySpace = 0
  /\ filtering = FALSE /\ temp2 = {} /\ Filter = {}

\* The rows of M followed by those of N.
Stacked(M, N) ==
  [x \in 0 .. Length(M) + Length(N) - 1 |->
     IF x < Length(M) THEN M[x] ELSE N[x - Length(M)]]

(***************************************************************************)
(* BuildSat: the saturation matrix of the rows R with the first n rows of  *)
(* M.  The status words are left with the last inner product.              *)
(***************************************************************************)
BitOf(c) == <<c \div WSIZE, c % WSIZE>>

BuiltSat(M, R, n) ==
  [r \in DOMAIN R |->
     {BitOf(c) : c \in {d \in 0 .. n - 1 : InnerProduct(R[r], M[d]) # 0}}]
Evaluated(M, R, n) ==
  IF n = 0 THEN R
  ELSE [r \in DOMAIN R |-> WithStatus(R[r], InnerProduct(R[r], M[n - 1]))]

(***************************************************************************)
(* A call of Chernikova on the matrices M and R: the first rows of M, as   *)
(* many as first, have been processed.                                     *)
(***************************************************************************)
CallChernikova(M, R, lines, workspace, first, d) ==
  /\ pc' = "head"
  /\ Mat' = M
  /\ Ray' = Evaluated(M, R, first)
  /\ Sat' = BuiltSat(M, R, first)
  /\ NbRay' = Length(R)
  /\ NbBid' = lines
  /\ NbMaxRays' = workspace
  /\ k' = first
  /\ jx' = first \div WSIZE
  /\ bx' = first % WSIZE
  /\ dual' = d
  /\ i' = 0 /\ j' = 0 /\ bound' = 0
  /\ equal_bound' = 0 /\ sup_bound' = 0 /\ inf_bound' = 0

\* The locals of Remove_Redundants, not yet assigned.
NoLocals ==
  /\ bits' = EmptyMatrix /\ temp2' = {} /\ Filter' = {}
  /\ NbEq' = 0 /\ NbEq2' = 0 /\ NbBid2' = 0 /\ Dim_RaySpace' = 0

Max2(a, b) == IF a >= b THEN a ELSE b

\* SimplifyConstraints, which takes no matrix, may follow MaxCalls calls; it
\* frees the polyhedron it builds, so that no call follows it.
Call(name, given) ==
  /\ pc = "reduced"
  /\ op # "SimplifyConstraints"
  /\ calls < MaxCalls \/ name = "SimplifyConstraints"
  /\ calls' = calls + 1
  /\ op' = name
  /\ Given' = given
  /\ Arg' = Pol
  /\ Pol' = [Pol EXCEPT !.Constraint = EmptyMatrix, !.Ray = EmptyMatrix]
  /\ NoLocals

\* A line per coordinate; the last one is the origin, a vertex.
UnitRays ==
  [x \in 0 .. Dimension - 1 |->
     UnitRow(IF x = Dimension - 1 THEN 1 ELSE 0, x)]
UnitLines == [x \in 0 .. Dimension - 1 |-> UnitRow(0, x)]

Constraints2Polyhedron ==
  \E M \in ConstraintMatrices, w \in WorkSpaces :
    /\ Call("Constraints2Polyhedron", M)
    /\ CallChernikova(M, UnitRays, Dimension - 1, Max2(Dimension, w), 0, FALSE)
    /\ filtering' = FALSE

Rays2Polyhedron ==
  \E R \in RayMatrices, w \in WorkSpaces :
    /\ Call("Rays2Polyhedron", R)
    /\ CallChernikova(R, UnitLines, Dimension, Max2(Dimension, w), 0, TRUE)
    /\ filtering' = FALSE

\* The constraints of P, then the rows given, processed on the rays of P.
Constrain(P, given, w) ==
  CallChernikova(Stacked(P.Constraint, given), P.Ray, P.NbBid,
                 Max2(Length(P.Ray), w), Length(P.Constraint), FALSE)

AddConstraints ==
  \E M \in ConstraintMatrices, w \in WorkSpaces :
    /\ Call("AddConstraints", M)
    /\ Constrain(Pol, M, w)
    /\ filtering' = FALSE

\* The same code with a filter; the rows are those of another polyhedron.
SimplifyConstraints ==
  \E w \in WorkSpaces :
    /\ Call("SimplifyConstraints", Arg.Constraint)
    /\ Constrain(Pol, Arg.Constraint, w)
    /\ filtering' = TRUE

\* Wrong variant: the constant of the strict inverse is not decremented.
InvertedClosed(Con, Pass) ==
  [(IF Pass \in {0, 2} THEN Opposite(Con) ELSE Con) EXCEPT ![0] = 1]

\* Passes 0 and 2 take the opposite of the constraint; passes 0 and 1 the
\* integer points strictly beyond it.
Inverted(Con, Pass) ==
  [(IF Pass \in {0, 2} THEN Opposite(Con) ELSE Con) EXCEPT
     ![0] = 1, ![Dimension] = IF Pass \in {0, 1} THEN @ - 1 ELSE @]

\* A positivity constraint as Con returns NULL and builds nothing.
SubConstraint ==
  \E Con \in Constraints, Pass \in 0..3, w \in WorkSpaces :
    /\ ~IsPositivity(Con)
    /\ Call("SubConstraint", [x \in 0..1 |->
              IF x = 0 THEN Con ELSE WithStatus(Con, Pass)])
    /\ Constrain(Pol, [x \in {0} |-> Inverted(Con, Pass)], w)
    /\ filtering' = FALSE

AddRays ==
  \E R \in RayMatrices, w \in WorkSpaces :
    /\ Call("AddRays", R)
    /\ CallChernikova(Stacked(Pol.Ray, R), Pol.Constraint, Pol.NbEq,
                      Max2(w, Length(Pol.Constraint)), Length(Pol.Ray), TRUE)
    /\ filtering' = FALSE
----------------------------------------------------------------------------
Returned == pc = "head" /\ k = NbConstraints
CallUnchanged == UNCHANGED <<i, j, bound, jx, bx, bounds, reduceVars, callVars,
                             NbMaxRays, dual, k>>

\* Chernikova has returned.  In the primal case Remove_Redundants is next ...
ReducePrimal ==
  /\ Returned
  /\ ~dual
  /\ pc' = "step0"
  /\ CallUnchanged
  /\ UNCHANGED <<Mat, Ray, Sat, NbBid, NbRay>>

\* Wrong variant: the rows are transposed, their order is not kept.
TransformedReversed(S, n, m) ==
  [r \in 0 .. n - 1 |->
     {BitOf(c) : c \in {d \in 0 .. m - 1 : BitOf(r) \in S[m - 1 - d]}}]

\* TransformSat: the transpose of S, for n rays and m constraints.
Transformed(S, n, m) ==
  [r \in 0 .. n - 1 |->
     {BitOf(c) : c \in {d \in 0 .. m - 1 : BitOf(r) \in S[d]}}]

\* ... in the dual case after TransformSat; the matrices change their roles.
ReduceDual ==
  /\ Returned
  /\ dual
  /\ pc' = "step0"
  /\ Mat' = Ray
  /\ Ray' = Mat
  /\ Sat' = Transformed(Sat, NbConstraints, NbRay)
  /\ NbRay' = NbConstraints
  /\ UNCHANGED NbBid
  /\ CallUnchanged

InChernikova ==
  ~Returned /\ ProcessConstraint /\ UNCHANGED <<reduceVars, callVars>>

InRemove == RemoveStep /\ UNCHANGED callVars

Next ==
  \/ Constraints2Polyhedron \/ Rays2Polyhedron \/ AddConstraints
  \/ SimplifyConstraints \/ SubConstraint \/ AddRays
  \/ InChernikova \/ ReducePrimal \/ ReduceDual \/ InRemove

Spec == Init /\ [][Next]_vars
----------------------------------------------------------------------------
\* The call is over: Pol is what it returned.
Done == pc = "reduced"

\* x satisfies the constraint p: equality or inequality.
SatisfiesRow(x, p) == IF p[0] = 0 THEN InnerProduct(x, p) = 0
                                  ELSE InnerProduct(x, p) >= 0
SatisfiesAll(x, M) == \A c \in DOMAIN M : SatisfiesRow(x, M[c])

Points == {x \in Box : x[Dimension] > 0}
Vectors0 == {x \in Box : x[Dimension] >= 0}

\* Every ray of M satisfies the inequality p, every line saturates it.
ValidFor(p, M) ==
  \A r \in DOMAIN M : IF M[r][0] = 0 THEN InnerProduct(M[r], p) = 0
                                     ELSE InnerProduct(M[r], p) >= 0

HasVertex(M) == \E r \in DOMAIN M : ~AtInfinity(M[r])
IsEmpty(P) == P.NbEq = Dimension      \* emptyQ

Positivity == UnitRow(1, Dimension - 1)
RowsOf(M) == {M[x] : x \in DOMAIN M}

\* The constraints of S that x saturates, the rays of S that p saturates.
SaturatedIn(x, S) == {p \in S : InnerProduct(x, p) = 0}

(***************************************************************************)
(* The state words and counts of Pol: equalities and lines come first and  *)
(* have status 0, the other rows 1; Dim_RaySpace, unsigned in the code,    *)
(* has not wrapped.                                                        *)
(***************************************************************************)
TypeOK ==
  /\ 0 <= Dim_RaySpace /\ Dim_RaySpace < Dimension
  /\ Done =>
       /\ \A c \in DOMAIN Pol.Constraint :
            Pol.Constraint[c][0] = IF c < Pol.NbEq THEN 0 ELSE 1
       /\ \A r \in DOMAIN Pol.Ray :
            Pol.Ray[r][0] = IF r < Pol.NbBid THEN 0 ELSE 1
       /\ IsEmpty(Pol) <=> ~HasVertex(Pol.Ray)

(***************************************************************************)
(* AddConstraints and the functions that end like it: the points of the    *)
(* result are those of the argument that satisfy the rows given.           *)
(***************************************************************************)
GivenConstraints ==
  IF op = "SubConstraint" THEN [x \in {0} |-> Inverted(Given[0], Given[1][0])]
  ELSE Given

ConstraintsContract ==
  Done /\ op \in {"Constraints2Polyhedron", "AddConstraints",
                  "SimplifyConstraints", "SubConstraint"} =>
    \A x \in Points :
      SatisfiesAll(x, Pol.Constraint) <=>
        /\ SatisfiesAll(x, GivenConstraints)
        /\ op = "Constraints2Polyhedron" \/ SatisfiesAll(x, Arg.Constraint)

(***************************************************************************)
(* SubConstraint with passes 2 and 3 or 0 and 1: no integer point of the   *)
(* argument is on both sides.  Each such point satisfies the constraint or *)
(* is in the result of pass 0; never both.                                 *)
(***************************************************************************)
IntegerPoints == {x \in Box : x[Dimension] = 1}

DifferenceContract ==
  Done /\ op = "SubConstraint" =>
    LET Con  == WithStatus(Given[0], 1)
        Pass == Given[1][0]
    IN  \A x \in IntegerPoints :
          SatisfiesAll(x, Arg.Constraint) =>
            (SatisfiesAll(x, Pol.Constraint) <=>
               CASE Pass = 0 -> InnerProduct(x, Con) < 0
                 [] Pass = 1 -> InnerProduct(x, Con) > 0
                 [] Pass = 2 -> InnerProduct(x, Con) <= 0
                 [] Pass = 3 -> InnerProduct(x, Con) >= 0)

(***************************************************************************)
(* AddRays and Rays2Polyhedron: an inequality holds for the result exactly *)
(* when it holds for the rays of the argument and for those given.         *)
(***************************************************************************)
RaysContract ==
  Done /\ op \in {"Rays2Polyhedron", "AddRays"} =>
    LET generators == IF op = "AddRays" THEN Stacked(Arg.Ray, Given) ELSE Given
    IN  IF HasVertex(generators)
        THEN \A p \in Box : ValidFor(p, Pol.Ray) <=> ValidFor(p, generators)
        ELSE IsEmpty(Pol)

(***************************************************************************)
(* Every function returns the set its comment promises, whatever the calls *)
(* before it: an intersection, a difference or a hull.                     *)
(***************************************************************************)
CallsContract == ConstraintsContract /\ DifferenceContract /\ RaysContract

(***************************************************************************)
(* The two descriptions of Pol agree, whatever the calls that led to it:   *)
(* every ray satisfies every constraint, with equality when one of them is *)
(* a line or an equality by its place in the matrix, which is how every    *)
(* other function reads them, and every ray is a point or at infinity.     *)
(***************************************************************************)
RaysSatisfyConstraints ==
  Done => \A r \in DOMAIN Pol.Ray :
    /\ IF r < Pol.NbBid THEN Pol.Ray[r][Dimension] = 0
                        ELSE Pol.Ray[r][Dimension] >= 0
    /\ \A c \in DOMAIN Pol.Constraint :
         IF c < Pol.NbEq \/ r < Pol.NbBid
         THEN InnerProduct(Pol.Ray[r], Pol.Constraint[c]) = 0
         ELSE InnerProduct(Pol.Ray[r], Pol.Constraint[c]) >= 0

(***************************************************************************)
(* The descriptions are complete: each vector that satisfies the           *)
(* constraints lies on a face that one of the rays spans, and each valid   *)
(* inequality on one of a constraint.                                      *)
(***************************************************************************)
Complete ==
  Done /\ ~IsEmpty(Pol) =>
    LET rays        == RowsOf(Pol.Ray)
        constraints == RowsOf(Pol.Constraint) \cup {Positivity}
    IN  /\ \A x \in Vectors0 : SatisfiesAll(x, Pol.Constraint) =>
             \/ SaturatedIn(x, constraints) = constraints
             \/ \E r \in rays : r[0] = 1 /\
                  SaturatedIn(x, constraints) \subseteq SaturatedIn(r, constraints)
        /\ \A p \in Box : ValidFor(p, Pol.Ray) =>
             \/ SaturatedIn(p, rays) = rays
             \/ \E c \in constraints : c[0] = 1 /\
                  SaturatedIn(p, rays) \subseteq SaturatedIn(c, rays)

(***************************************************************************)
(* POL_FACETS and POL_VERTICES, "valid and non-redundant": no inequality   *)
(* is saturated by all the rays that saturate another one, and dually for  *)
(* the rays; the positivity constraint counts among both.                  *)
(***************************************************************************)
NonRedundant ==
  Done /\ ~IsEmpty(Pol) =>
    LET rays        == RowsOf(Pol.Ray)
        constraints == RowsOf(Pol.Constraint) \cup {Positivity}
        Inequalities == Pol.NbEq .. Length(Pol.Constraint) - 1
        Unidirectional == Pol.NbBid .. Length(Pol.Ray) - 1
    IN  /\ \A c, d \in Inequalities : c # d =>
             ~(SaturatedIn(Pol.Constraint[c], rays)
                 \subseteq SaturatedIn(Pol.Constraint[d], rays))
        /\ \A r, s \in Unidirectional : r # s =>
             ~(SaturatedIn(Pol.Ray[r], constraints)
                 \subseteq SaturatedIn(Pol.Ray[s], constraints))

\* Together: the descriptions are complete and hold nothing that can be left out.
CompleteAndNonRedundant == Complete /\ NonRedundant

(***************************************************************************)
(* Filter, which DomainSimplify reads: the constraints it marks, among     *)
(* those of both polyhedra, have the same points as all of them.           *)
(***************************************************************************)
FilterSuffices ==
  Done /\ filtering /\ ~IsEmpty(Pol) =>
    LET all    == Stacked(Arg.Constraint, Given)
        marked == {c \in DOMAIN all : BitOf(c) \in Filter}
    IN  \A x \in Points :
          SatisfiesAll(x, all) <=> \A c \in marked : SatisfiesRow(x, all[c])
============================================================================
