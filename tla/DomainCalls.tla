----------------------------- MODULE DomainCalls -----------------------------
(***************************************************************************)
(* A program that calls the functions on domains of polyhedron.c: it holds *)
(* two domains of the plane and replaces the first by what a function      *)
(* returns.                                                                *)
(***************************************************************************)
EXTENDS Scanning
LOCAL INSTANCE SequencesExt

CONSTANTS Inputs,   \* sequences of matrices of constraints: unions of polyhedra
          Cuts, Points, Turns, Maps,
          Costs,    \* linear functions to minimise and maximise
          Window,   \* where integer points are compared
          MaxCalls  \* bound on the length of a sequence of calls

VARIABLES domain, call, calls
vars == <<domain, call, calls>>

n == 3 \* the homogeneous dimension

Built(list) ==
  FoldLeft(LAMBDA D, M : DomainUnion(D, <<Constraints2Polyhedron(M, n)>>), Null, list)

Init ==
  /\ domain \in [1..2 -> {Built(list) : list \in Inputs}]
  /\ call = [name |-> "none"]
  /\ calls = 0

Returned(c, D) ==
  /\ calls < MaxCalls
  /\ calls' = calls + 1
  /\ call' = c
  /\ domain' = [domain EXCEPT ![1] = D]

Union        == Returned([name |-> "DomainUnion"], DomainUnion(domain[1], domain[2]))
Intersection == Returned([name |-> "DomainIntersection"], DomainIntersection(domain[1], domain[2], n))
Difference   == Returned([name |-> "DomainDifference"], DomainDifference(domain[1], domain[2], n))
Simplify     == Returned([name |-> "DomainSimplify"], DomainSimplify(domain[1], domain[2], n))
Stras        == Returned([name |-> "Stras_DomainSimplify"], Stras_DomainSimplify(domain[1], domain[2], n))

AddConstraintsTo == \E c \in Cuts :
  Returned([name |-> "DomainAddConstraints", with |-> c],
           LET D == DomainAddConstraints(domain[1], <<c>>) IN IF IsNull(D) THEN Empty(n) ELSE D)

\* Rays are added to domains with points.
Convex ==
  /\ ~EmptyDomain(domain[1])
  /\ Returned([name |-> "DomainConvex"], DomainConvex(domain[1]))
AddRaysTo == \E r \in Points :
  /\ ~EmptyDomain(domain[1])
  /\ Returned([name |-> "DomainAddRays", with |-> r], DomainAddRays(domain[1], <<r>>))

Disjoint == \E flag \in {0, 1} :
  Returned([name |-> "Disjoint_Domain", with |-> flag], Disjoint_Domain(domain[1], flag))
ConstraintSimplified ==
  Returned([name |-> "DomainConstraintSimplify"], DomainConstraintSimplify(domain[1], n))

Image == \E F \in Turns :
  /\ ~EmptyDomain(domain[1])
  /\ Returned([name |-> "DomainImage", with |-> F], DomainImage(domain[1], F))
Preimage == \E F \in Maps :
  /\ ~EmptyDomain(domain[1])
  /\ Returned([name |-> "DomainPreimage", with |-> F], DomainPreimage(domain[1], F))

Swap ==
  /\ calls < MaxCalls
  /\ calls' = calls + 1
  /\ call' = [name |-> "swap"]
  /\ domain' = [domain EXCEPT ![1] = domain[2], ![2] = domain[1]]

Next == \/ Union \/ Intersection \/ Difference \/ Simplify \/ Stras \/ AddConstraintsTo \/ Convex
        \/ AddRaysTo \/ Disjoint \/ ConstraintSimplified \/ Image \/ Preimage \/ Swap
Spec == Init /\ [][Next]_vars

-----------------------------------------------------------------------------
Row(p) == <<1, p[1], p[2], 1>>
InPolyhedron(p, P) ==
  /\ ~emptyQ(P)
  /\ \A x \in DOMAIN P.Constraint :
       LET v == Value(P.Constraint[x], Row(p)) IN IF Status(P.Constraint[x]) = 0 THEN v = 0 ELSE v >= 0
PointsOf(D) == {p \in Window : \E x \in DOMAIN D : InPolyhedron(p, D[x])}

Regions == INSTANCE Regions WITH region <- [s \in 1..2 |-> PointsOf(domain[s])]

(***************************************************************************)
(* Seen through its integer points, every call does what the set operation *)
(* of its name does: polyhedra that meet only in part, touch, cover each   *)
(* other or hold no integer point, and lists left by earlier calls, lose   *)
(* and add no point (DomainUnion to DomainConstraintSimplify).             *)
(***************************************************************************)
RefinesRegions == Regions!Spec

(***************************************************************************)
(* The constraints and the rays of a polyhedron of a result describe the   *)
(* same set: recomputing the rays from the constraints gives those held.   *)
(* Polyhedron_Image maps both, the others recompute one from the other.    *)
(* No list holds an empty polyhedron beside others.                        *)
(***************************************************************************)
SetOf(rows) == {rows[x] : x \in DOMAIN rows}
Dual(P) ==
  LET Q == Constraints2Polyhedron(P.Constraint, n)
  IN  /\ P.NbEq = Q.NbEq /\ P.NbBid = Q.NbBid
      /\ SetOf(P.Ray) = SetOf(Q.Ray) /\ SetOf(P.Constraint) = SetOf(Q.Constraint)
DescriptionsAgree ==
  \A s \in 1..2 :
    /\ \A x \in DOMAIN domain[s] : Dual(domain[s][x])
    /\ ~IsNull(domain[s])
    /\ Len(domain[s]) > 1 => \A x \in DOMAIN domain[s] : ~emptyQ(domain[s][x])

(***************************************************************************)
(* No polyhedron of a list is covered by another one; calls keep this,     *)
(* with the early exits of AddPolyToDomain and the two passes of           *)
(* DomainUnion, but those that only look at the polyhedra before           *)
(* (DomainAddConstraints, DomainAddRays) or append lists (Disjoint_Domain).*)
(***************************************************************************)
Minimal(D) == \A x, y \in DOMAIN D : x # y => ~PolyhedronIncludes(D[x], D[y])
ListsStayMinimal ==
  [][Minimal(domain[1]) /\ Minimal(domain[2])
       /\ call'.name \notin {"DomainAddConstraints", "DomainAddRays", "Disjoint_Domain"} => Minimal(domain'[1])]_vars

(***************************************************************************)
(* Disjoint_Domain with flag 0: of a domain of at most two polyhedra, no   *)
(* integer point is in two polyhedra of the result (polyhedron.c, the      *)
(* comment before the function).  Of three the second property is not      *)
(* true: what the third shares with the first two is cut wrongly.          *)
(***************************************************************************)
Shared(D) == {p \in Window : \E x, y \in DOMAIN D : x # y /\ InPolyhedron(p, D[x]) /\ InPolyhedron(p, D[y])}
PairsBecomeDisjoint ==
  [][Len(domain[1]) <= 2 /\ call' = [name |-> "Disjoint_Domain", with |-> 0] => Shared(domain'[1]) = {}]_vars
AllBecomeDisjoint ==
  [][call' = [name |-> "Disjoint_Domain", with |-> 0] => Shared(domain'[1]) = {}]_vars

(***************************************************************************)
(* The search of ehrhart.c in the loops that Polyhedron_Scan makes finds   *)
(* an integer point of a bounded polyhedron exactly when it has one, and   *)
(* the point is in it: the projections are simplified in the context of    *)
(* the outer loops, bounds are rounded, values go up from 0 then down.     *)
(***************************************************************************)
Universe0 == <<UniversePolyhedron(1)>>
Bounded(P) == ~emptyQ(P) /\ \A x \in DOMAIN P.Ray : ~AtInfinity(P.Ray[x])
SearchFinds ==
  \A x \in DOMAIN domain[1] :
    LET P == domain[1][x]
        Right(found) == IF found = << >> THEN PointsOf(<<P>>) = {} ELSE InPolyhedron(found, P)
    IN  Bounded(P) => Right(cherche_min(<<0, 0>>, Polyhedron_Scan(<<P>>, Universe0), 1))

(***************************************************************************)
(* DomainCost of a bounded polyhedron: the cost of every integer point is  *)
(* between the minimum and the maximum, which are costs of vertices,       *)
(* compared as fractions of whatever denominators.                         *)
(***************************************************************************)
CostOfVertex(f, P, cost) ==
  \E x \in DOMAIN P.Ray :
    LET ray == P.Ray[x] IN f[2] > 0 /\ f[1] * ray[Len(ray)] = Dot(Vec(ray), cost) * f[2]
CostBounds ==
  \A x \in DOMAIN domain[1] : Bounded(domain[1][x]) =>
    \A cost \in Costs :
      LET P == domain[1][x]
          found == DomainCost(P, cost)
      IN  /\ CostOfVertex(found.min, P, cost) /\ CostOfVertex(found.max, P, cost)
          /\ \A p \in PointsOf(<<P>>) :
               LET c == Dot(Vec(Row(p)), cost)
               IN  c * found.min[2] >= found.min[1] /\ c * found.max[2] <= found.max[1]

(***************************************************************************)
(* Both answers about the integer points of one polyhedron are right: the  *)
(* search of ehrhart.c and the bounds of DomainCost.                       *)
(***************************************************************************)
PointsFoundAndBounded == SearchFinds /\ CostBounds
=============================================================================
