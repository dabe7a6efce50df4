----------------------------- MODULE ZPolyhedra -----------------------------
(***************************************************************************)
(* Z-polyhedra and their unions (source/kernel/Zpolyhedron.c).  A piece is *)
(* a lattice Lat and a domain P of its coordinates and stands for the      *)
(* points Lat z of the integer points z of P; the last columns of Lat may  *)
(* be zero, for coordinates that only have to exist.  An LBL is a list of  *)
(* pieces; P is Null in an empty one.                                      *)
(***************************************************************************)
EXTENDS Scanning
LOCAL INSTANCE SequencesExt
LAT == INSTANCE Lattices

Void(p) == IsNull(p.P) \/ EmptyDomain(p.P)
\* Only empty pieces, up to the first without domain.
isEmptyLBL(A) == \A i \in DOMAIN A : Void(A[i]) \/ \E j \in 1 .. i - 1 : IsNull(A[j].P)
LBLConcatenate(A, B) == IF isEmptyLBL(A) THEN B ELSE IF isEmptyLBL(B) THEN A ELSE A \o B

\* The lattice of an empty piece: the origin.
OriginLattice(rows) == Tuple([i \in 1..rows |-> <<IF i = rows THEN 1 ELSE 0>>])
EmptyLBL(dimension) == <<[Lat |-> OriginLattice(dimension + 1), P |-> Null]>>
UniverseLBL(dimension) ==
  <<[Lat |-> Identity(dimension + 1), P |-> <<UniversePolyhedron(dimension + 1)>>]>>

IsZeroColumn(M, j) == \A i \in Rows(M) : M[i][j] = 0
LatCountZeroCols(M) ==
  Cardinality({j \in 1 .. NbColumns(M) - 1 : \A k \in j .. NbColumns(M) - 1 : IsZeroColumn(M, k)})
\* Columns j to j + n - 1 are left out.
RemoveNColumns(M, j, n) ==
  Tuple([i \in Rows(M) |-> SubSeq(M[i], 1, j - 1) \o SubSeq(M[i], j + n, Len(M[i]))])

-----------------------------------------------------------------------------
(* Projection along a dimension, given by its column dim in a row with a     *)
(* status.                                                                   *)

\* Wrong variant: projections of integer points are where a whole unit is left,
\* whatever the coefficients.
DarkSourceLoose(P, dim) ==
  LET pos == SelectSeq(P.Constraint, LAMBDA c : Status(c) # 0 /\ c[dim] > 1)
  IN  IF pos = << >> THEN P
      ELSE AddConstraints(Tuple([x \in DOMAIN pos |-> [pos[x] EXCEPT ![Len(pos[x])] = @ - 1]]), P)

\* polyhedron_dark_source: the part of P whose projection has an integer point
\* above each of its integer points.  All of P where no constraint can prevent
\* one, and where an equality fixes the dimension.
polyhedron_dark_source(P, dim) ==
  LET Given(From(_)) == SelectSeq(P.Constraint, LAMBDA c : Status(c) # 0 /\ From(c[dim]))
      pos == Given(LAMBDA a : a > 1)
      neg == Given(LAMBDA a : a < -1)
      Tightened(rows) == Tuple([x \in DOMAIN rows |->
                           [rows[x] EXCEPT ![Len(rows[x])] = @ - AbsValue(rows[x][dim]) + 1]])
      fixed == \E x \in DOMAIN P.Constraint : Status(P.Constraint[x]) = 0 /\ P.Constraint[x][dim] # 0
  IN  IF fixed \/ pos = << >> \/ neg = << >> THEN P
      ELSE AddConstraints(Tightened(IF Len(pos) < Len(neg) THEN pos ELSE neg), P)

Dropped(row, dim) == SubSeq(row, 1, dim - 1) \o SubSeq(row, dim + 1, Len(row))
WithoutDimension(P, dim) ==
  LET All(rows) == Tuple([x \in DOMAIN rows |-> Dropped(rows[x], dim)])
  IN  [Constraint |-> All(P.Constraint), NbEq |-> P.NbEq, NbBid |-> P.NbBid - 1,
       Ray |-> SelectSeq(All(P.Ray), LAMBDA r : ~IsZeroVector(r))]
\* The line of the dimension that is added is the row of zeros that leaves.
domain_project(D, dim) ==
  LET Line == <<Unit(0, HomogeneousDimension(D[1]), dim - 1)>>
      Of(E) == Tuple([x \in DOMAIN E |-> WithoutDimension(E[x], dim)])
  IN  IF EmptyDomain(D) THEN Null ELSE Of(DomainAddRays(D, Line))

domain_dark_shadow(D, dim) ==
  FoldLeft(LAMBDA d, E : IF IsNull(E) THEN d ELSE AddPolyToDomain(E[1], d), Null,
           Tuple([x \in DOMAIN D |-> domain_project(<<polyhedron_dark_source(D[x], dim)>>, dim)]))

-----------------------------------------------------------------------------
(* Canonical form.                                                           *)

InForm(p, h) == [Lat |-> LAT!Matrix_Move_Homogeneous_Dim_Last(h.H),
                 P |-> DomainPreimage(p.P, LAT!Matrix_Move_Homogeneous_Dim_Last(h.U))]
sLBL_Lat_Normalize(p) ==
  IF LAT!isNormalLattice(p.Lat) THEN p ELSE InForm(p, LAT!left_hermite(LAT!Matrix_Move_Homogeneous_Dim_First(p.Lat)))

get_equalities(P) == Tuple([x \in 1..P.NbEq |-> Vec(P.Constraint[x])])

\* The polyhedra with the equalities of the first, and a piece of the others.
sLBLHomogenize_equalities(p) ==
  LET Same(P) == get_equalities(P) = get_equalities(p.P[1])
      others  == Reverse(SelectSeq(p.P, LAMBDA P : ~Same(P)))
  IN  <<[p EXCEPT !.P = SelectSeq(@, Same)]>> \o (IF others = << >> THEN << >> ELSE <<[p EXCEPT !.P = others]>>)

\* The kernel of the equalities, their constants included, in normal form H
\* spreads the points that satisfy them; the coordinates become those of H.
WithCoordinatesOf(p, H) == sLBL_Lat_Normalize([Lat |-> Matrix_Product(p.Lat, H), P |-> DomainPreimage(p.P, H)])
sLBLSimplify_equalities(p, Equalities) ==
  LET e == Len(Equalities)
      Ker(U) == SubMatrix(U, 1, NbRows(U), e + 1, NbColumns(U))
  IN  IF e = 0 THEN p ELSE WithCoordinatesOf(p, LAT!AffineHermite(Ker(LAT!left_hermite(Equalities).U)).H)

(***************************************************************************)
(* Coordinates with a zero column are projected out, from column col down, *)
(* where the exact and the dark shadow have the same integer points.  When *)
(* one was, all are tried again.                                           *)
(***************************************************************************)
NoIntegerDifference(D1, D2, n) ==
  LET Without(D) == IsNull(D) \/ EmptyDomain(D)
  IN  Without(DomainConstraintSimplify(DomainDifference(D1, D2, n), n))

RECURSIVE ZeroDimensions(_, _, _), ZeroDimension(_, _, _, _)
ZeroDimensions(p, col, modified) ==
  IF col > 0 /\ IsZeroColumn(p.Lat, col) THEN ZeroDimension(p, col, modified, domain_project(p.P, col + 1))
  ELSE IF modified THEN ZeroDimensions(p, NbColumns(p.Lat) - 1, FALSE) ELSE p
ZeroDimension(p, col, modified, exact) ==
  LET n == NbColumns(p.Lat) - 1
  IN  IF NoIntegerDifference(exact, domain_dark_shadow(p.P, col + 1), n)
      THEN ZeroDimensions([Lat |-> RemoveNColumns(p.Lat, col, 1), P |-> exact], col - 1, modified \/ col # n - 1)
      ELSE ZeroDimensions(p, col - 1, modified)
sLBL_Simplify_Zero_Dimensions(p) == ZeroDimensions(p, NbColumns(p.Lat) - 1, FALSE)

\* The piece in canonical form, and one of the polyhedra with other equalities.
Emptied(p) == [P |-> Null, Lat |-> IF NbColumns(p.Lat) > 1 THEN OriginLattice(NbRows(p.Lat)) ELSE p.Lat]
Simplified(p) == sLBL_Simplify_Zero_Dimensions(sLBLSimplify_equalities(p, get_equalities(p.P[1])))
FirstSimplified(l) == <<Simplified(l[1])>> \o Tail(l)
IntegerDomain(p) == [p EXCEPT !.P = DomainConstraintSimplify(@, NbColumns(p.Lat))]
CanonicalOf(p) ==
  IF Void(p) THEN <<Emptied(p)>> ELSE FirstSimplified(sLBLHomogenize_equalities(p))
sLBLCanonical(p) == CanonicalOf(IntegerDomain(sLBL_Lat_Normalize(p)))

RECURSIVE AllCanonical(_)
AllCanonical(A) ==
  LET Go(l) == <<l[1]>> \o AllCanonical(Tail(l) \o Tail(A))
  IN  IF A = << >> THEN << >> ELSE Go(sLBLCanonical(A[1]))

LBL_Remove_Empty(A) ==
  LET kept == SelectSeq(A, LAMBDA p : ~Void(p))
  IN  IF A = << >> THEN A ELSE IF kept = << >> THEN <<[A[1] EXCEPT !.P = Null]>> ELSE kept

\* The pieces with the same lattice become one.
RECURSIVE Merged(_)
Merged(A) ==
  LET Same(p) == p.Lat = A[1].Lat
      domain == FoldLeft(LAMBDA d, p : FoldLeft(LAMBDA e, P : AddPolyToDomain(P, e), d, p.P),
                         A[1].P, SelectSeq(Tail(A), Same))
  IN  IF A = << >> THEN << >>
      ELSE <<[A[1] EXCEPT !.P = domain]>> \o Merged(SelectSeq(Tail(A), LAMBDA p : ~Same(p)))

CanonicalLBL(A) == Merged(LBL_Remove_Empty(AllCanonical(A)))
LBLAlloc(Lat, D) == CanonicalLBL(<<[Lat |-> Lat, P |-> D]>>)
\* A piece that LBLAlloc splits only stays whole at the end of the list.
LBLCopy(A) ==
  LET Joined(copies) == FlattenSeq([x \in DOMAIN copies |-> IF x < Len(copies) THEN <<copies[x][1]>> ELSE copies[x]])
  IN  Joined(Tuple([x \in DOMAIN A |-> LBLAlloc(A[x].Lat, A[x].P)]))
LBLUnion(A, B) ==
  LET Joined(copies) == LBLConcatenate(copies[1], copies[2])
  IN  CanonicalLBL(Joined(Tuple([x \in 1..2 |-> LBLCopy(<<A, B>>[x])])))
=============================================================================
