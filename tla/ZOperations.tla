----------------------------- MODULE ZOperations -----------------------------
(***************************************************************************)
(* The operations on unions of Z-polyhedra and LBLs (source/kernel/        *)
(* Zpolyhedron.c): integer emptiness, holes, and the set operations.       *)
(***************************************************************************)
EXTENDS ZPolyhedra
LOCAL INSTANCE SequencesExt

-----------------------------------------------------------------------------
(* Integer emptiness.                                                        *)

InfiniteRays(P) == SelectSeq(P.Ray, LAMBDA r : Status(r) = 0 \/ AtInfinity(r))

\* The vertices, and each of them moved along each line and ray.
bound_polyhedron(P) ==
  LET far == InfiniteRays(P)
      near == SelectSeq(P.Ray, LAMBDA r : Status(r) # 0 /\ ~AtInfinity(r))
      Moved(v, l) == <<1>> \o AddScaled(Vec(v), v[Len(v)], Vec(l))
      From(v) == <<v>> \o Tuple([x \in DOMAIN far |-> Moved(v, far[x])])
  IN  IF far = << >> THEN P
      ELSE Rays2Polyhedron(FlattenSeq(Tuple([x \in DOMAIN near |-> From(near[x])])), HomogeneousDimension(P))

\* The first integer point of the loops of scan, << >> if there is none.
RECURSIVE polyhedron_int_solution(_, _, _)
polyhedron_int_solution(scan, val, position) ==
  LET Found(i) == polyhedron_int_solution(Tail(scan), [val EXCEPT ![position] = i], position + 1)
      First(I) == IF I = {} THEN << >> ELSE Found(CHOOSE i \in I : \A j \in I : i <= j)
      Within(b) == First({i \in b.lb[1] .. b.ub[1] : Found(i) # << >>})
  IN  IF scan = << >> THEN val ELSE Within(lower_upper_bounds(position, scan[1], val))

Origin == <<UniversePolyhedron(1)>>
Loops(P) == Polyhedron_Scan(<<P>>, Origin)

\* Nothing for a polyhedron without integer point.  One whose point took a
\* search starts at the first coordinate found.
IntegerPart(P) ==
  LET n == HomogeneousDimension(P)
      dark == FoldLeft(polyhedron_dark_source, P, Tuple([d \in 1 .. n - 1 |-> d + 1]))
      Cut(val) == IF val = << >> THEN Null ELSE <<AddConstraints(<<[Unit(1, n, 1) EXCEPT ![n + 1] = -val[1]]>>, P)>>
  IN  IF emptyQ(P) THEN Null
      ELSE IF (\E x \in DOMAIN P.Ray : Status(P.Ray[x]) # 0 /\ P.Ray[x][n + 1] = 1) \/ ~emptyQ(dark) THEN <<P>>
      ELSE Cut(polyhedron_int_solution(Loops(bound_polyhedron(P)), Zeros(n - 1), 1))
Domain_Remove_Integer_Empty(D) == FoldLeft(LAMBDA d, P : IntegerPart(P) \o d, Null, D)

LBLSimplifyEmpty(A) ==
  CanonicalLBL(LBL_Remove_Empty(Tuple([x \in DOMAIN A |-> [A[x] EXCEPT !.P = Domain_Remove_Integer_Empty(@)]])))

-----------------------------------------------------------------------------
(* Holes: points of the projection that no integer point projects to.        *)

\* k new dimensions at the end.
Widened(row, k) == SubSeq(row, 1, Len(row) - 1) \o Zeros(k) \o <<row[Len(row)]>>
Polyhedron_Widened(P, k) ==
  LET n == HomogeneousDimension(P)
  IN  [Constraint |-> Tuple([x \in DOMAIN P.Constraint |-> Widened(P.Constraint[x], k)]),
       Ray |-> Tuple([x \in 1..k |-> Unit(0, n + k, n + k - x)]) \o Tuple([x \in DOMAIN P.Ray |-> Widened(P.Ray[x], k)]),
       NbEq |-> P.NbEq, NbBid |-> P.NbBid + k]

GenPoly(val) == Rays2Polyhedron(<< <<1>> \o val \o <<1>> >>, Len(val) + 1)

\* The values of the first dimrest loops of R that an integer point has.
RECURSIVE Scan_RestAP(_, _, _, _)
Scan_RestAP(R, val, position, dimrest) ==
  LET b == lower_upper_bounds(position, R[1], val)
      At(i) == Scan_RestAP(Tail(R), [val EXCEPT ![position] = i], position + 1, dimrest)
      has == R = << >> \/ b.lb = << >> \/ b.ub = << >> \/ \E i \in b.lb[1] .. b.ub[1] : At(i) # Null
  IN  IF R # << >> /\ position <= dimrest
      THEN FlattenSeq(Tuple([i \in 1 .. b.ub[1] - b.lb[1] + 1 |-> At(b.lb[1] + i - 1)]))
      ELSE IF has THEN <<GenPoly(SubSeq(val, 1, dimrest))>> ELSE Null

\* The points of R, bounded if it was not, above which P has an integer point.
\* The first ray of R stands for each of its lines and rays.
Above(R, P, n) ==
  DomainConstraintSimplify(
    DomainIntersection(<<Polyhedron_Widened(bound_polyhedron(R), n - HomogeneousDimension(R))>>, P, n), n)
PointsOf(D, n, m) == FlattenSeq(Tuple([x \in DOMAIN D |-> Scan_RestAP(Loops(D[x]), Zeros(n - 1), 1, m - 1)]))
AsDomain(polyhedra) == FoldLeft(LAMBDA d, p : AddPolyToDomain(p, d), Null, polyhedra)
WithRays(hit, R) ==
  LET far == InfiniteRays(R)
  IN  IF IsNull(hit) THEN Null ELSE DomainAddRays(hit, Tuple([x \in DOMAIN far |-> R.Ray[1]]))
NotHoles(R, P) ==
  LET n == HomogeneousDimension(P[1])
  IN  WithRays(AsDomain(PointsOf(Above(R, P, n), n, HomogeneousDimension(R))), R)

(***************************************************************************)
(* sLBLCompute_holes: where the exact shadow is not the dark one, the      *)
(* points are tried one by one.  exact is the shadow along the last        *)
(* columns, which are zero.                                                *)
(***************************************************************************)
HolesIn(rest, P, n) ==
  IF IsNull(rest) \/ EmptyDomain(rest) THEN Null
  ELSE Domain_Remove_Integer_Empty(DomainConstraintSimplify(
         DomainDifference(rest, FoldLeft(LAMBDA d, R : NotHoles(R, P) \o d, Null, rest), n), n))
HolesBetween(exact, dark, P, n) ==
  [exact |-> exact,
   holes |-> HolesIn(DomainConstraintSimplify(Disjoint_Domain(DomainDifference(exact, dark, n), 0), n), P, n)]
sLBLCompute_holes(p) ==
  LET N == NbColumns(p.Lat)
      zeros == LatCountZeroCols(p.Lat)
      dims == Tuple([z \in 1..zeros |-> N - z + 1])
  IN  IF zeros = 0 THEN [holes |-> Null, exact |-> p.P]
      ELSE HolesBetween(FoldLeft(domain_project, p.P, dims), FoldLeft(domain_dark_shadow, p.P, dims), p.P, N - zeros)

WithoutZeros(L) == LET zeros == LatCountZeroCols(L) IN RemoveNColumns(L, NbColumns(L) - zeros, zeros)

\* Without the columns of zeros.
Shadow(s, n) == DomainDifference(s.exact, s.holes, n)
sLBL2ZDomain(p) ==
  LBLAlloc(WithoutZeros(p.Lat),
           IF LatCountZeroCols(p.Lat) = 0 THEN p.P ELSE Shadow(sLBLCompute_holes(p), NbColumns(WithoutZeros(p.Lat))))
LBL2ZDomain(A) ==
  LET Joined(pieces) == FoldLeft(LAMBDA R, l : LBLConcatenate(l, R), pieces[1], Tail(pieces))
  IN  LBLSimplifyEmpty(CanonicalLBL(Joined(Tuple([x \in DOMAIN A |-> sLBL2ZDomain(A[x])]))))

-----------------------------------------------------------------------------
(* Intersection.                                                             *)

AddNonempty(d, P) == IF emptyQ(P) THEN d ELSE AddPolyToDomain(P, d)
AllocUnlessNull(p) == IF IsNull(p.P) THEN << >> ELSE LBLAlloc(p.Lat, p.P)
AllAllocated(pieces) == Tuple([x \in DOMAIN pieces |-> AllocUnlessNull(pieces[x])])
\* The points of p for the coordinates z' of q that give the same point.
WithCoordinates(p, q) ==
  LET k == NbColumns(q.Lat) - 1
      l == NbColumns(p.Lat) - 1
      Equal(i) == <<0>> \o Negative(SubSeq(q.Lat[i], 1, k)) \o SubSeq(p.Lat[i], 1, l)
                    \o <<p.Lat[i][l + 1] - q.Lat[i][k + 1]>>
      rows(BP) == Tuple([i \in 1 .. NbRows(p.Lat) - 1 |-> Equal(i)])
                    \o Tuple([x \in DOMAIN BP.Constraint |-> Widened(BP.Constraint[x], l)])
  IN  [Lat |-> Tuple([i \in Rows(p.Lat) |-> Zeros(k) \o p.Lat[i]]),
       P |-> FoldLeft(LAMBDA d, BP : FoldLeft(LAMBDA e, AP : AddNonempty(e, AddConstraints(rows(BP), AP)), d,
                                               align_context(p.P, k + l)),
                       Null, q.P)]

\* Z-polyhedra meet where their lattices and their images do.
OnLattice(L, PInter) == [Lat |-> L, P |-> IF EmptyDomain(PInter) THEN Null ELSE DomainPreimage(PInter, L)]
ImageOf(p) == DomainImage(p.P, p.Lat)
MeetOn(L, p, q) ==
  IF L = LAT!None THEN << >>
  ELSE AllocUnlessNull(IF \E M \in {p.Lat, q.Lat, L} : LatCountZeroCols(M) > 0 THEN WithCoordinates(p, q)
                       ELSE OnLattice(L, DomainIntersection(ImageOf(p), ImageOf(q), NbRows(p.Lat))))
sLBLIntersection(p, q) ==
  IF Void(p) \/ Void(q) THEN EmptyLBL(NbRows(p.Lat) - 1) ELSE MeetOn(LAT!LatticeIntersection(p.Lat, q.Lat), p, q)

CanonicalOrEmpty(pieces, dimension) == IF pieces = << >> THEN EmptyLBL(dimension) ELSE CanonicalLBL(pieces)
LBLIntersection(A, B) ==
  CanonicalOrEmpty(
    FoldLeft(LAMBDA R, p : FoldLeft(LAMBDA S, q : LBLConcatenate(sLBLIntersection(p, q), S), R, B), << >>, A),
    NbRows(A[1].Lat) - 1)

-----------------------------------------------------------------------------
(* Complement and difference.                                                *)

\* What is outside of the hull, the points that are not on the lattice, and
\* the holes.
OffLattice(hull, Lat) ==
  FoldLeft(LAMBDA l, L : <<[Lat |-> L, P |-> <<UniversePolyhedron(NbColumns(L))>>]>> \o l, << >>,
           IF IsNull(hull) \/ EmptyDomain(hull) THEN << >> ELSE LAT!LatticeDifference(LAT!None, Lat))
\* First the holes; last the outside.
PieceOn(L, D) == [Lat |-> L, P |-> IF EmptyDomain(D) THEN Null ELSE D]
HolesThenOutside(pieces, others) == LBLConcatenate(pieces[1], others \o pieces[2])
OutsideOf(hull, rows) == DomainDifference(<<UniversePolyhedron(rows)>>, hull, rows)
ComplementOfHull(p, hull) ==
  HolesThenOutside(AllAllocated(<<PieceOn(WithoutZeros(p.Lat), sLBLCompute_holes(p).holes),
                                  PieceOn(Identity(NbRows(p.Lat)), OutsideOf(hull, NbRows(p.Lat)))>>),
                   OffLattice(hull, p.Lat))
sLBLComplement(p) == ComplementOfHull(p, ImageOf(p))

MeetOfAll(As) == FoldLeft(LAMBDA R, A : IF R = << >> THEN R ELSE LBLIntersection(R, A), As[1], Tail(As))
LBLComplement(A) ==
  CanonicalLBL(MeetOfAll(Tuple([x \in DOMAIN A |-> sLBLComplement(A[x])])))

\* Each piece of A in the first one of B with its lattice.
LBL_simple_inclusion_check(A, B) ==
  \A i \in DOMAIN A :
    \E j \in DOMAIN B :
      /\ B[j].Lat = A[i].Lat /\ \A k \in 1 .. j - 1 : B[k].Lat # A[i].Lat
      /\ ~IsNull(B[j].P)
      /\ IF Len(B[j].P) = 1 THEN \A x \in DOMAIN A[i].P : PolyhedronIncludes(B[j].P[1], A[i].P[x])
         ELSE EmptyDomain(DomainDifference(A[i].P, B[j].P, NbColumns(B[j].Lat)))

Less(A, p) == IF isEmptyLBL(A) THEN A ELSE LBLIntersection(A, sLBLComplement(p))
LessIntersection(A, B, inter) ==
  IF B = << >> \/ isEmptyLBL(inter) THEN LBLCopy(A)
  ELSE IF LBL_simple_inclusion_check(A, inter) THEN EmptyLBL(NbRows(A[1].Lat) - 1)
  ELSE FoldLeft(Less, A, inter)
LBLDifference(A, B) == IF A = << >> THEN << >> ELSE LessIntersection(A, B, LBLIntersection(A, B))

\* The first piece of the difference A \ B decides.
LBLIncluded(A, B, difference) ==
  \/ LBL_simple_inclusion_check(A, B)
  \/ IsNull(Domain_Remove_Integer_Empty(difference[1].P))

\* Of an LBL with domains.
LBLContainsPoint(A, pt) ==
  LET Equal(p, i) == <<0>> \o [p.Lat[i] EXCEPT ![Len(p.Lat[i])] = @ - pt[i]]
      equalities(p) == Tuple([i \in 1 .. NbRows(p.Lat) - 1 |-> Equal(p, i)])
  IN  \E x \in DOMAIN A :
        ~IsNull(Domain_Remove_Integer_Empty(
                  DomainConstraintSimplify(DomainAddConstraints(A[x].P, equalities(A[x])), NbColumns(A[x].Lat))))

-----------------------------------------------------------------------------
(* Images by the affine function of a matrix.                                *)

ByPieces(images, dimension) ==
  CanonicalOrEmpty(FoldLeft(LAMBDA R, image : LBLConcatenate(image, R), << >>, images), dimension)

LBLImage(A, Func) ==
  ByPieces(Tuple([x \in DOMAIN A |-> LBLAlloc(Matrix_Product(Func, A[x].Lat), A[x].P)]), NbRows(A[1].Lat) - 1)

\* By an invertible function the inverse maps the lattice, which must be as
\* wide; otherwise the coordinates z of p stay, with G z' = L z.
PreimageByInverse(p, inverse) ==
  IF NbColumns(p.Lat) = NbColumns(inverse) THEN [p EXCEPT !.Lat = Matrix_Product(inverse, @)] ELSE [p EXCEPT !.P = Null]
PreimageInBoth(p, G) ==
  LET d == NbColumns(p.Lat) - 1
      dp == NbColumns(G)
      Equal(i) == <<0>> \o SubSeq(G[i], 1, dp - 1) \o Negative(SubSeq(p.Lat[i], 1, d)) \o <<G[i][dp] - p.Lat[i][d + 1]>>
  IN  [Lat |-> Tuple([i \in 1..dp |-> Widened(Identity(dp)[i], d)]),
       P |-> DomainAddConstraints(align_context(p.P, d + dp - 1), Tuple([i \in 1 .. NbRows(G) - 1 |-> Equal(i)]))]
PreimageBy(inv, p, G) ==
  IF inv.ok /\ inv.inverse[NbRows(G)][NbRows(G)] = 1 THEN PreimageByInverse(p, inv.inverse) ELSE PreimageInBoth(p, G)
sLBLPreimage(p, G) ==
  AllocUnlessNull(PreimageBy(IF NbRows(G) = NbColumns(G) THEN Matrix_Inverse(G) ELSE [ok |-> FALSE], p, G))
LBLPreimage(A, G) == ByPieces(Tuple([x \in DOMAIN A |-> sLBLPreimage(A[x], G)]), NbColumns(G) - 1)
=============================================================================
