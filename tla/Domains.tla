------------------------------- MODULE Domains -------------------------------
(***************************************************************************)
(* The functions of polyhedron.c on domains, lists of polyhedra that stand *)
(* for their union.  A list is a sequence, the null pointer the empty one. *)
(* The code keeps lists without empty polyhedra, but for a single one.     *)
(***************************************************************************)
EXTENDS Polyhedra
LOCAL INSTANCE SequencesExt

Null == << >>
IsNull(D) == D = Null
Empty(n) == <<EmptyPolyhedron(n)>>
\* What the functions take for an empty domain: its first polyhedron is empty.
EmptyDomain(D) == D # Null /\ emptyQ(D[1])
OrEmpty(D, n) == IF IsNull(D) THEN Empty(n) ELSE D

\* Wrong variant: a polyhedron that covers others joins them.
AddPolyToDomainKeeping(Pol, D) ==
  IF IsNull(Pol) THEN D
  ELSE IF IsNull(D) \/ EmptyDomain(D) THEN <<Pol>>
  ELSE IF emptyQ(Pol) \/ \E x \in DOMAIN D : PolyhedronIncludes(D[x], Pol) THEN D
  ELSE Append(D, Pol)

(***************************************************************************)
(* AddPolyToDomain: Pol replaces the polyhedra that it covers, and is left *)
(* out when one of the others covers it; the rest of the list then stays   *)
(* as it is.                                                               *)
(***************************************************************************)
Beside(Pol, D) == SelectSeq(D, LAMBDA p : ~PolyhedronIncludes(Pol, p))
InsertedBefore(Pol, D, covering) ==
  LET first == IF covering = {} THEN Len(D) + 1 ELSE CHOOSE x \in covering : \A y \in covering : x <= y
  IN  Beside(Pol, SubSeq(D, 1, first - 1)) \o (IF covering = {} THEN <<Pol>> ELSE SubSeq(D, first, Len(D)))
AddPolyToDomain(Pol, D) ==
  IF IsNull(Pol) THEN D
  ELSE IF IsNull(D) THEN <<Pol>>
  ELSE IF emptyQ(Pol) THEN D
  ELSE IF EmptyDomain(D) THEN <<Pol>>
  ELSE InsertedBefore(Pol, D, {x \in DOMAIN D : PolyhedronIncludes(D[x], Pol) /\ ~PolyhedronIncludes(Pol, D[x])})

DomainIntersection(D1, D2, n) ==
  IF IsNull(D1) \/ IsNull(D2) THEN Null
  ELSE OrEmpty(FoldLeft(LAMBDA d, p1 :
                 FoldLeft(LAMBDA e, p2 : AddPolyToDomain(AddConstraints(p2.Constraint, p1), e), d, D2),
                 Null, D1), n)

CoveredIn(D, p) == \E x \in DOMAIN D : PolyhedronIncludes(D[x], p)

DomainUnion(D1, D2) ==
  LET A == SelectSeq(D1, LAMBDA p : ~CoveredIn(D2, p))
  IN  IF IsNull(D1) THEN D2 ELSE IF IsNull(D2) THEN D1
      ELSE A \o SelectSeq(D2, LAMBDA p : ~CoveredIn(A, p))

DomainConvex(D) ==
  IF IsNull(D) THEN Null
  ELSE <<FoldLeft(LAMBDA h, p : AddRays(p.Ray, h), D[1], Tail(D))>>

\* Wrong variant: one side of an equality is left out.
OutsideOneSide(p1, p2, d) ==
  FoldLeft(LAMBDA e, c : AddPolyToDomain(SubConstraint(c, p1, 0), e), d, p2.Constraint)

\* For each constraint of p2, p1 on its other side; of an equality both sides.
Outside(p1, p2, d) ==
  FoldLeft(LAMBDA e, c :
             FoldLeft(LAMBDA f, pass : AddPolyToDomain(SubConstraint(c, p1, pass), f), e,
                      IF Status(c) = 0 THEN <<0, 1>> ELSE <<0>>),
           d, p2.Constraint)

\* A null Pol2 returns a copy of the first polyhedron of Pol1.
DomainDifference(D1, D2, n) ==
  IF IsNull(D1) THEN Null
  ELSE IF IsNull(D2) THEN <<D1[1]>>
  ELSE IF EmptyDomain(D1) \/ EmptyDomain(D2) THEN D1
  ELSE OrEmpty(FoldLeft(LAMBDA D, p2 : FoldLeft(LAMBDA d, p1 : Outside(p1, p2, d), Null, D), D1, D2), n)

\* The list, but the polyhedra that an earlier one covers.
Uncovered(D) == FoldLeft(LAMBDA A, p : IF CoveredIn(A, p) THEN A ELSE Append(A, p), Null, D)

DomainAddConstraints(D, M) ==
  Uncovered(SelectSeq(Tuple([x \in DOMAIN D |-> AddConstraints(M, D[x])]), LAMBDA p : ~emptyQ(p)))
DomainAddRays(D, R) ==
  IF R = << >> THEN D ELSE Uncovered(Tuple([x \in DOMAIN D |-> AddRays(R, D[x])]))

-----------------------------------------------------------------------------
(* DomainSimplify: of the polyhedra of D1 the constraints that matter in the *)
(* context D2.  A filter is the set of the constraints found so far.         *)

\* The equations of p1 that those of p2 do not eliminate.
SimplifyEqualities(p1, p2) ==
  LET rows(p) == SubSeq(p.Constraint, 1, p.NbEq)
      g == Echelon(rows(p2) \o rows(p1), p2.NbEq)
  IN  {x \in 1..p1.NbEq : ~IsZeroVector(Vec(g.M[p2.NbEq + x]))}

IncludesRay(c, ray) == Value(c, ray) = 0 \/ (Value(c, ray) > 0 /\ Status(c) # 0)

\* addToFilter: the rays that constraint k excludes leave.
RaysWithin(p1, rays, k) == {i \in rays : IncludesRay(p1.Constraint[k], i)}

RECURSIVE Essential(_, _, _)
\* One at a time, the constraints that alone exclude one of the rays left.
Essential(p1, rays, Filter) ==
  LET Excluding(i) == {k \in DOMAIN p1.Constraint \ Filter : ~IncludesRay(p1.Constraint[k], i)}
      single == {i \in rays : Cardinality(Excluding(i)) = 1}
      k == CHOOSE k \in Excluding(CHOOSE i \in single : TRUE) : TRUE
  IN  IF single = {} THEN Filter ELSE Essential(p1, RaysWithin(p1, rays, k), Filter \cup {k})

(***************************************************************************)
(* FindSimple: p1 and p2 do not meet.  Constraints of p1 are added to the  *)
(* filter until those in it exclude all of p2: those that alone exclude a  *)
(* ray, and when there are none the one that includes the fewest.          *)
(***************************************************************************)
MoreOf(p1, rays, Filter) ==
  LET left == DOMAIN p1.Constraint \ Filter
      Before(k, l) == LET m == Cardinality(RaysWithin(p1, rays, k)) - Cardinality(RaysWithin(p1, rays, l))
                      IN  m < 0 \/ (m = 0 /\ k <= l)
      Or(essential) ==
        IF essential # Filter THEN essential
        ELSE Filter \cup {CHOOSE k \in left : \A l \in left : Before(k, l)}
  IN  Or(Essential(p1, rays, Filter))

ChosenOf(p, I) == Picked(p.Constraint, SelectSeq(Indices(p.Constraint), LAMBDA x : x \in I))

RECURSIVE FindSimple(_, _, _, _), FindSimpleIn(_, _, _)
FindSimple(p1, p2, Filter, added) == FindSimpleIn(p1, AddConstraints(ChosenOf(p1, added), p2), Filter)
FindSimpleIn(p1, Pol, Filter) ==
  LET Go(more) == FindSimple(p1, Pol, more, more \ Filter)
  IN  IF emptyQ(Pol) THEN Filter ELSE Go(MoreOf(p1, {Pol.Ray[i] : i \in DOMAIN Pol.Ray}, Filter))

SimplifyWithRays(p1, p2, Filter, G) ==
  IF \A r \in G.rays : AtInfinity(r)
  THEN [empty |-> TRUE, Filter |-> FindSimple(p1, p2, Filter, Filter)]
  ELSE [empty |-> FALSE,
        Filter |-> Filter \cup (Filtered(p1.Constraint \o p2.Constraint, G) \cap DOMAIN p1.Constraint)]
SimplifyConstraints(p1, p2, Filter) ==
  SimplifyWithRays(p1, p2, Filter, RaysOf(p1.Constraint \o p2.Constraint, HomogeneousDimension(p1)))

\* The polyhedra of D1 that meet one of D2, each with its filtered constraints;
\* with equations, those of a pair add to the filter what SimplifyEqualities says.
FilterIn(p1, D2, equations) ==
  LET Equations(p2) == IF equations THEN SimplifyEqualities(p1, p2) ELSE {}
  IN  FoldLeft(LAMBDA f, p2 :
                 [SimplifyConstraints(p1, p2, f.Filter \cup Equations(p2)) EXCEPT !.empty = f.empty /\ @],
               [empty |-> TRUE, Filter |-> {}], D2)
WithFiltered(d, p1, f, n) ==
  IF f.empty THEN d ELSE AddPolyToDomain(Constraints2Polyhedron(ChosenOf(p1, f.Filter), n), d)
SimplifiedIn(D1, D2, n, equations) ==
  IF IsNull(D1) \/ IsNull(D2) THEN D1
  ELSE IF EmptyDomain(D1) \/ EmptyDomain(D2) THEN Empty(n)
  ELSE OrEmpty(FoldLeft(LAMBDA d, p1 : WithFiltered(d, p1, FilterIn(p1, D2, equations), n), Null, D1), n)

DomainSimplify(D1, D2, n) == SimplifiedIn(D1, D2, n, TRUE)
Stras_DomainSimplify(D1, D2, n) == SimplifiedIn(D1, D2, n, FALSE)

-----------------------------------------------------------------------------
(* Disjoint_Domain.                                                          *)

\* The pieces of pi beyond each constraint of p, pi being cut after each of
\* them; flag 0 leaves the strict side, in integers, and flag 1 the closed one.
RECURSIVE CutOff(_, _, _, _, _)
CutOff(pi, C, x, flag, d) ==
  LET c      == C[x]
      passes == IF Status(c) = 0 THEN <<2 * flag, 1 + 2 * flag>> ELSE <<2 * flag>>
      Go(newpi, e) ==
        IF IsNull(newpi) THEN e ELSE IF emptyQ(newpi) THEN e ELSE CutOff(newpi, C, x + 1, flag, e)
  IN  IF x > Len(C) THEN d
      ELSE Go(IF Status(c) = 0 THEN AddConstraints(<<c>>, pi) ELSE SubConstraint(c, pi, 3),
              FoldLeft(LAMBDA e, pass : AddPolyToDomain(SubConstraint(c, pi, pass), e), d, passes))

AllCutOff(D, p, flag) ==
  FoldLeft(LAMBDA d, p1 : CutOff(p1, p.Constraint, 1, flag, d), Null, D)

Nonempty(D) == IF EmptyDomain(D) THEN Null ELSE D

\* Wrong variant: lR is kept whole beside what it shares with the new one.
AgainstUncut(reste, lR, head, flag) ==
  [dx |-> FoldLeft(LAMBDA d, p1 : AddPolyToDomain(AddConstraints(lR.Constraint, p1), d), Null, reste),
   d1 |-> Nonempty(AllCutOff(reste, head, flag)), d2 |-> <<lR>>]

\* One polyhedron lR of the result and the rest of the new one: what they
\* share, what is left of the new one (without the first polyhedron of the
\* argument, head), and what is left of lR.
Against(reste, lR, head, flag) ==
  [dx |-> FoldLeft(LAMBDA d, p1 : AddPolyToDomain(AddConstraints(lR.Constraint, p1), d), Null, reste),
   d1 |-> Nonempty(AllCutOff(reste, head, flag)),
   d2 |-> Nonempty(FoldLeft(LAMBDA D, p2 : AllCutOff(D, p2, flag), <<lR>>, reste))]

RECURSIVE Inserted(_, _, _, _, _)
Inserted(reste, Result, x, head, flag) ==
  LET without == SubSeq(Result, 1, x - 1) \o SubSeq(Result, x + 1, Len(Result))
      With(a) ==
        IF IsNull(Nonempty(a.dx)) THEN Inserted(reste, Result, x + 1, head, flag)
        ELSE Inserted(a.d1, a.dx \o a.d2 \o without, Len(a.dx) + Len(a.d2) + x, head, flag)
  IN  IF IsNull(reste) THEN Result
      ELSE IF x > Len(Result)
           THEN IF EmptyDomain(reste) THEN Result
                ELSE FoldLeft(LAMBDA R, p : AddPolyToDomain(p, R), Result, reste)
      ELSE With(Against(reste, Result[x], head, flag))

Disjoint_Domain(D, flag) ==
  IF Len(D) <= 1 THEN D
  ELSE FoldLeft(LAMBDA R, p : Inserted(<<p>>, R, 1, D[1], flag), Null, D)

-----------------------------------------------------------------------------
(* Images: F is the matrix of an affine function in homogeneous coordinates. *)

RowTimes(row, F) == <<Status(row)>> \o Normalized(Vector_Matrix_Product(Vec(row), F))
RowsTimes(rows, F) == Tuple([x \in DOMAIN rows |-> RowTimes(rows[x], F)])
Polyhedron_Preimage(P, F) == Constraints2Polyhedron(RowsTimes(P.Constraint, F), NbColumns(F))

\* Wrong variant: the constraints are mapped by F, as the rays are.
Polyhedron_ImageSame(P, F) ==
  [P EXCEPT !.Constraint = RowsTimes(@, Transpose(F)), !.Ray = RowsTimes(@, Transpose(F))]

\* By an invertible function, both descriptions are mapped.
ImageBy(P, rays, inv, n) ==
  LET Gauss(M, k) == IF k = 0 THEN M ELSE Echelon(M, k).M
  IN  IF inv.ok THEN [P EXCEPT !.Constraint = Gauss(RowsTimes(@, inv.inverse), P.NbEq), !.Ray = Gauss(rays, P.NbBid)]
      ELSE Rays2Polyhedron(rays, n)
Polyhedron_Image(P, F) ==
  ImageBy(P, RowsTimes(P.Ray, Transpose(F)),
          IF NbRows(F) = NbColumns(F) THEN Matrix_Inverse(F) ELSE [ok |-> FALSE], NbRows(F))

DomainPreimage(D, F) ==
  FoldLeft(LAMBDA d, p : AddPolyToDomain(Polyhedron_Preimage(p, F), d), Null, D)
DomainImage(D, F) ==
  FoldLeft(LAMBDA d, p : AddPolyToDomain(Polyhedron_Image(p, F), d), Null, D)

-----------------------------------------------------------------------------
(* DomainConstraintSimplify: for integer points, the constant of an          *)
(* inequality is rounded to a multiple of the gcd of its coefficients.       *)

CoefficientGcd(row) == Vector_Gcd(SubSeq(row, 2, Len(row) - 1))

ConstraintSimplify(row) ==
  LET g == CoefficientGcd(row)
  IN  <<Status(row)>> \o AntiScaled(SubSeq(row, 2, Len(row) - 1), g) \o <<PDiv(row[Len(row)], g)>>

\* p_simplify_constraints: null when an equality has no integer solution.
p_simplify_constraints(P) ==
  LET changed == SelectSeq(P.Constraint, LAMBDA c : CoefficientGcd(c) # 1)
  IN  IF \E x \in DOMAIN changed : Status(changed[x]) = 0 THEN Null
      ELSE IF changed = << >> THEN P
      ELSE AddConstraints(Tuple([x \in DOMAIN changed |-> ConstraintSimplify(changed[x])]), P)

\* Polyhedron x of D simplified; it is dropped when empty or covered by one of
\* the others, simplified before it or still to come.
RECURSIVE SimplifiedFrom(_, _)
SimplifiedFrom(D, x) ==
  LET others == SubSeq(D, 1, x - 1) \o SubSeq(D, x + 1, Len(D))
      With(T) ==
        IF T = D[x] THEN SimplifiedFrom(D, x + 1)
        ELSE IF IsNull(T) THEN SimplifiedFrom(others, x)
        ELSE IF emptyQ(T) \/ CoveredIn(others, T) THEN SimplifiedFrom(others, x)
        ELSE SimplifiedFrom([D EXCEPT ![x] = T], x + 1)
  IN  IF x > Len(D) THEN D ELSE With(p_simplify_constraints(D[x]))

DomainConstraintSimplify(D, n) == IF IsNull(D) THEN Null ELSE OrEmpty(SimplifiedFrom(D, 1), n)
=============================================================================
