---------------------------- MODULE ParamPolyhedra ----------------------------
(***************************************************************************)
(* Parameterised polyhedra (source/kernel/polyparam.c): a polyhedron in    *)
(* n variables and m parameters, constant last, whose vertices are affine  *)
(* functions of the parameters, each valid where the parameters are in the *)
(* projection of an m-face; and the domains of parameters where the same   *)
(* vertices are valid.  The bit vectors of the code are sets.              *)
(***************************************************************************)
EXTENDS Scanning
LOCAL INSTANCE SequencesExt

\* Of the intersections and differences of validity domains only those of
\* full dimension count; a difference keeps its boundary.
IfAlike(p3, p1, d) == IF p3.NbEq = p1.NbEq THEN AddPolyToDomain(p3, d) ELSE d
IfFull(p3, p1, d) == IF IsNull(p3) THEN d ELSE IF emptyQ(p3) THEN d ELSE IfAlike(p3, p1, d)
Unlike(D1, D2) == IF IsNull(D1) \/ IsNull(D2) THEN TRUE ELSE D1[1].NbEq # D2[1].NbEq

PDomainIntersection(D1, D2) ==
  IF Unlike(D1, D2) THEN Null
  ELSE FoldLeft(LAMBDA d, p1 :
         FoldLeft(LAMBDA e, p2 : IfAlike(AddConstraints(p2.Constraint, p1), D1[1], e), d, D2), Null, D1)

\* Wrong variant: a piece is cut off in integers, as DomainDifference does.
PDomainDifferenceStrict(D1, D2) ==
  FoldLeft(LAMBDA D, p2 :
    FoldLeft(LAMBDA d, p1 :
      FoldLeft(LAMBDA e, c : IfFull(SubConstraint(c, p1, 0), D1[1], e), d, p2.Constraint), Null, D), D1, D2)

PDomainDifference(D1, D2) ==
  IF Unlike(D1, D2) THEN Null
  ELSE FoldLeft(LAMBDA D, p2 :
         FoldLeft(LAMBDA d, p1 :
           FoldLeft(LAMBDA e, c : IfFull(SubConstraint(c, p1, 2), D1[1], e), d, p2.Constraint), Null, D), D1, D2)

\* The columns of M are independent: elimination below the diagonal.
TestRank(M) ==
  LET Below(A, k, j) ==
        LET g == GcdOf(A[j][k], A[k][k])
        IN  Tuple([i \in Columns(A) |->
              IF i <= k THEN A[j][i] ELSE Quot(A[j][i] * A[k][k] - A[j][k] * A[k][i], g)])
      step[k \in 0..NbColumns(M)] ==
        IF k = 0 THEN [full |-> TRUE, M |-> M]
        ELSE LET s == step[k - 1]
                 found == {j \in k..NbRows(M) : s.M[j][k] # 0}
                 A == ExchangeRows(s.M, k, CHOOSE j \in found : \A i \in found : j <= i)
             IN  IF ~s.full \/ found = {} THEN [s EXCEPT !.full = FALSE]
                 ELSE [s EXCEPT !.M = Tuple([j \in Rows(A) |-> IF j > k THEN Below(A, k, j) ELSE A[j]])]
  IN  step[NbColumns(M)].full

-----------------------------------------------------------------------------
(* The m-faces.                                                              *)

\* Poly2Sat: the rays that saturate constraint i.
Poly2Sat(D, i) == {k \in DOMAIN D.Ray : Value(D.Constraint[i], D.Ray[k]) = 0}

(***************************************************************************)
(* scan_m_face: from constraint pos on, nb_un are still to be chosen.  s   *)
(* holds the rays that saturate those chosen (on) and those chosen though  *)
(* they follow from the others (skip).  A face is the set of its rays and  *)
(* all the constraints they saturate; it is found once, by its last        *)
(* selection.                                                              *)
(***************************************************************************)
RECURSIVE scan_m_face(_, _, _, _, _)
scan_m_face(D, m_dim, pos, nb_un, s) ==
  LET NbConstraints == Len(D.Constraint)
      Holds(i) == s.rays \subseteq Poly2Sat(D, i)
      found  == [rays |-> s.rays, Facets |-> s.on \cup s.skip \cup {i \in pos..NbConstraints : Holds(i)}]
      rays   == s.rays \cap Poly2Sat(D, pos)
      chosen == SelectSeq(Indices(D.Constraint), LAMBDA i : i \in s.on \cup {pos})
      CTest  == Transpose([x \in DOMAIN chosen |-> Vec(D.Constraint[chosen[x]])])
      With ==
        IF Cardinality(rays) <= m_dim THEN << >>
        ELSE IF rays = s.rays /\ ~TestRank(CTest)
             THEN scan_m_face(D, m_dim, pos + 1, nb_un, [s EXCEPT !.skip = @ \cup {pos}])
             ELSE scan_m_face(D, m_dim, pos + 1, nb_un - 1, [s EXCEPT !.rays = rays, !.on = @ \cup {pos}])
  IN  IF nb_un = 0
      THEN IF \E i \in 1 .. pos - 2 : i \notin s.on \cup s.skip /\ Holds(i) THEN << >> ELSE <<found>>
      ELSE IF pos - 1 + nb_un > NbConstraints THEN << >>
      ELSE With \o (IF pos - 1 + nb_un >= NbConstraints THEN << >>
                    ELSE scan_m_face(D, m_dim, pos + 1, nb_un, s))

\* Of the vectors, the first that are independent, at most most of them.
RECURSIVE FirstIndependent(_, _, _, _)
FirstIndependent(v, x, chosen, most) ==
  IF x > Len(v) \/ Len(chosen) = most THEN chosen
  ELSE FirstIndependent(v, x + 1,
         IF TestRank(Transpose([y \in 1 .. Len(chosen) + 1 |->
              IF y <= Len(chosen) THEN v[chosen[y]] ELSE v[x]])) THEN Append(chosen, x) ELSE chosen, most)

\* The vertex of an m-face with m + 1 independent rays in the space of the
\* parameters, as an affine function of them (each row with its denominator),
\* and the parameters where it is valid; none otherwise.
traite_m_face(D, n, m, face) ==
  LET rays    == SelectSeq(Indices(D.Ray), LAMBDA k : k \in face.rays)
      Param(k) == SubSeq(D.Ray[k], n + 2, n + m + 2)
      chosen  == FirstIndependent([x \in DOMAIN rays |-> Param(rays[x])], 1, << >>, m + 1)
      Xi == Tuple([j \in 1 .. n + 1 |-> Tuple([c \in DOMAIN chosen |->
              LET ray == D.Ray[rays[chosen[c]]] IN IF j <= n THEN ray[j + 1] ELSE ray[n + m + 2]])])
      Pi == Transpose([c \in DOMAIN chosen |-> Param(rays[chosen[c]])])
  IN  IF Len(chosen) < m + 1 THEN << >>
      ELSE IF ~MatInverse(Pi).ok THEN << >>
      ELSE <<[Vertex |-> SubSeq(rat_prodmat(Xi, MatInverse(Pi).inverse), 1, n),
              Facets |-> face.Facets,
              Domain |-> Rays2Polyhedron(
                [x \in DOMAIN rays |-> <<Status(D.Ray[rays[x]])>> \o Param(rays[x])], m + 1)]>>

\* The lines and rays that do not depend on the parameters.
Recession_Cone(P, n) ==
  Constraints2Polyhedron([x \in DOMAIN P.Constraint |-> SubSeq(P.Constraint[x], 1, n + 1) \o <<0>>], n + 1)

\* Without parameters: the vertices, valid in the only domain.
GenParamPolyhedron(P) ==
  LET at == SelectSeq(P.Ray, LAMBDA r : Status(r) = 1 /\ ~AtInfinity(r))
  IN  [V |-> Reverse([x \in DOMAIN at |->
               [Vertex |-> [j \in 1 .. Len(at[x]) - 2 |-> <<at[x][j + 1], at[x][Len(at[x])]>>],
                Domain |-> UniversePolyhedron(1), Facets |-> {}]]),
       D |-> <<[Domain |-> <<UniversePolyhedron(1)>>, F |-> DOMAIN at]>>]

-----------------------------------------------------------------------------
(* The equalities between the parameters are removed and added again         *)
(* (Polyhedron2Param_Domain), or parameters are eliminated with them         *)
(* (Polyhedron2Param_SimplifiedDomain).                                      *)

\* Row l of the equalities eliminates the column of its first entry; the other
\* columns are kept.  CT has a row for each parameter kept.
PreElim_Columns(E, m) ==
  LET n == HomogeneousDimension(E) - 1 - m
      p == [l \in 1..E.NbEq |-> FirstNonZeroOf(Vec(E.Constraint[l])) + 1]
      ref == SelectSeq([c \in 1 .. HomogeneousDimension(E) + 1 |-> c], LAMBDA c : ~\E l \in DOMAIN p : p[l] = c)
  IN  [p |-> p, ref |-> ref,
       CT |-> Tuple([j \in 1 .. m + 1 - E.NbEq |-> Tuple([i \in 1 .. m + 1 |->
                IF ref[n + 1 + j] = n + 1 + i THEN 1 ELSE 0])])]

Elim_Columns(A, E, p, ref) ==
  LET Less(row, l) ==
        IF row[p[l]] = 0 THEN row
        ELSE <<Status(row)>> \o AddScaled(Scaled(Vec(row), E.Constraint[l][p[l]]), -row[p[l]], Vec(E.Constraint[l]))
      Without(row) == FoldLeft(Less, row, Indices(p))
      Kept(row) == Tuple([c \in DOMAIN ref |-> row[ref[c]]])
  IN  Constraints2Polyhedron(Tuple([x \in DOMAIN A.Constraint |-> Kept(Without(A.Constraint[x]))]), Len(ref) - 1)

VertexCT(V, CT) ==
  LET From(j) == {k \in Rows(CT) : CT[k][j] # 0}
  IN  Tuple([i \in Rows(V) |-> Tuple([j \in 1 .. NbColumns(CT) + 1 |->
        IF j > NbColumns(CT) THEN V[i][NbColumns(V)]
        ELSE IF From(j) = {} THEN 0 ELSE V[i][CHOOSE k \in From(j) : TRUE]])])

NoParam == [V |-> Null, D |-> Null, CEq |-> Null, CT |-> Null]

\* The vertices of D1 in n variables and m parameters, and a domain for each.
FacesOf(D1, n, m) ==
  LET Faces(m_dim) == scan_m_face(D1, m_dim, D1.NbEq + 1, n + m - m_dim - D1.NbEq,
                                  [rays |-> DOMAIN D1.Ray, on |-> 1..D1.NbEq, skip |-> {}])
      AtLeast(a, b) == IF b < a THEN a ELSE b
      Of(V) == [V |-> V, D |-> [x \in DOMAIN V |-> [Domain |-> <<V[x].Domain>>, F |-> {}]]]
  IN  Of(FoldLeft(LAMBDA list, f : traite_m_face(D1, n, m, f) \o list, Null,
                  Faces(AtLeast(D1.NbBid, m + Recession_Cone(D1, n).NbBid))))

\* The vertices of D3, n variables and left parameters.
FoundIn(D3, n, left, CEq, CT) ==
  IF left # 0 /\ emptyQ(D3) THEN NoParam
  ELSE (IF left = 0 THEN GenParamPolyhedron(D3) ELSE FacesOf(D3, n, left)) @@ [CEq |-> CEq, CT |-> CT]

\* The constraints of C1, or its equalities, in the space of the parameters.
OnParameters(C1, used, n, m) ==
  Constraints2Polyhedron([x \in 1..used |-> <<Status(C1.Constraint[x])>>
                                              \o SubSeq(C1.Constraint[x], n + 2, n + m + 2)], m + 1)

\* D1 in its projection C1 on the parameters; CEq as above, pre the columns.
FoundEliminating(D1, C1, n, m, CEq, pre) ==
  FoundIn(Elim_Columns(DomainSimplify(<<D1>>, <<C1>>, n + m + 1)[1], C1, pre.p, pre.ref),
          n, m - C1.NbEq, <<CEq>>, pre.CT)
FoundKeeping(D1, n, m, CEq) ==
  FoundIn(DomainSimplify(<<D1>>, align_context(<<CEq>>, n + m), n + m + 1)[1], n, m, <<CEq>>, Null)
FoundWithin(D1, C1, n, m, eliminate) ==
  IF eliminate
  THEN FoundEliminating(D1, C1, n, m, OnParameters(C1, Len(C1.Constraint), n, m), PreElim_Columns(C1, m))
  ELSE IF C1.NbEq > 0 THEN FoundKeeping(D1, n, m, OnParameters(C1, C1.NbEq, n, m))
  ELSE FoundIn(D1, n, m, Null, Null)
FoundFor(D1, n, m, eliminate) ==
  IF emptyQ(D1) THEN NoParam
  ELSE FoundWithin(D1, DomainAddRays(<<D1>>, [x \in 1..n |-> Unit(0, n + m + 1, x)])[1], n, m, eliminate)

Find_m_faces(D, C, eliminate) ==
  LET m    == HomogeneousDimension(C) - 1
      n    == HomogeneousDimension(D) - 1 - m
  IN  IF m = 0 THEN GenParamPolyhedron(D) @@ [CEq |-> Null, CT |-> Null]
      ELSE FoundFor(DomainIntersection(<<D>>, align_context(<<C>>, n + m), n + m + 1)[1], n, m, eliminate)

-----------------------------------------------------------------------------
(***************************************************************************)
(* Compute_PDomains: domain x of the list against the later ones y.  What  *)
(* they share gets the vertices of both, in a domain of its own unless it  *)
(* is all of one of them.                                                  *)
(***************************************************************************)
Gone(d) == IF IsNull(d) THEN TRUE ELSE emptyQ(d[1]) \/ d[1].NbEq # 0

\* dx is what domains x and y share, d1 and d2 the rest of each; the list and
\* the next domain.
Into(L, x, y, both, dx, d1, d2) ==
  IF Gone(d1) /\ Gone(d2)
  THEN [L |-> [SubSeq(L, 1, y - 1) EXCEPT ![x].F = both] \o SubSeq(L, y + 1, Len(L)), y |-> y]
  ELSE IF Gone(d1) THEN [L |-> [L EXCEPT ![x].F = both, ![y].Domain = d2], y |-> y + 1]
  ELSE IF Gone(d2) THEN [L |-> [L EXCEPT ![y].F = both, ![x].Domain = d1], y |-> y + 1]
  ELSE [L |-> [SubSeq(L, 1, x) EXCEPT ![x].Domain = d1] \o <<[Domain |-> dx, F |-> both]>>
                \o [SubSeq(L, x + 1, Len(L)) EXCEPT ![y - x].Domain = d2], y |-> y + 2]
Shared(L, x, y, dx) ==
  IF IsNull(dx) \/ EmptyDomain(dx) THEN [L |-> L, y |-> y + 1]
  ELSE Into(L, x, y, L[x].F \cup L[y].F, dx,
            PDomainDifference(L[x].Domain, L[y].Domain), PDomainDifference(L[y].Domain, L[x].Domain))

RECURSIVE Split(_, _)
Split(s, x) ==
  IF s.y > Len(s.L) THEN s.L
  ELSE Split(Shared(s.L, x, s.y, PDomainIntersection(s.L[x].Domain, s.L[s.y].Domain)), x)

RECURSIVE SplitFrom(_, _)
SplitFrom(L, x) ==
  IF x > Len(L) THEN L
  ELSE SplitFrom([Split([L |-> L, y |-> x + 1], x)
                    EXCEPT ![x].Domain = IF Len(@) > 1 THEN DomainConvex(@) ELSE @], x + 1)

Compute_PDomains(PD) ==
  IF Len(PD) = 1 /\ PD[1].F # {} THEN PD
  ELSE SplitFrom([x \in DOMAIN PD |-> [PD[x] EXCEPT !.F = {x}]], 1)

WithPDomains(r) == IF r = NoParam THEN r ELSE [r EXCEPT !.D = Compute_PDomains(@)]
\* The equalities that Polyhedron2Param_Domain adds again.
WithEqualities(r) ==
  LET With(p, CEq) == [p EXCEPT !.Domain = Tuple([x \in DOMAIN @ |-> AddConstraints(@[x].Constraint, CEq)])]
  IN  IF IsNull(r.CEq) THEN r ELSE [r EXCEPT !.D = [x \in DOMAIN @ |-> With(@[x], r.CEq[1])]]

\* Polyhedron2Param_SimplifiedDomain, or Polyhedron2Param_Domain.
Polyhedron2Param(D, C, simplified) ==
  LET Of(r) == IF simplified THEN r ELSE WithEqualities(r)
  IN  IF ~simplified /\ (emptyQ(D) \/ emptyQ(C)) THEN NoParam
      ELSE Of(WithPDomains(Find_m_faces(D, C, simplified)))
=============================================================================
