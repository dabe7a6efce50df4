------------------------------- MODULE Algebra -------------------------------
(***************************************************************************)
(* The integer linear algebra of the library, called on chosen arguments:  *)
(* elimination (polyhedron.c), normal forms (matrix.c, NormalForms.c),     *)
(* Diophantine systems (SolveDio.c), lattices (Lattice.c), elimination of  *)
(* equalities (compress_parms.c), pseudo-polynomials (ehrhart.c and        *)
(* ext_ehrhart.c), parameterised vertices (polyparam.c) and unions of      *)
(* Z-polyhedra (Zpolyhedron.c).  A step is one call, or the calls on one   *)
(* argument; the properties compare what was returned with the             *)
(* mathematical definition.                                                *)
(***************************************************************************)
EXTENDS SolveDio, Lattices, Compression, Evalues
LOCAL INSTANCE SequencesExt

CONSTANTS EliminationMatrices, \* rows 0..2 of functions on 0..3
          NormalFormMatrices,
          Systems,             \* of equations, with the homogeneous row
          LatticePairs,
          ParamSystems,        \* of rows <<status, variable(s), parameters, constant>>
          EvaluePairs,
          ParamPolyhedra,      \* pairs of constraints: of the polyhedron, of its context
          LBLPairs,            \* pairs of unions of pieces <<lattice, list of constraints>>
          Near, Far            \* integers: coordinates of points, coefficients that reach them

VARIABLES input, answer
vars == <<input, answer>>

G == INSTANCE Gauss WITH Dimension <- 3
PP == INSTANCE ParamPolyhedra
ZP == INSTANCE ZOperations

Nothing == [of |-> "nothing"]
Inputs ==
  {[of |-> "Gauss4", M |-> M, NbEq |-> e] : M \in EliminationMatrices, e \in 1..3}
    \cup {[of |-> "forms", M |-> M] : M \in NormalFormMatrices}
    \cup {[of |-> "SolveDiophantine", M |-> M] : M \in Systems}
    \cup {[of |-> "lattices", A |-> p[1], B |-> p[2]] : p \in LatticePairs}
    \cup {[of |-> "full_dimensionize", M |-> M] : M \in ParamSystems}
    \cup {[of |-> "evalues", e1 |-> p[1], e2 |-> p[2]] : p \in EvaluePairs}
    \cup {[of |-> "vertices", D |-> p[1], C |-> p[2]] : p \in ParamPolyhedra}
    \cup {[of |-> "lbls", A |-> p[1], B |-> p[2]] : p \in LBLPairs}

Init == input \in Inputs /\ answer = Nothing

Call(kind, result) == input.of = kind /\ answer = Nothing /\ answer' = result /\ UNCHANGED input

Eliminate == Call("Gauss4", G!Gauss4(input.M, input.NbEq, 3))

\* The moduli of the rows for affine_periods.
Divisors == <<4, 6, 9>>

ComputeForms ==
  Call("forms", [right |-> right_hermite(input.M), left |-> left_hermite(input.M),
                 hermite |-> Hermite(input.M), smith |-> Smith(input.M),
                 inverse |-> IF NbRows(input.M) = NbColumns(input.M)
                             THEN MatInverse(input.M) ELSE Nothing,
                 product |-> IF NbRows(input.M) = NbColumns(input.M) /\ MatInverse(input.M).ok
                             THEN rat_prodmat(input.M, MatInverse(input.M).inverse) ELSE Nothing,
                 periods |-> affine_periods(input.M, Divisors),
                 kernel |-> int_ker(input.M)])

Solve == Call("SolveDiophantine", SolveDiophantine(input.M))

\* The second operand of the intersection is what the complement is made of.
LatticeCalls ==
  LET Calls(A, B) ==
        [A |-> A, B |-> B, normal |-> isNormalLattice(B), intersection |-> LatticeIntersection(input.A, input.B),
         included |-> LatticeIncluded(A, B), complement |-> LatticeComplement(B),
         difference |-> LatticeDifference(A, B), first |-> Lattice_extractSubLattice(B, 1)]
  IN  Call("lattices", Calls(AffineHermite(input.A).H, AffineHermite(input.B).H))

Compress == Call("full_dimensionize", full_dimensionize(input.M, 1))

\* e1 where 0 <= p1 <= 2 p2, else e2 where p1 >= p2; and the parameters exchanged.
Enumeration(e1, e2) ==
  <<[ValidityDomain |-> <<<<<<1, 1, 0, 0>>, <<1, -1, 2, 0>>>>>>, EP |-> e1],
    [ValidityDomain |-> <<<<<<1, 1, -1, 0>>>>>>, EP |-> e2]>>
SwapParameters == <<<<0, 1, 0>>, <<1, 0, 0>>, <<0, 0, 1>>>>

EvalueCalls ==
  Call("evalues", [sum |-> eadd(input.e1, input.e2), general |-> new_eadd(input.e1, input.e2),
                   half |-> emul(input.e1, Constant(1, 2)), reduced |-> reduce_evalue(input.e1),
                   at1 |-> dehomogenize_evalue(input.e1, 2),
                   swapped |-> addeliminatedparams_evalue(input.e1, SwapParameters),
                   product |-> edot(<<input.e1, input.e2>>, <<Constant(1, 2), Constant(-1, 1)>>),
                   enumeration |-> dehomogenize_enumeration(Enumeration(input.e1, input.e2), 2)])

FindVertices ==
  LET Polyhedron(M) == PP!Constraints2Polyhedron(M, Len(M[1]) - 1)
  IN  Call("vertices", [simplified \in BOOLEAN |->
                          PP!Polyhedron2Param(Polyhedron(input.D), Polyhedron(input.C), simplified)])

\* x -> 1 - 2 x; 2 x + 1 and x1 - x2 + 1.
MapTo == <<<<-2, 1>>, <<0, 1>>>>
MapsFrom == << <<<<2, 1>>, <<0, 1>>>>, <<<<1, -1, 1>>, <<0, 0, 1>>>> >>

Made(list) ==
  LET Domain(p) == FoldLeft(LAMBDA D, M : ZP!DomainUnion(D, <<ZP!Constraints2Polyhedron(M, NbColumns(p[1]))>>), ZP!Null, p[2])
  IN  FoldLeft(LAMBDA S, p : ZP!LBLUnion(S, ZP!LBLAlloc(p[1], Domain(p))), ZP!EmptyLBL(1), list)
CallsOn(A, B, intersection, union, difference) ==
  [union |-> union, intersection |-> intersection, difference |-> difference,
   complement |-> ZP!LBLComplement(B), zdomain |-> ZP!LBL2ZDomain(A),
   included |-> ZP!LBLIncluded(A, B, difference), contained |-> {x \in Near : ZP!LBLContainsPoint(A, <<x>>)},
   image |-> ZP!LBLImage(A, MapTo), preimages |-> Tuple([i \in 1..2 |-> ZP!LBLPreimage(A, MapsFrom[i])])]
CallsOnBoth(s, intersection) ==
  CallsOn(s[1], s[2], intersection, ZP!LBLUnion(s[1], s[2]), ZP!LessIntersection(s[1], s[2], intersection))
CallsOnMade(s) == CallsOnBoth(s, ZP!LBLIntersection(s[1], s[2]))
LBLCalls == Call("lbls", CallsOnMade([i \in 1..2 |-> Made(<<input.A, input.B>>[i])]))

Next == \/ Eliminate \/ ComputeForms \/ Solve \/ LatticeCalls \/ Compress \/ EvalueCalls \/ FindVertices
        \/ LBLCalls
Spec == Init /\ [][Next]_vars
Answers(kind) == input.of = kind /\ answer # Nothing

-----------------------------------------------------------------------------
(***************************************************************************)
(* Gauss4 keeps the solutions of the equations, and on them the sign of    *)
(* every inequality, which a substitution must not multiply by a negative  *)
(* number; the equations end in reduced echelon form, their pivots         *)
(* positive and in no other row, inequalities included.                    *)
(***************************************************************************)
SamplePoints == {[x \in 0..3 |-> IF x = 0 THEN 0 ELSE v[x]] : v \in [1..3 -> -2..2]}
GaussCorrect == Answers("Gauss4") =>
  LET M0 == input.M
      M  == answer.M
      Solves(x, A) == \A r \in 0 .. input.NbEq - 1 : G!InnerProduct(x, A[r]) = 0
      Pivot(r) == G!FirstNonZero(M[r], 3)
  IN  /\ \A x \in SamplePoints :
           /\ Solves(x, M) <=> Solves(x, M0)
           /\ Solves(x, M0) => \A r \in input.NbEq .. 2 :
                /\ G!InnerProduct(x, M[r]) > 0 <=> G!InnerProduct(x, M0[r]) > 0
                /\ G!InnerProduct(x, M[r]) < 0 <=> G!InnerProduct(x, M0[r]) < 0
      /\ \A r \in answer.rank .. input.NbEq - 1 : Pivot(r) = 0
      /\ \A r \in 0 .. answer.rank - 1 :
           /\ Pivot(r) # 0 /\ M[r][Pivot(r)] > 0
           /\ \A q \in 0 .. r - 1 : Pivot(q) < Pivot(r)
           /\ \A q \in 0..2 : q # r => M[q][Pivot(r)] = 0

(***************************************************************************)
(* The factors of the Hermite and Smith forms are unimodular and give the  *)
(* argument back; below and right of a pivot of a Hermite form there are   *)
(* zeros, before it elements reduced modulo it; the Smith form is diagonal *)
(* and a chain of divisors; the inverse is one, and is refused only for a  *)
(* singular matrix; the columns of int_ker solve M x = 0; affine_periods   *)
(* of a variable do not change M x modulo the divisors.                    *)
(***************************************************************************)
LeadOf(row) == FirstNonZeroOf(row)
IsRowForm(H) ==
  \A i \in Rows(H) :
    /\ i > 1 /\ ~IsZeroVector(H[i]) => ~IsZeroVector(H[i - 1]) /\ LeadOf(H[i - 1]) < LeadOf(H[i])
    /\ ~IsZeroVector(H[i]) =>
         H[i][LeadOf(H[i])] > 0 /\ \A k \in 1 .. i - 1 : H[k][LeadOf(H[i])] \in 0 .. H[i][LeadOf(H[i])] - 1
Unimodular(U) ==
  LET inv == MatInverse(U) IN inv.ok /\ \A i \in Rows(U) : inv.inverse[i][NbRows(U) + 1] = 1
NormalFormsCorrect == Answers("forms") =>
  LET M == input.M
      s == answer.smith
      Diagonal(i) == s.Product[i][i]
      small == IF NbRows(M) < NbColumns(M) THEN NbRows(M) ELSE NbColumns(M)
  IN  /\ Matrix_Product(answer.right.Q, answer.right.H) = M
      /\ Matrix_Product(answer.right.U, M) = answer.right.H /\ IsRowForm(answer.right.H)
      /\ Matrix_Product(answer.left.H, answer.left.Q) = M
      /\ Matrix_Product(M, answer.left.U) = answer.left.H /\ IsRowForm(Transpose(answer.left.H))
      /\ Matrix_Product(answer.hermite.H, answer.hermite.U) = M
      /\ \A i \in Rows(M), j \in Columns(M) :
           IF i < j THEN answer.hermite.H[i][j] = 0
           ELSE i > j /\ i <= small /\ answer.hermite.H[i][i] # 0
                  => answer.hermite.H[i][j] \in 0 .. answer.hermite.H[i][i] - 1
      /\ Matrix_Product(Matrix_Product(s.U, s.Product), s.V) = M
      /\ \A U \in {answer.right.Q, answer.left.Q, answer.hermite.U, s.U, s.V} : Unimodular(U)
      /\ \A i \in Rows(M), j \in Columns(M) : i # j => s.Product[i][j] = 0
      /\ \A i \in 1 .. small - 1 : IF Diagonal(i) = 0 THEN Diagonal(i + 1) = 0
                                   ELSE Diagonal(i + 1) % Diagonal(i) = 0
      /\ answer.kernel # NoMatrix =>
           \A j \in Columns(answer.kernel) : IsZeroVector(Matrix_Vector_Product(M, Column(answer.kernel, j)))
      /\ \A i \in Rows(M), j \in Columns(M) : (M[i][j] * answer.periods[j][j]) % Divisors[i] = 0
      /\ answer.inverse # Nothing =>
           IF answer.inverse.ok
           THEN /\ \A i \in Rows(M) : LET row == answer.inverse.inverse[i]
                                      IN  Vector_Matrix_Product(SubSeq(row, 1, small), M)
                                            = [j \in Rows(M) |-> IF i = j THEN row[small + 1] ELSE 0]
                /\ answer.product = [i \in Rows(M) |-> Append(Identity(small)[i], 1)]
           ELSE \E i \in Rows(M) : IsZeroVector(answer.right.H[i])

(***************************************************************************)
(* SolveDiophantine returns -1 exactly for systems without an integer      *)
(* solution, and otherwise all of them: X plus the integer combinations of *)
(* the columns of U.  Systems of one or two equations: rows are only       *)
(* rearranged correctly when few depend on the others (README).            *)
(***************************************************************************)
SolutionsOf(M) ==
  LET A == LinearPart(M)
  IN  {x \in [1 .. NbColumns(M) - 1 -> Near] : \A i \in DOMAIN A : Dot(A[i], x) = -M[i][NbColumns(M)]}
DiophantineCorrect == Answers("SolveDiophantine") =>
  LET U == answer.U
      Combined(z) == [i \in DOMAIN answer.X |-> answer.X[i] + (IF U = << >> THEN 0 ELSE Dot(U[i], z))]
      weights == [1 .. (IF U = << >> THEN 0 ELSE NbColumns(U)) -> Far]
      A == LinearPart(input.M)
  IN  IF answer.rank = -1 THEN SolutionsOf(input.M) = {}
      ELSE /\ \A i \in DOMAIN A : Dot(A[i], answer.X) = -input.M[i][NbColumns(input.M)]
           /\ SolutionsOf(input.M) \subseteq {Combined(z) : z \in weights}
           /\ U # << >> => \A i \in DOMAIN A : IsZeroVector(Vector_Matrix_Product(A[i], U))

(***************************************************************************)
(* AffineHermite, LatticeIntersection, LatticeIncluded, LatticeComplement  *)
(* and LatticeDifference compute, of the points of the lattices, what      *)
(* their names say, for lattices whose columns may be dependent; what they *)
(* build by variants of prime factors row by row is disjoint from B.       *)
(***************************************************************************)
PointsOf(L) ==
  LET k == NbColumns(L) - 1
      d == NbRows(L) - 1
  IN  {p \in [1..d -> Near] :
         \E z \in [1..k -> Far] : \A i \in 1..d : p[i] = Dot(SubSeq(L[i], 1, k), Tuple(z)) + L[i][k + 1]}
AllPointsOf(Ls) == UNION {PointsOf(Ls[i]) : i \in DOMAIN Ls}
LatticesCorrect == Answers("lattices") =>
  LET a == PointsOf(answer.A)
      b == PointsOf(answer.B)
  IN  /\ a = PointsOf(input.A) /\ b = PointsOf(input.B) /\ answer.normal
      /\ {p[1] : p \in PointsOf(answer.first)} = {p[1] : p \in b}
      /\ (IF answer.intersection = None THEN {} ELSE PointsOf(answer.intersection)) = a \cap b
      /\ answer.included => a \subseteq b
      /\ AllPointsOf(answer.complement) \cap b = {}
      /\ AllPointsOf(answer.difference) = a \ b

(***************************************************************************)
(* full_dimensionize: the integer points of the system, for a value of the *)
(* parameter in the lattice VL, are as many as those of the system without *)
(* equalities for the corresponding new parameter; for the values that VL  *)
(* leaves out, or when it fails, there are none.                           *)
(***************************************************************************)
CountFor(M, p, range) ==
  Cardinality({x \in [1 .. NbColumns(M) - 3 -> range] :
     \A r \in DOMAIN M :
       LET v == Dot(SubSeq(M[r], 2, NbColumns(M)), Tuple(x) \o <<p, 1>>)
       IN  IF M[r][1] = 0 THEN v = 0 ELSE v >= 0})
CompressionCorrect == Answers("full_dimensionize") =>
  LET VL == answer.VL
      Value0(z) == VL[1][1] * z + VL[1][2]
  IN  \A p \in Near :
        LET zs == {z \in Far : Value0(z) = p}
        IN  IF ~answer.ok \/ zs = {} THEN CountFor(input.M, p, Near) = 0
            ELSE \A z \in zs : CountFor(answer.M, z, Far) = CountFor(input.M, p, Near)

(***************************************************************************)
(* The operations on pseudo-polynomials agree with evaluation: eadd adds,  *)
(* where it accepts its arguments; new_eadd adds any two without periods   *)
(* of different lengths; emul and edot multiply; reduce_evalue changes no  *)
(* value; addeliminatedparams_evalue renames the parameters;               *)
(* dehomogenize_evalue evaluates at 1 in the last one, also in the         *)
(* enumerations that compute_poly reads.                                   *)
(***************************************************************************)
At(e, args) == compute_evalue(e, args)
RECURSIVE LengthsAt(_, _)
LengthsAt(e, pos) ==
  IF IsConstant(e) THEN {}
  ELSE (IF IsPeriodic(e) /\ e.pos = pos THEN {Len(e.arr)} ELSE {})
         \cup UNION {LengthsAt(e.arr[i], pos) : i \in DOMAIN e.arr}
SamePeriods(e1, e2) == \A pos \in 1..2 : Cardinality(LengthsAt(e1, pos) \cup LengthsAt(e2, pos)) <= 1
Elements(e) == {e.arr[i] : i \in DOMAIN e.arr}
\* eadd(e1, e2) adds; otherwise it reports and leaves e2 or a part of it.
Accepted(e1, e2) ==
  \/ IsConstant(e1)
  \/ /\ ~IsConstant(e2) /\ e1.type = e2.type /\ e1.pos = e2.pos
     /\ \A x \in Elements(IF Len(e1.arr) > Len(e2.arr) THEN e2 ELSE e1) : IsConstant(x)
EvaluesCorrect == Answers("evalues") =>
  \A args \in [1..2 -> -2..3] :
    LET v1 == At(input.e1, args)
        v2 == At(input.e2, args)
    IN  /\ SamePeriods(input.e1, input.e2) => At(answer.general, args) = SumOfConstants(v1, v2)
        /\ Accepted(input.e1, input.e2) /\ SamePeriods(input.e1, input.e2)
             => At(answer.sum, args) = SumOfConstants(v1, v2)
        /\ At(answer.half, args) = ProductOfConstants(v1, Constant(1, 2))
        /\ At(answer.reduced, args) = v1
        /\ At(answer.at1, args) = At(input.e1, [args EXCEPT ![2] = 1])
        /\ At(answer.swapped, args) = At(input.e1, <<args[2], args[1]>>)
        /\ Accepted(input.e2, input.e1) /\ SamePeriods(input.e1, input.e2)
             => At(answer.product, args) = SumOfConstants(At(answer.half, args), ProductOfConstants(v2, Constant(-1, 1)))
        /\ compute_poly(answer.enumeration, <<args[1]>>)
             = compute_poly(Enumeration(input.e1, input.e2), <<args[1], 1>>)

(***************************************************************************)
(* For every value of the parameters, the vertices that are said to be     *)
(* valid there are those of the polyhedron at that value: each domain of   *)
(* parameters has each of them once and no other, the domains leave out    *)
(* exactly the values without vertices, also after parameters were         *)
(* eliminated by equalities (Polyhedron2Param_Domain and                   *)
(* Polyhedron2Param_SimplifiedDomain).                                     *)
(***************************************************************************)
VerticesFor(D, C, p) ==
  LET k == Len(D[1]) - Len(C[1])
      At1(row) == SubSeq(row, 1, k + 1) \o <<Dot(SubSeq(row, k + 2, Len(row)), Append(p, 1))>>
      Fixed(c) == <<c[1]>> \o Zeros(k) \o <<Dot(Tail(c), Append(p, 1))>>
      P == PP!Constraints2Polyhedron([x \in DOMAIN D |-> At1(D[x])] \o [x \in DOMAIN C |-> Fixed(C[x])], k + 1)
  IN  {P.Ray[x] : x \in {y \in DOMAIN P.Ray : PP!Status(P.Ray[y]) = 1 /\ ~PP!AtInfinity(P.Ray[y])}}
Inside(P, p) ==
  /\ ~PP!emptyQ(P)
  /\ \A x \in DOMAIN P.Constraint :
       LET v == Dot(Tail(P.Constraint[x]), Append(p, 1)) IN IF PP!Status(P.Constraint[x]) = 0 THEN v = 0 ELSE v >= 0
\* The rows of V are affine functions of p; ray is <<1, coordinates, denominator>>.
IsAt(V, p, ray) ==
  \A i \in Rows(V) : Dot(SubSeq(V[i], 1, Len(p) + 1), Append(p, 1)) * ray[Len(ray)] = ray[i + 1] * V[i][Len(p) + 2]
Describes(r, p, q, vertices) ==
  LET Valid == {x \in DOMAIN r.D : \E y \in DOMAIN r.D[x].Domain : Inside(r.D[x].Domain[y], q)}
      Value1(v) == IF r.CT = << >> THEN r.V[v].Vertex ELSE PP!VertexCT(r.V[v].Vertex, r.CT)
  IN  /\ vertices = {} <=> Valid = {}
      /\ \A x \in Valid :
           /\ \A v, w \in r.D[x].F : v # w => r.V[v].Vertex # r.V[w].Vertex
           /\ \A v \in r.D[x].F : \E ray \in vertices : IsAt(Value1(v), p, ray)
           /\ \A ray \in vertices : \E v \in r.D[x].F : IsAt(Value1(v), p, ray)
ParametersCorrect == Answers("vertices") =>
  \A v \in [1 .. Len(input.C[1]) - 2 -> Near] :
    LET p == Tuple(v)
        vertices == VerticesFor(input.D, input.C, p)
        s == answer[TRUE]
        q == SubSeq(Matrix_Vector_Product(s.CT, Append(p, 1)), 1, NbRows(s.CT) - 1)
    IN  /\ Describes(answer[FALSE], p, p, vertices)
        /\ IF s.CEq = << >> THEN vertices = {}
           ELSE IF Inside(s.CEq[1], p) THEN Describes(s, p, q, vertices) ELSE vertices = {}

(***************************************************************************)
(* The operations on unions of Z-polyhedra agree with those on the sets of *)
(* their points, whether a lattice has dependent columns, coordinates that *)
(* only have to exist, holes in its image, or a domain of several          *)
(* polyhedra.  LBL2ZDomain leaves no zero column, and LBLIncluded is right *)
(* where the difference has one piece (README).                            *)
(***************************************************************************)
PointsOfPiece(L, Ms) ==
  LET d == NbRows(L) - 1
      Satisfies(z, M) == \A r \in DOMAIN M :
        LET v == Dot(Tail(M[r]), z) IN IF M[r][1] = 0 THEN v = 0 ELSE v >= 0
      coordinates == {Append(Tuple(f), 1) : f \in [1 .. NbColumns(L) - 1 -> Far]}
      points == {Tuple([i \in 1..d |-> Dot(L[i], z)]) :
                   z \in {y \in coordinates : \E x \in DOMAIN Ms : Satisfies(y, Ms[x])}}
  IN  {w \in points : \A i \in 1..d : w[i] \in Near}
PointsOfList(list) == UNION {PointsOfPiece(list[x][1], list[x][2]) : x \in DOMAIN list}
PieceOf(p) == PointsOfPiece(p.Lat, [x \in DOMAIN p.P |-> p.P[x].Constraint])
PointsOfLBL(A) == UNION {PieceOf(A[x]) : x \in DOMAIN A}
LBLsCorrect == Answers("lbls") =>
  LET a == PointsOfList(input.A)
      b == PointsOfList(input.B)
      all == {<<x>> : x \in Near}
      Mapped(w, i) == Dot(MapsFrom[i][1], Append(w, 1))
  IN  /\ PointsOfLBL(answer.union) = a \cup b /\ PointsOfLBL(answer.intersection) = a \cap b
      /\ PointsOfLBL(answer.difference) = a \ b /\ PointsOfLBL(answer.complement) = all \ b
      /\ PointsOfLBL(answer.zdomain) = a
      /\ \A x \in DOMAIN answer.zdomain : ZP!LatCountZeroCols(answer.zdomain[x].Lat) = 0
      /\ Len(answer.difference) = 1 => (answer.included <=> a \subseteq b)
      /\ answer.contained = {x \in Near : <<x>> \in a}
      /\ PointsOfLBL(answer.image) = {<<x>> : x \in {y \in Near : \E w \in a : y = 1 - 2 * w[1]}}
      /\ \A i \in 1..2 :
           {w \in PointsOfLBL(answer.preimages[i]) : Mapped(w, i) \in Near}
             = {w \in {Tuple(v) : v \in [1 .. NbColumns(MapsFrom[i]) - 1 -> Near]} : <<Mapped(w, i)>> \in a}
=============================================================================
