------------------------------ MODULE Polyhedra ------------------------------
(***************************************************************************)
(* One polyhedron as the functions on domains see it: what                 *)
(* Constraints2Polyhedron, AddConstraints, SubConstraint, Rays2Polyhedron  *)
(* and AddRays of polyhedron.c return.  Their steps are those of module    *)
(* PolyhedronCalls; here each is one operator, with the order in which     *)
(* Remove_Redundants leaves the constraints.                               *)
(* A row is <<status, coefficients, constant>>: status 0 is an equality or *)
(* a line.  The order of the rays is left open: no function on domains     *)
(* depends on it but through the order of constraints computed from rays.  *)
(***************************************************************************)
EXTENDS Matrices, FiniteSets
LOCAL INSTANCE SequencesExt

Vec(row) == Tail(row)
Status(row) == row[1]
Value(p, q) == Dot(Vec(p), Vec(q))
AtInfinity(ray) == ray[Len(ray)] = 0
IsPositivity(row) == \A c \in 2 .. Len(row) - 1 : row[c] = 0
Unit(s, n, x) == Tuple([c \in 1 .. n + 1 |-> IF c = 1 THEN s ELSE IF c = x + 1 THEN 1 ELSE 0])
Positivity(n) == Unit(1, n, n)

\* Combine: the combination of p and q that is zero at pos, with the status of p.
CombineAt(p, q, pos) ==
  LET g == GcdOf(p[pos], q[pos])
  IN  <<Status(p)>> \o Normalized(AddScaled(Scaled(Vec(p), Quot(q[pos], g)), -Quot(p[pos], g), Vec(q)))

RECURSIVE SetAsSeq(_)
SetAsSeq(S) == IF S = {} THEN << >> ELSE LET x == CHOOSE y \in S : TRUE IN <<x>> \o SetAsSeq(S \ {x})

-----------------------------------------------------------------------------
(* The double description method: the generators G of the cone of the rows   *)
(* C, when row c is added.  Lines are a sequence, rays a set.                *)

\* The ray between p, on the positive side of c, and q on the other that c meets.
Meeting(p, q, c) ==
  <<1>> \o Normalized(AddScaled(Scaled(Vec(p), -Value(q, c)), Value(p, c), Vec(q)))

\* p moved along line l onto the hyperplane of c; c is positive on l.
Along(p, l, c) ==
  <<Status(p)>> \o Normalized(AddScaled(Scaled(Vec(p), Value(l, c)), -Value(p, c), Vec(l)))

Saturated(rows, ray) == {c \in rows : Value(c, ray) = 0}

WithLine(G, c, l) ==
  LET up == IF Value(l, c) > 0 THEN l ELSE <<0>> \o Negative(Vec(l))
      others == SelectSeq(G.lines, LAMBDA m : m # l)
  IN  [lines |-> Tuple([x \in DOMAIN others |-> Along(others[x], up, c)]),
       rays |-> {Along(r, up, c) : r \in G.rays}
                  \cup (IF Status(c) = 0 THEN {} ELSE {<<1>> \o Vec(up)})]

Adjacent(rays, C, p, q) ==
  LET face == Saturated(C, p) \cap Saturated(C, q)
  IN  ~\E m \in rays \ {p, q} : face \subseteq Saturated(C, m)
Crossed(rays, C, c, plus, minus) ==
  (rays \ (minus \cup (IF Status(c) = 0 THEN plus ELSE {})))
    \cup {Meeting(pq[1], pq[2], c) : pq \in {x \in plus \X minus : Adjacent(rays, C, x[1], x[2])}}
WithoutLine(G, C, c) ==
  [G EXCEPT !.rays = Crossed(@, C, c, {r \in @ : Value(r, c) > 0}, {r \in @ : Value(r, c) < 0})]

AddRow(G, C, c) ==
  LET crossed == SelectSeq(G.lines, LAMBDA l : Value(l, c) # 0)
  IN  IF crossed # << >> THEN WithLine(G, c, crossed[1]) ELSE WithoutLine(G, C, c)

RECURSIVE Generators(_, _, _)
Generators(G, C, rows) ==
  IF rows = << >> THEN G
  ELSE Generators(AddRow(G, C, rows[1]), C \cup {rows[1]}, Tail(rows))

\* Of the constraints M in n homogeneous dimensions: lines, and the origin.
RaysOf(M, n) ==
  Generators([lines |-> [x \in 1 .. n - 1 |-> Unit(0, n, x)], rays |-> {Positivity(n)}],
             {Positivity(n)}, M)

\* Of the rays R: equalities and inequalities, without the positivity of rays.
ConstraintsOf(R, n) ==
  Generators([lines |-> [x \in 1..n |-> Unit(0, n, x)], rays |-> {}], {}, R)

-----------------------------------------------------------------------------
(* Gauss4: the first n rows of M in reduced echelon form; they are           *)
(* eliminated from the others.                                               *)
PivotPositive(row, pos) == <<Status(row)>> \o NormalizedPositive(Vec(row), pos - 1)

\* Row at becomes the pivot; it is eliminated from the others.
Eliminated(M, at, pivot, pos) ==
  Tuple([x \in DOMAIN M |->
           IF x = at THEN pivot ELSE IF M[x][pos] = 0 THEN M[x] ELSE CombineAt(M[x], pivot, pos)])

PivotMoved(s, pos, first) ==
  LET at == s.rank + 1
  IN  [rank |-> at, M |-> Eliminated([s.M EXCEPT ![at] = s.M[first], ![first] = s.M[at]],
                                     at, PivotPositive(s.M[first], pos), pos)]
GaussStep(s, n, pos) ==
  LET found == {x \in s.rank + 1 .. n : s.M[x][pos] # 0}
  IN  IF found = {} THEN s ELSE PivotMoved(s, pos, CHOOSE x \in found : \A y \in found : x <= y)

RECURSIVE EchelonFrom(_, _, _, _)
EchelonFrom(s, n, pos, width) ==
  IF pos > width THEN s ELSE EchelonFrom(GaussStep(s, n, pos), n, pos + 1, width)
Echelon(M, n) ==
  EchelonFrom([M |-> M, rank |-> 0], n, 2, IF M = << >> THEN 1 ELSE Len(M[1]))

-----------------------------------------------------------------------------
(* Remove_Redundants, on constraints and the generators of their cone.       *)

EmptyPolyhedron(n) ==
  [Constraint |-> [x \in 1..n |-> Unit(0, n, x)], Ray |-> << >>, NbEq |-> n, NbBid |-> 0]
emptyQ(P) == P.Ray = << >>
HomogeneousDimension(P) == Len(P.Constraint[1]) - 1

\* Step 1: of the indices I of rows of M, the last takes the place of that of
\* a positivity constraint.
RECURSIVE WithoutPositivity(_, _, _)
WithoutPositivity(I, M, x) ==
  IF x > Len(I) THEN I
  ELSE IF IsPositivity(M[I[x]])
       THEN WithoutPositivity(SubSeq([I EXCEPT ![x] = I[Len(I)]], 1, Len(I) - 1), M, x)
  ELSE WithoutPositivity(I, M, x + 1)

WithStatus(row, s) == [row EXCEPT ![1] = s]
Picked(M, I) == Tuple([x \in DOMAIN I |-> M[I[x]]])

\* Step 9: of the inequalities M, those not redundant with one still there.
Irredundant(M, rays) ==
  LET Covers(y, x) == \A r \in rays : Value(M[x], r) = 0 => Value(M[y], r) = 0
      useful == {x \in DOMAIN M : ~IsPositivity(M[x]) /\ \E r \in rays : Value(M[x], r) = 0}
  IN  FoldLeft(LAMBDA kept, x : IF x \in kept /\ \E y \in kept \ {x} : Covers(y, x) THEN kept \ {x} ELSE kept,
               useful, Indices(M))

\* What the echelon form g of the rows eqs and ineqs gives.
Reduction(g, eqs, ineqs, G) ==
  LET others == SubSeq(g.M, Len(eqs) + 1, Len(g.M))
  IN  [eqs |-> eqs, ineqs |-> ineqs, rank |-> g.rank, equalities |-> SubSeq(g.M, 1, g.rank),
       inequalities |-> others, kept |-> Irredundant(others, G.rays)]
SiftedBy(M, G, eqs, ineqs) == Reduction(Echelon(Picked(M, eqs \o ineqs), Len(eqs)), eqs, ineqs, G)

\* Steps 1 to 3 and 9: the rows that all generators saturate, reduced, and the
\* inequalities, with the indices kept of them.
Sifted(M, G) ==
  LET I     == WithoutPositivity(Indices(M), M, 1)
      IsEq(x) == \A r \in G.rays \cup {G.lines[l] : l \in DOMAIN G.lines} : Value(M[x], r) = 0
  IN  SiftedBy(M, G, SelectSeq(I, IsEq), SelectSeq(I, LAMBDA x : ~IsEq(x)))

\* The polyhedron of the sifted constraints s, and of the generators h in
\* echelon form, the first of which are lines.
Assembled(s, h, lines, n) ==
  LET rays     == SubSeq(h.M, lines + 1, Len(h.M))
      infinite == {x \in DOMAIN rays : AtInfinity(rays[x])}
      facets   == SelectSeq(Indices(s.inequalities), LAMBDA x : x \in s.kept)
  IN  [NbEq |-> s.rank, NbBid |-> h.rank,
       Constraint |->
         Tuple([x \in 1..s.rank |-> WithStatus(s.equalities[x], 0)])
           \o Tuple([x \in DOMAIN facets |-> WithStatus(s.inequalities[facets[x]], 1)])
           \o (IF Cardinality(infinite) >= n - 1 - s.rank - h.rank
               THEN <<Positivity(n)>> ELSE << >>),
       Ray |-> SubSeq(h.M, 1, h.rank) \o rays]

Reduced(M, G, n) ==
  IF \A r \in G.rays : AtInfinity(r) THEN EmptyPolyhedron(n)
  ELSE Assembled(Sifted(M, G), Echelon(G.lines \o SetAsSeq(G.rays), Len(G.lines)), Len(G.lines), n)

\* The filter of Remove_Redundants: of the rows M those kept, and of the
\* equalities those that no later row given as an equality repeats.
Filtered(M, G) ==
  LET Lex(row) == LET v == Vec(row)
                      f == FirstNonZeroOf(v)
                  IN  IF f # 0 /\ v[f] < 0 THEN Negative(v) ELSE v
      Repeated(eqs, x) == \E y \in x + 1 .. Len(eqs) :
                            Status(M[eqs[y]]) = 0 /\ Lex(M[eqs[x]]) = Lex(M[eqs[y]])
      Kept(s) == {s.eqs[x] : x \in {y \in DOMAIN s.eqs : ~Repeated(s.eqs, y)}}
                   \cup {s.ineqs[x] : x \in s.kept}
  IN  Kept(Sifted(M, G))

-----------------------------------------------------------------------------
Constraints2Polyhedron(M, n) == Reduced(M, RaysOf(M, n), n)
AddConstraints(M, P) ==
  IF M = << >> THEN P
  ELSE Constraints2Polyhedron(P.Constraint \o M, HomogeneousDimension(P))

\* The generators of a set of rays are the reduced ones of its constraints.
Rays2Polyhedron(R, n) ==
  LET RowsOf(C) == C.lines \o SetAsSeq(C.rays)
  IN  IF \A x \in DOMAIN R : AtInfinity(R[x]) THEN EmptyPolyhedron(n)
      ELSE Constraints2Polyhedron(RowsOf(ConstraintsOf(R, n)), n)
AddRays(R, P) == Rays2Polyhedron(P.Ray \o R, HomogeneousDimension(P))

UniversePolyhedron(n) == Constraints2Polyhedron(<<Positivity(n)>>, n)

\* SubConstraint: passes 0 and 2 the opposite of Con, passes 0 and 1 the strict
\* side; null, here << >>, for a positivity constraint.
SubConstraint(Con, P, Pass) ==
  LET side   == IF Pass \in {0, 2} THEN Negative(Vec(Con)) ELSE Vec(Con)
      strict == IF Pass \in {0, 1} THEN [side EXCEPT ![Len(side)] = @ - 1] ELSE side
  IN  IF IsPositivity(Con) THEN << >> ELSE AddConstraints(<< <<1>> \o strict >>, P)

\* Every ray of P2 satisfies every constraint of P1, lines as equalities do.
PolyhedronIncludes(P1, P2) ==
  \A k \in DOMAIN P1.Constraint, i \in DOMAIN P2.Ray :
    LET c == P1.Constraint[k]
        r == P2.Ray[i]
    IN  IF Status(c) = 0 \/ Status(r) = 0 THEN Value(c, r) = 0 ELSE Value(c, r) >= 0
=============================================================================
