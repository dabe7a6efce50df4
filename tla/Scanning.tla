------------------------------ MODULE Scanning ------------------------------
(***************************************************************************)
(* Loops over the integer points of a polyhedron: align_context,           *)
(* Polyhedron_Scan and lower_upper_bounds of polyhedron.c, the search of   *)
(* an integer point of ehrhart.c, cherche_min, and DomainCost.             *)
(***************************************************************************)
EXTENDS Domains
LOCAL INSTANCE SequencesExt

\* k new dimensions in front, each with a line.
Shifted(row, k) == <<Status(row)>> \o [x \in 1..k |-> 0] \o Vec(row)
Polyhedron_Aligned(P, k) ==
  LET n == HomogeneousDimension(P) + k
  IN  [Constraint |-> [x \in DOMAIN P.Constraint |-> Shifted(P.Constraint[x], k)],
       Ray |-> [x \in 1..k |-> Unit(0, n, x)] \o [x \in DOMAIN P.Ray |-> Shifted(P.Ray[x], k)],
       NbEq |-> P.NbEq, NbBid |-> P.NbBid + k]

\* Null when the dimension asked for is smaller.
align_context(D, dimension) ==
  IF IsNull(D) THEN D
  ELSE LET k == dimension + 1 - HomogeneousDimension(D[1])
       IN  IF k < 0 THEN Null
           ELSE IF k = 0 THEN D
           ELSE Tuple([x \in DOMAIN D |-> Polyhedron_Aligned(D[x], k)])

(***************************************************************************)
(* Polyhedron_Scan: for each dimension that is not one of the context C,   *)
(* outer first, the polyhedron that bounds it once the inner ones are      *)
(* projected out, simplified in what the outer loops already ensure.       *)
(***************************************************************************)
BoundedBy(s, D1, n) ==
  [scan |-> s.scan \o DomainSimplify(D1, s.context, n), context |-> DomainIntersection(s.context, D1, n)]
LoopsWithin(C1, D2, n, dim) ==
  LET Inner(i) == [j \in 1 .. dim - i |-> Unit(0, n, i + j)]
  IN  FoldLeft(LAMBDA s, i : BoundedBy(s, DomainAddRays(D2, Inner(i)), n),
               [scan |-> Null, context |-> C1], [i \in 1..dim |-> i]).scan
LoopsOf(C1, D, dim) ==
  LoopsWithin(C1, DomainIntersection(C1, D, HomogeneousDimension(D[1])), HomogeneousDimension(D[1]), dim)
Polyhedron_Scan(D, C) ==
  LoopsOf(align_context(C, HomogeneousDimension(D[1]) - 1), D, HomogeneousDimension(D[1]) - HomogeneousDimension(C[1]))

-----------------------------------------------------------------------------
(* lower_upper_bounds: the integer bounds that P gives to the variable at    *)
(* pos, the others having the values of context.                             *)

Unbounded == [lb |-> << >>, ub |-> << >>]
EmptyLoop == [lb |-> <<1>>, ub |-> <<0>>]
\* A bound is << >> when infinite.
Raised(b, v)  == IF b = << >> \/ v > b[1] THEN <<v>> ELSE b
Lowered(b, v) == IF b = << >> \/ v < b[1] THEN <<v>> ELSE b

\* n / d rounded up for a lower bound (d > 0), down for an upper one.
Rounded(n, d) ==
  IF n > 0 /\ Rem(n, d) # 0 THEN Quot(n, d) + (IF d > 0 THEN 1 ELSE -1) ELSE Quot(n, d)

lower_upper_bounds(pos, P, context) ==
  LET at == [context EXCEPT ![pos] = 0]
      N(c) == -Dot(Vec(c), at \o <<1>>)
      Excluded(c) == IF c[pos + 1] = 0 THEN N(c) > 0 \/ (Status(c) = 0 /\ N(c) # 0)
                     ELSE Status(c) = 0 /\ Rem(N(c), c[pos + 1]) # 0
      Bound(b, c) ==
        LET d == c[pos + 1]
            v == Rounded(N(c), d)
        IN  IF d = 0 THEN b
            ELSE [lb |-> IF d > 0 \/ Status(c) = 0 THEN Raised(b.lb, v) ELSE b.lb,
                  ub |-> IF d < 0 \/ Status(c) = 0 THEN Lowered(b.ub, v) ELSE b.ub]
  IN  IF \E x \in DOMAIN P.Constraint : Excluded(P.Constraint[x]) THEN EmptyLoop
      ELSE FoldLeft(Bound, Unbounded, P.Constraint)

-----------------------------------------------------------------------------
\* How far the search goes from where it starts.
MAXITER == 100

(***************************************************************************)
(* cherche_min: the first integer point of the loops of scan, from 0       *)
(* upwards, then from -1 downwards; << >> when it finds none.              *)
(***************************************************************************)
\* The values that are tried within the bounds b.
Upwards(b) ==
  LET first == IF b.lb = << >> THEN 0 ELSE IF b.lb[1] < 0 THEN 0 ELSE b.lb[1]
  IN  {i \in first .. first + MAXITER - 1 : IF b.ub = << >> THEN TRUE ELSE i <= b.ub[1]}
Downwards(b) ==
  LET start == IF b.ub = << >> THEN -1 ELSE IF b.ub[1] > 0 THEN -1 ELSE b.ub[1]
  IN  {i \in start - MAXITER + 1 .. start : IF b.lb = << >> THEN TRUE ELSE b.lb[1] < 0 /\ i >= b.lb[1]}

RECURSIVE cherche_min(_, _, _)
cherche_min(point, scan, pos) ==
  LET Found(i) == cherche_min([point EXCEPT ![pos] = i], Tail(scan), pos + 1)
      Best(ups, downs) ==
        IF ups # {} THEN Found(CHOOSE i \in ups : \A j \in ups : i <= j)
        ELSE IF downs # {} THEN Found(CHOOSE i \in downs : \A j \in downs : i >= j)
        ELSE << >>
      Within(b) == Best({i \in Upwards(b) : Found(i) # << >>}, {i \in Downwards(b) : Found(i) # << >>})
  IN  IF scan = << >> THEN point ELSE Within(lower_upper_bounds(pos, scan[1], point))

-----------------------------------------------------------------------------
(***************************************************************************)
(* DomainCost: the maximum and the minimum of the cost over P, as          *)
(* fractions; -1/0 and 1/0 for no ray.  One ray at a time: max and min     *)
(* are the cost and the denominator of the best so far.                    *)
(***************************************************************************)
NoCost == [max |-> <<-1, 0>>, min |-> <<1, 0>>, seen |-> FALSE]

\* Wrong variant: fractions are compared by their numerators.
WithRayNumerators(best, ray, Cost) ==
  LET p == Dot(Vec(ray), Cost)
      f == <<p, ray[Len(ray)]>>
  IN  [seen |-> TRUE, max |-> IF ~best.seen \/ p > best.max[1] THEN f ELSE best.max,
       min |-> IF ~best.seen \/ p < best.min[1] THEN f ELSE best.min]

WithRay(best, ray, Cost) ==
  LET p == Dot(Vec(ray), Cost)
      d == ray[Len(ray)]
      Ties(b) == p * b[2] = b[1] * d /\ d = 1 /\ b[2] # 1
      max == IF ~best.seen \/ p * best.max[2] > best.max[1] * d \/ Ties(best.max)
             THEN <<p, d>> ELSE best.max
      min == IF ~best.seen \/ p * best.min[2] < best.min[1] * d \/ Ties(best.min)
             THEN <<p, d>> ELSE best.min
  IN  [seen |-> TRUE,
       max |-> IF Status(ray) = 0 /\ p * max[2] < 0 THEN <<-p, 0>> ELSE max,
       min |-> IF Status(ray) = 0 /\ p * min[2] > 0 THEN <<-p, 0>> ELSE min]

DomainCost(P, Cost) == FoldLeft(LAMBDA best, ray : WithRay(best, ray, Cost), NoCost, P.Ray)
=============================================================================
