------------------------- MODULE MCPolyhedronCalls -------------------------
(* Polyhedra of the plane, homogeneous dimension 3: bounded, unbounded,    *)
(* with lines, flat and empty ones.  The constraints make implicit         *)
(* equalities together, contradict each other (-1 >= 0), repeat each other *)
(* and include the positivity constraint.                                  *)
EXTENDS PolyhedronCalls

Row(s, a, b, c) == [x \in 0..3 |-> CASE x = 0 -> s [] x = 1 -> a
                                     [] x = 2 -> b [] x = 3 -> c]
PlaneConstraints ==
  {Row(1, 1, 0, 0), Row(1, -1, 0, 0), Row(1, 0, 1, 0), Row(1, -1, -1, 1),
   Row(1, 0, 0, 1), Row(1, 0, 0, -1), Row(0, 1, -1, 0), Row(0, 0, 2, -1)}
PlaneRays ==
  {Row(1, 0, 0, 1), Row(1, 1, 0, 1), Row(1, 1, 1, 2), Row(1, -1, 0, 1),
   Row(1, 1, 0, 0), Row(1, -1, 1, 0), Row(0, 0, 1, 0)}
PlaneBox == {Row(1, a, b, c) : a \in -2..2, b \in -2..2, c \in -2..2}

Matrices(S) == [0..0 -> S] \cup [0..1 -> S]
PlaneConstraintMatrices == Matrices(PlaneConstraints)
PlaneRayMatrices == Matrices(PlaneRays)
============================================================================
