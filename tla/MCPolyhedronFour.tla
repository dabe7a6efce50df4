-------------------------- MODULE MCPolyhedronFour --------------------------
(* One polyhedron of dimension 4, homogeneous dimension 5: the product of   *)
(* the infinite pyramid |x| <= z, |y| <= z and the segment 0 <= w <= 1.  It *)
(* has four rays, as many as Dim_RaySpace, but they span three dimensions,  *)
(* and so it keeps the redundant 1 >= 0, the sum of w >= 0 and 1 - w >= 0.  *)
(* The point w = 2 of its axis is then added: the result is unbounded.      *)
EXTENDS PolyhedronCalls

Row(s, v) == [x \in 0..5 |-> IF x = 0 THEN s ELSE v[x]]
FourConstraintMatrices ==
  {[x \in 0..5 |->
      CASE x = 0 -> Row(1, <<1, 0, 1, 0, 0>>)
        [] x = 1 -> Row(1, <<-1, 0, 1, 0, 0>>)
        [] x = 2 -> Row(1, <<0, 1, 1, 0, 0>>)
        [] x = 3 -> Row(1, <<0, -1, 1, 0, 0>>)
        [] x = 4 -> Row(1, <<0, 0, 0, 1, 0>>)
        [] x = 5 -> Row(1, <<0, 0, 0, -1, 1>>)]}
FourRayMatrices == {[x \in {0} |-> Row(1, <<0, 0, 0, 2, 1>>)]}
FourBox == {Row(1, <<0, 0, 0, a, b>>) : a \in -2..2, b \in -2..2}
============================================================================
