------------------------- MODULE MCPolyhedronSpace -------------------------
(* Polyhedra of space, homogeneous dimension 4, up to pyramids, where rows  *)
(* may saturate enough of the others to be kept by the first pass of        *)
(* Remove_Redundants and still be redundant.  The rows of a call are those  *)
(* of a list, some left out.                                                *)
EXTENDS PolyhedronCalls, Sequences

Row(s, a, b, c, d) == [x \in 0..4 |-> CASE x = 0 -> s [] x = 1 -> a
                                        [] x = 2 -> b [] x = 3 -> c
                                        [] x = 4 -> d]
SpaceConstraints ==
  <<Row(1, 1, 0, 1, 0), Row(1, -1, 0, 1, 0), Row(1, 0, 1, 1, 0),
    Row(1, 0, -1, 1, 0), Row(1, 0, 0, -1, 1)>>
SpaceRays ==
  <<Row(1, 1, 0, 0, 1), Row(1, -1, 0, 0, 1), Row(1, 0, 1, 0, 1),
    Row(1, 0, -1, 0, 1), Row(1, 0, 0, 1, 0)>>

Chosen(list) ==
  LET Matrix(s) == [x \in 0 .. Len(s) - 1 |-> s[x + 1]]
      Kept(S)   == SelectSeq(list, LAMBDA p : p \in S)
      rows      == {list[n] : n \in 1..5}
  IN  {Matrix(Kept(S)) : S \in SUBSET rows \ {{}}}
SpaceConstraintMatrices == Chosen(SpaceConstraints)
SpaceRayMatrices == Chosen(SpaceRays)
SpaceBox == {Row(1, a, b, c, d) : a \in -1..1, b \in -1..1, c \in -1..1,
                                  d \in -1..1}
============================================================================
