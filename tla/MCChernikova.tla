--------------------------- MODULE MCChernikova ---------------------------
(* Chernikova in space, homogeneous dimension 4, primal and dual.  Every    *)
(* matrix of up to three rows, or of four of a few rows: half-spaces,       *)
(* parallel and repeated ones, a contradiction (-1 >= 0), the positivity    *)
(* constraint, equalities.  And the rows of a square pyramid cut in two, in *)
(* every order: in the plane two rays that pass the dimension check are     *)
(* always adjacent, here they need not be.                                  *)
EXTENDS ChernikovaSpec

Row(s, a, b, c, d) == [x \in 0..4 |-> CASE x = 0 -> s [] x = 1 -> a
                                        [] x = 2 -> b [] x = 3 -> c
                                        [] x = 4 -> d]
Pyramid ==
  {Row(1, 1, 0, 1, 0), Row(1, -1, 0, 1, 0), Row(1, 0, 1, 1, 0),
   Row(1, 0, -1, 1, 0), Row(1, 0, 0, 0, 1), Row(1, 1, 1, 0, 0)}
Plain ==
  {Row(1, 1, 0, 0, 0), Row(1, -1, 0, 0, 1), Row(1, 0, 1, 0, 0),
   Row(1, 0, 0, 0, -1), Row(1, 0, 0, 0, 1), Row(0, 1, -1, 0, 0),
   Row(0, 0, 1, 0, -1), Row(1, 0, 0, 1, 1)}
Few ==
  {Row(1, 1, 0, 0, 0), Row(1, -1, 0, 0, 1), Row(1, 0, 1, 0, 0), Row(0, 1, -1, 0, 0)}
SpaceConstraints == Pyramid \cup Plain

Injective(f) == \A x, y \in DOMAIN f : f[x] = f[y] => x = y
Up(n, S) == UNION {[0..m - 1 -> S] : m \in 1..n}
SpaceMatrices ==
  Up(3, Plain) \cup Up(4, Few) \cup {f \in Up(6, Pyramid) : Injective(f)}
SpaceBox == {Row(0, a, b, c, d) :
               a \in -1..1, b \in -1..1, c \in -1..1, d \in -1..1}
SmallCoefficients == -2..2
============================================================================
