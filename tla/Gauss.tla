------------------------------- MODULE Gauss -------------------------------
(***************************************************************************)
(* Gauss4 of source/kernel/polyhedron.c: the first NbEq rows of a matrix   *)
(* are equations, the others inequalities.  The equations are brought into *)
(* reduced echelon form in place, and the pivot variables are eliminated   *)
(* from the inequalities.  Status words stay where they are.               *)
(***************************************************************************)
EXTENDS Vectors, FiniteSets

\* Vector_Exchange(p[a]+1, p[b]+1, Dimension): the status words stay.
ExchangeCoordinates(M, a, b) ==
  LET With(p, q) == [q EXCEPT ![0] = p[0]]
  IN  [M EXCEPT ![a] = With(M[a], M[b]), ![b] = With(M[b], M[a])]

\* Wrong variant: the sign of the pivot is left as it is.
PivotRowUnsigned(p, col) == Normalize(p)

\* The pivot row: divided by its gcd, with a positive pivot.
PivotRow(p, col) ==
  LET n == Normalize(p) IN IF n[col] < 0 THEN Opposite(n) ELSE n

\* The rows of R made zero in column col by row piv.
Eliminated(M, R, piv, col) ==
  [x \in DOMAIN M |->
     IF x \in R /\ M[x][col] # 0 THEN Combine(M[x], M[piv], M[x], col) ELSE M[x]]

\* One column of the forward elimination; s holds the matrix, the rank so far
\* and the column of each pivot row.
ForwardColumn(s, NbEq, col) ==
  LET nonzero == {x \in s.rank .. NbEq - 1 : s.M[x][col] # 0}
      first == CHOOSE x \in nonzero : \A y \in nonzero : x <= y
      swapped == ExchangeCoordinates(s.M, s.rank, first)
      pivoted == [swapped EXCEPT ![s.rank] = PivotRow(@, col)]
  IN  IF nonzero = {} THEN s
      ELSE [M |-> Eliminated(pivoted, first + 1 .. NbEq - 1, s.rank, col),
            rank |-> s.rank + 1,
            column |-> [x \in 0..s.rank |->
                          IF x = s.rank THEN col ELSE s.column[x]]]

Forward(M, NbEq) ==
  LET step[col \in 0..Dimension] ==
        IF col = 0 THEN [M |-> M, rank |-> 0, column |-> [x \in {} |-> 0]]
        ELSE ForwardColumn(step[col - 1], NbEq, col)
  IN  step[Dimension]

\* One pivot row of the back substitution: into the equations above it and
\* into all the inequalities.
Substituted(M, NbEq, NbRows, piv, col) ==
  Eliminated(M, (0 .. piv - 1) \cup (NbEq .. NbRows - 1), piv, col)

(***************************************************************************)
(* The matrix and the rank Gauss4 returns.                                 *)
(***************************************************************************)
BackSubstituted(f, NbEq, NbRows) ==
  LET back[n \in 0..f.rank] ==
        IF n = 0 THEN f.M
        ELSE LET piv == f.rank - n
             IN  Substituted(back[n - 1], NbEq, NbRows, piv, f.column[piv])
  IN  [M |-> back[f.rank], rank |-> f.rank]
Gauss4(M, NbEq, NbRows) == BackSubstituted(Forward(M, NbEq), NbEq, NbRows)
============================================================================
