------------------------------ MODULE SolveDio ------------------------------
(***************************************************************************)
(* SolveDiophantine (source/kernel/SolveDio.c): the integer solutions of   *)
(* A x + c = 0.  M holds the rows (A | c) and a homogeneous last row.      *)
(***************************************************************************)
EXTENDS NormalForms

LinearPart(M) == [i \in 1 .. NbRows(M) - 1 |-> SubSeq(M[i], 1, NbColumns(M) - 1)]

\* The rows of zeros go to the end.  end is the last row still in question.
ZeroRowsLast(M, L) ==
  LET step[i \in 0 .. Len(L)] ==
        IF i = 0 THEN [M |-> M, end |-> Len(L)]
        ELSE LET s == step[i - 1]
             IN  IF i < s.end /\ IsZeroVector(L[i])
                 THEN [M |-> ExchangeRows(s.M, i, s.end), end |-> s.end - 1]
                 ELSE s
  IN  step[Len(L)]

\* An element of the diagonal is zero (or, in a matrix of one column, missing).
DiagonalHasZero(H) ==
  \E i \in Rows(H) : i > NbColumns(H) \/ H[i][i] = 0

\* The next row of L joins A when it is independent of A; otherwise the row
\* of M with its number goes to the end.  L itself is not rearranged.
RECURSIVE DependentRowsLast(_, _, _)
DependentRowsLast(s, A, L) ==
  LET cur   == Len(A) + 1
      temp  == Append(A, L[cur])
      Next1(t, B) ==
        LET min == IF t.end - 1 >= NbColumns(L) THEN NbColumns(L) ELSE t.end - 1
        IN  IF Len(B) = min \/ Len(B) + 1 >= t.end THEN t.M ELSE DependentRowsLast(t, B, L)
  IN  IF DiagonalHasZero(Hermite(temp).H)
      THEN Next1([M |-> ExchangeRows(s.M, cur, s.end), end |-> s.end - 1], A)
      ELSE Next1(s, temp)

RearrangeMatforSolveDio(M) ==
  LET L == LinearPart(M)
      After(s) == IF s.end > 1 THEN DependentRowsLast(s, <<L[1]>>, L) ELSE s.M
  IN  After(ZeroRowsLast(M, L))

\* The number of elements of the diagonal before the first zero.
LeadingRank(H) ==
  LET min == IF NbRows(H) <= NbColumns(H) THEN NbRows(H) ELSE NbColumns(H)
  IN  CHOOSE r \in 0..min : /\ \A i \in 1..r : H[i][i] # 0
                            /\ r = min \/ H[r + 1][r + 1] = 0

\* Wrong variant: the rows after rank are not verified.
SubstitutionUnverified(H, C, rank) ==
  LET step[i \in 0..rank] ==
        IF i = 0 THEN [ok |-> TRUE, T |-> Zeros(NbColumns(H))]
        ELSE LET rest == C[i] - Dot(step[i - 1].T, H[i])
             IN  IF Rem(rest, H[i][i]) # 0 THEN [step[i - 1] EXCEPT !.ok = FALSE]
                 ELSE [step[i - 1] EXCEPT !.T[i] = Quot(rest, H[i][i])]
  IN  step[rank]

\* H t = C by forward substitution; the rows after rank are only verified.
Substitution(H, C, rank) ==
  LET cols == NbColumns(H)
      step[i \in 0..rank] ==
        IF i = 0 THEN [ok |-> TRUE, T |-> Zeros(cols)]
        ELSE LET s == step[i - 1]
                 rest == C[i] - Dot(s.T, H[i])
             IN  IF ~s.ok \/ Rem(rest, H[i][i]) # 0 THEN [s EXCEPT !.ok = FALSE]
                 ELSE [s EXCEPT !.T[i] = Quot(rest, H[i][i])]
      last == step[rank]
  IN  [last EXCEPT !.ok = @ /\ \A i \in rank + 1 .. NbRows(H) : Dot(last.T, H[i]) = C[i]]

\* The rank, -1 when there is no solution; X is a solution and the columns of
\* U span the others.
SolveDiophantine(M) ==
  LET Solution(inv, rank, s) ==
        [rank |-> rank,
         U |-> IF rank = NbColumns(inv) THEN << >>
               ELSE SubMatrix(inv, 1, NbRows(inv), rank + 1, NbColumns(inv)),
         X |-> Matrix_Vector_Product(inv, s.T)]
      By(h, rank, s) == IF ~s.ok THEN [rank |-> -1, U |-> << >>, X |-> << >>]
                        ELSE Solution(Matrix_Inverse(h.U).inverse, rank, s)
      Ranked(h, C, rank) == By(h, rank, Substitution(h.H, C, rank))
      Of(h, C) == Ranked(h, C, LeadingRank(h.H))
      Arranged(A) == Of(Hermite(LinearPart(A)), [i \in 1 .. NbRows(A) - 1 |-> -A[i][NbColumns(A)]])
  IN  Arranged(RearrangeMatforSolveDio(M))
=============================================================================
