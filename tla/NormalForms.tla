----------------------------- MODULE NormalForms -----------------------------
(***************************************************************************)
(* The Hermite and Smith forms of source/kernel/NormalForms.c and the two  *)
(* Hermite forms of source/kernel/matrix.c.  Both files bring the smallest *)
(* element of a column onto the diagonal and subtract multiples of its row *)
(* from the others until the column is clear.  The first argument of most  *)
(* operators, s, holds the matrix a and the factor B with A = B * a.       *)
(***************************************************************************)
EXTENDS Matrices
LOCAL INSTANCE SequencesExt

\* petit_c: the row from q on with the smallest nonzero element of column q,
\* q itself at a tie; 0 when all below q are zero.
PetitC(a, q) ==
  LET below == {k \in q + 1 .. Len(a) : a[k][q] # 0}
      least == CHOOSE k \in below : \A l \in below :
                 \/ AbsValue(a[k][q]) < AbsValue(a[l][q])
                 \/ AbsValue(a[k][q]) = AbsValue(a[l][q]) /\ k <= l
  IN  IF below = {} THEN 0
      ELSE IF a[q][q] # 0 /\ AbsValue(a[least][q]) >= AbsValue(a[q][q]) THEN q
      ELSE least

Exchanged(s, i, q) ==
  [s EXCEPT !.a = ExchangeRows(@, i, q), !.B = ExchangeColumns(@, i, q),
            !.moved = @ \/ i # q]

\* moins_l and moins_c when the pivot is negative.
MadePositive(s, q) ==
  IF s.a[q][q] < 0
  THEN [s EXCEPT !.a = OpposeRow(@, q), !.B = OpposeColumn(@, q)] ELSE s

\* Wrong variant of the next: the quotient is truncated.
ReducedTruncated(s, q, K) ==
  LET x == Tuple([k \in Rows(s.a) |-> IF k \in K THEN Quot(s.a[k][q], s.a[q][q]) ELSE 0])
  IN  [s EXCEPT !.a = Tuple([k \in Rows(s.a) |-> AddScaled(s.a[k], -x[k], s.a[q])]),
                !.B = Tuple([r \in Rows(s.B) |-> [s.B[r] EXCEPT ![q] = @ + Dot(s.B[r], x)]])]
\* Row q is subtracted from the rows K as often as the pivot divides.
Reduced(s, q, K) ==
  LET x == Tuple([k \in Rows(s.a) |-> IF k \in K THEN s.a[k][q] \div s.a[q][q] ELSE 0])
  IN  [s EXCEPT !.a = Tuple([k \in Rows(s.a) |-> AddScaled(s.a[k], -x[k], s.a[q])]),
                !.B = Tuple([r \in Rows(s.B) |-> [s.B[r] EXCEPT ![q] = @ + Dot(s.B[r], x)]])]

RECURSIVE ClearColumn(_, _)
ClearColumn(s, q) ==
  LET i == PetitC(s.a, q)
  IN  IF i = 0 THEN s
      ELSE ClearColumn(Reduced(MadePositive(Exchanged(s, i, q), q), q, q + 1 .. Len(s.a)), q)

WithIdentity(A) == [a |-> A, B |-> Identity(Len(A)), moved |-> FALSE]

-----------------------------------------------------------------------------
(* hermite of NormalForms.c, from column q on, and Hermite: A = H * U.       *)

RECURSIVE HermiteFrom(_, _)
HermiteFrom(s, q) ==
  LET Above(c) == IF c.a[q][q] = 0 THEN c ELSE Reduced(c, q, 1 .. q - 1)
  IN  IF q > NbColumns(s.a) \/ q > NbRows(s.a) THEN s
      ELSE HermiteFrom(Above(MadePositive(ClearColumn(s, q), q)), q + 1)

Hermite(A) ==
  LET Of(s) == [H |-> Transpose(s.a), U |-> Transpose(s.B)]
  IN  Of(HermiteFrom(WithIdentity(Transpose(A)), 1))

-----------------------------------------------------------------------------
(* smith and Smith: A = U * Product * V.  s holds a, U and V; a phase on the *)
(* columns is one on the rows of the transposed matrix.                      *)

\* encore: the column of the first element below and right of q that val does
\* not divide, 0 if there is none.
Encore(a, q, val) ==
  LET rest == (q + 1 .. NbRows(a)) \X (q + 1 .. NbColumns(a))
      bad  == {<<k, l>> \in rest : IF val = 0 THEN a[k][l] # 0 ELSE AbsValue(a[k][l]) % val # 0}
      first == CHOOSE x \in bad : \A y \in bad : x[1] < y[1] \/ (x[1] = y[1] /\ x[2] <= y[2])
  IN  IF bad = {} THEN 0 ELSE first[2]

OnRows(s, q) ==
  LET Of(r) == [s EXCEPT !.a = r.a, !.U = r.B]
  IN  Of(ClearColumn([a |-> s.a, B |-> s.U, moved |-> FALSE], q))
OnColumns(s, q) ==
  LET Of(r) == [s EXCEPT !.a = Transpose(r.a), !.V = Transpose(r.B), !.fini = ~r.moved]
  IN  Of(ClearColumn([a |-> Transpose(s.a), B |-> Transpose(s.V), moved |-> FALSE], q))

RECURSIVE ClearBoth(_, _)
ClearBoth(s, q) ==
  LET Again(r) == IF r.fini THEN r ELSE ClearBoth(r, q) IN Again(OnColumns(OnRows(s, q), q))

RECURSIVE SmithFrom(_, _)
SmithFrom(s, q) ==
  LET Positive(c, p) == [c EXCEPT !.a = p.a, !.U = p.B]
      Signed(c) == Positive(c, MadePositive([a |-> c.a, B |-> c.U], q))
      Added(d, i) == [d EXCEPT
        !.a = Tuple([k \in Rows(d.a) |-> [d.a[k] EXCEPT ![q] = @ + d.a[k][i]]]),
        !.V = [@ EXCEPT ![i] = AddScaled(@, -1, d.V[q])]]
      Go(d, i) == IF i # 0 THEN SmithFrom(Added(d, i), q) ELSE SmithFrom(d, q + 1)
      After(d) == Go(d, Encore(d.a, q, d.a[q][q]))
  IN  IF q > NbRows(s.a) \/ q > NbColumns(s.a) THEN s ELSE After(Signed(ClearBoth(s, q)))

Smith(A) ==
  LET Of(s) == [U |-> s.U, Product |-> s.a, V |-> s.V]
  IN  Of(SmithFrom([a |-> A, U |-> Identity(NbRows(A)), V |-> Identity(NbColumns(A)),
                    fini |-> FALSE], 1))

-----------------------------------------------------------------------------
(* hermite of matrix.c: H and the factors U, U * A = H, and Q, the           *)
(* transposed of its inverse; rank rows are done, column k is next.          *)

\* The row from r on with the smallest nonzero element of column k, the first
\* of them; r if there is none.
PivotOf(H, r, k) ==
  LET nonzero == {i \in r .. Len(H) : H[i][k] # 0}
  IN  IF nonzero = {} THEN r
      ELSE CHOOSE i \in nonzero : \A j \in nonzero :
             \/ AbsValue(H[i][k]) < AbsValue(H[j][k])
             \/ AbsValue(H[i][k]) = AbsValue(H[j][k]) /\ i <= j

\* Row r is subtracted from the rows K.
Subtracted(s, r, k, K) ==
  LET x == Tuple([i \in Rows(s.H) |-> IF i \in K THEN s.H[i][k] \div s.H[r][k] ELSE 0])
      Less(M) == Tuple([i \in Rows(M) |-> AddScaled(M[i], -x[i], M[r])])
  IN  [s EXCEPT !.H = Less(@), !.U = Less(@),
                !.Q = [@ EXCEPT ![r] = AddScaled(@, 1, Vector_Matrix_Product(x, s.Q))]]

RowsSwapped(s, p, r) == [s EXCEPT !.H = ExchangeRows(@, p, r), !.U = ExchangeRows(@, p, r), !.Q = ExchangeRows(@, p, r)]
RowSigned(s, r, k) ==
  IF s.H[r][k] >= 0 THEN s
  ELSE [s EXCEPT !.H = OpposeRow(@, r), !.U = OpposeRow(@, r), !.Q = OpposeRow(@, r)]

RECURSIVE ReduceColumn(_, _, _), LessPivot(_, _, _, _)
LessPivot(s, r, k, below) == IF below = {} THEN s ELSE ReduceColumn(Subtracted(s, r, k, below), r, k)
ReduceColumn(s, r, k) ==
  LET Below(o) == LessPivot(o, r, k, {i \in r + 1 .. Len(s.H) : o.H[i][k] # 0})
  IN  Below(RowSigned(RowsSwapped(s, PivotOf(s.H, r, k), r), r, k))

EngineColumn(s, k) ==
  LET Above(c) == IF c.H[s.rank + 1][k] = 0 THEN c
                  ELSE [Subtracted(c, s.rank + 1, k, 1 .. s.rank) EXCEPT !.rank = @ + 1]
  IN  IF s.rank = NbRows(s.H) THEN s ELSE Above(ReduceColumn(s, s.rank + 1, k))

HermiteEngine(A) ==
  LET I == Identity(NbRows(A))
  IN  FoldLeft(EngineColumn, [H |-> A, U |-> I, Q |-> I, rank |-> 0], [k \in Columns(A) |-> k])

\* A = Q * H and U * A = H.
right_hermite(A) ==
  LET Of(s) == [H |-> s.H, U |-> s.U, Q |-> Transpose(s.Q)] IN Of(HermiteEngine(A))

\* A = H * Q and A * U = H.
left_hermite(A) ==
  LET Of(s) == [H |-> Transpose(s.H), U |-> Transpose(s.U), Q |-> s.Q]
  IN  Of(HermiteEngine(Transpose(A)))
=============================================================================
