------------------------------ MODULE Matrices ------------------------------
(***************************************************************************)
(* Values, vectors and matrices as the algorithms of source/kernel use     *)
(* them: matrix.c, Matop.c and the vector.c operations on plain vectors.   *)
(* A vector is a sequence of integers and a matrix a sequence of rows;     *)
(* rows and columns are counted from 1.  Values are unbounded.             *)
(***************************************************************************)
EXTENDS Integers, Sequences
LOCAL INSTANCE SequencesExt

AbsValue(x) == IF x >= 0 THEN x ELSE -x

\* value_division and value_modulus truncate towards zero, value_pdivision
\* and value_pmodulus towards minus infinity.
Quot(a, b) == (IF (a >= 0) = (b >= 0) THEN 1 ELSE -1) * (AbsValue(a) \div AbsValue(b))
Rem(a, b) == a - b * Quot(a, b)
PDiv(a, b) == IF b > 0 THEN a \div b ELSE (-a) \div (-b)
PMod(a, b) == a - AbsValue(b) * (a \div AbsValue(b))

RECURSIVE GcdOf(_, _)
GcdOf(a, b) == IF a = 0 THEN AbsValue(b) ELSE GcdOf(Rem(b, a), a)

\* Lcm3: a zero argument gives the other one.
LcmOf(a, b) ==
  IF a = 0 THEN b ELSE IF b = 0 THEN a ELSE AbsValue(a * b) \div GcdOf(a, b)

RECURSIVE GcdOfAll(_)
GcdOfAll(v) == IF v = << >> THEN 0 ELSE GcdOf(Head(v), GcdOfAll(Tail(v)))

\* Vector_Gcd: 1 for a vector of zeros.
Vector_Gcd(v) == IF \A i \in DOMAIN v : v[i] = 0 THEN 1 ELSE GcdOfAll(v)

-----------------------------------------------------------------------------
(* Vectors.                                                                  *)

\* f itself, as a tuple: TLC computes its elements once and not at each use.
Tuple(f) == f \o << >>
Indices(s) == Tuple([i \in DOMAIN s |-> i])

Zeros(n) == Tuple([i \in 1..n |-> 0])
IsZeroVector(v) == \A i \in DOMAIN v : v[i] = 0
AddScaled(u, x, v) == Tuple([i \in DOMAIN u |-> u[i] + x * v[i]])
Scaled(v, x) == Tuple([i \in DOMAIN v |-> x * v[i]])
AntiScaled(v, x) == Tuple([i \in DOMAIN v |-> Quot(v[i], x)])
Negative(v) == Scaled(v, -1)

RECURSIVE DotTo(_, _, _)
DotTo(u, v, n) == IF n = 0 THEN 0 ELSE DotTo(u, v, n - 1) + u[n] * v[n]
Dot(u, v) == DotTo(u, v, Len(u))

Normalized(v) == AntiScaled(v, Vector_Gcd(v))

\* Vector_Normalize_Positive: element pos becomes positive.
NormalizedPositive(v, pos) ==
  AntiScaled(v, (IF v[pos] < 0 THEN -1 ELSE 1) * Vector_Gcd(v))

\* First_Non_Zero: 0 when there is none.
FirstNonZeroOf(v) ==
  IF IsZeroVector(v) THEN 0
  ELSE CHOOSE i \in DOMAIN v : v[i] # 0 /\ \A j \in 1 .. i - 1 : v[j] = 0

-----------------------------------------------------------------------------
(* Matrices.                                                                 *)

NbRows(M) == Len(M)
NbColumns(M) == IF M = << >> THEN 0 ELSE Len(M[1])
Rows(M) == DOMAIN M
Columns(M) == 1 .. NbColumns(M)

Identity(n) == Tuple([i \in 1..n |-> Tuple([j \in 1..n |-> IF i = j THEN 1 ELSE 0])])

Transpose(M) == Tuple([j \in Columns(M) |-> Tuple([i \in Rows(M) |-> M[i][j]])])
Column(M, j) == Tuple([i \in Rows(M) |-> M[i][j]])

ExchangeRows(M, i, j) == [M EXCEPT ![i] = M[j], ![j] = M[i]]
ExchangeColumns(M, i, j) == Tuple([r \in Rows(M) |-> [M[r] EXCEPT ![i] = M[r][j], ![j] = M[r][i]]])
OpposeRow(M, i) == [M EXCEPT ![i] = Negative(@)]
OpposeColumn(M, j) == Tuple([r \in Rows(M) |-> [M[r] EXCEPT ![j] = -@]])

SubMatrix(M, r1, r2, c1, c2) == Tuple([i \in 1 .. r2 - r1 + 1 |-> SubSeq(M[r1 + i - 1], c1, c2)])

PutLast(s, i) == SubSeq(s, 1, i - 1) \o SubSeq(s, i + 1, Len(s)) \o <<s[i]>>
PutFirst(s, i) == <<s[i]>> \o SubSeq(s, 1, i - 1) \o SubSeq(s, i + 1, Len(s))
PutRowLast(M, i) == PutLast(M, i)
PutRowFirst(M, i) == PutFirst(M, i)
PutColumnLast(M, j) == Tuple([r \in Rows(M) |-> PutLast(M[r], j)])
PutColumnFirst(M, j) == Tuple([r \in Rows(M) |-> PutFirst(M[r], j)])

Matrix_Vector_Product(M, v) == Tuple([i \in Rows(M) |-> Dot(M[i], v)])
Vector_Matrix_Product(v, M) == Tuple([j \in Columns(M) |-> Dot(v, Column(M, j))])
Matrix_Product(A, B) ==
  LET T == Transpose(B)
  IN  Tuple([i \in Rows(A) |-> Tuple([j \in Columns(B) |-> Dot(A[i], T[j])])])

-----------------------------------------------------------------------------
(* Gauss-Jordan elimination, common to MatInverse and Matrix_Inverse: M      *)
(* becomes diagonal and I, the identity at first, follows.                   *)

\* Row j of both is combined with row i so that M[j][i] becomes zero, and
\* divided by the gcd of both rows.
WithRowDivided(s, j, m, n) ==
  LET d == GcdOf(Vector_Gcd(n), Vector_Gcd(m))
  IN  [s EXCEPT !.M[j] = AntiScaled(m, d), !.I[j] = AntiScaled(n, d)]
RowsCombined(s, i, j, g) ==
  LET Of(A) == AddScaled(Scaled(A[j], s.M[i][i] \div g), -(s.M[j][i] \div g), A[i])
  IN  WithRowDivided(s, j, Of(s.M), Of(s.I))
JordanRow(s, i, j) ==
  IF i = j \/ s.M[j][i] = 0 THEN s ELSE RowsCombined(s, i, j, GcdOf(s.M[j][i], s.M[i][i]))

PivotExchanged(s, i, candidates) ==
  LET j == IF s.M[i][i] # 0 THEN i ELSE CHOOSE c \in candidates : \A d \in candidates : c <= d
  IN  [s EXCEPT !.M = ExchangeRows(@, i, j), !.I = ExchangeRows(@, i, j)]
JordanColumn(s, i) ==
  LET candidates == {j \in i..Len(s.M) : s.M[j][i] # 0}
  IN  IF s.singular \/ candidates = {} THEN [s EXCEPT !.singular = TRUE]
      ELSE FoldLeft(LAMBDA t, n : JordanRow(t, i, n), PivotExchanged(s, i, candidates), Indices(s.M))

Jordan(M) ==
  FoldLeft(JordanColumn, [M |-> M, I |-> Identity(Len(M)), singular |-> FALSE], Indices(M))

\* MatInverse: each row of the inverse ends with its denominator.
MatInverse(M) ==
  LET k == Len(M)
      Of(s) ==
        [ok |-> ~s.singular,
         inverse |-> Tuple([j \in 1..k |-> NormalizedPositive(Append(s.I[j], s.M[j][j]), k + 1)])]
  IN  Of(Jordan(M))

LcmOfAll(v) ==
  LET lcm[n \in 0..Len(v)] ==
        IF n = 0 THEN 1 ELSE lcm[n - 1] * (v[n] \div GcdOf(lcm[n - 1], v[n]))
  IN  lcm[Len(v)]

\* Matrix_Inverse: the inverse times the least common denominator of its rows,
\* which is not returned.
Matrix_Inverse(M) ==
  LET k == Len(M)
      Integral(row, l) == Scaled(SubSeq(row, 1, k), l \div row[k + 1])
      Times(rows, l) == Tuple([j \in 1..k |-> Integral(rows[j], l)])
      Of(r) == IF r.ok THEN [r EXCEPT !.inverse = Times(@, LcmOfAll(Column(@, k + 1)))] ELSE r
  IN  Of(MatInverse(M))

\* rat_prodmat: X * P, the rows of P and of the result ending with denominators.
rat_prodmat(X, P) ==
  LET last  == NbColumns(P)
      lcm   == LcmOfAll(Column(P, last))
      equal == [k \in Rows(P) |-> Scaled(SubSeq(P[k], 1, last - 1), Quot(lcm, P[k][last]))]
      S     == Matrix_Product(X, equal)
  IN  [i \in Rows(X) |-> NormalizedPositive(Append(S[i], lcm), last)]
=============================================================================
