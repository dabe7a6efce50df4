------------------------------ MODULE Lattices ------------------------------
(***************************************************************************)
(* Affine lattices (source/kernel/Lattice.c): A = (L l; 0 1) stands for    *)
(* the points L z + l of all integer vectors z.                            *)
(***************************************************************************)
EXTENDS NormalForms, FiniteSets
LOCAL INSTANCE SequencesExt

Matrix_Move_Homogeneous_Dim_First(A) == PutRowFirst(PutColumnFirst(A, NbColumns(A)), NbRows(A))
Matrix_Move_Homogeneous_Dim_Last(A) == PutRowLast(PutColumnLast(A, 1), 1)

\* The first row where column j is not zero, one more than the rows if none.
PivotRowOf(A, j) ==
  CHOOSE r \in 1 .. NbRows(A) + 1 :
    /\ \A i \in 1 .. r - 1 : A[i][j] = 0
    /\ r \in Rows(A) => A[r][j] # 0

\* Columns of zeros are skipped, but a nonzero one may not follow them.
isNormalLattice(A) ==
  LET last == NbColumns(A)
      rows == NbRows(A)
  IN  /\ A[rows][last] = 1
      /\ \A j \in 1 .. last - 1 :
           LET p == PivotRowOf(A, j)
           IN  \/ p > rows
               \/ /\ j > 1 => p > PivotRowOf(A, j - 1)
                  /\ A[p][j] >= 0
                  /\ \A i \in 1 .. j - 1 : A[p][i] < A[p][j]
                  /\ A[p][last] < A[p][j]

\* A = H * U, the constant part included.
AffineHermite(A) ==
  LET Of(h) == [H |-> Matrix_Move_Homogeneous_Dim_Last(h.H), U |-> Matrix_Move_Homogeneous_Dim_Last(h.Q)]
  IN  Of(left_hermite(Matrix_Move_Homogeneous_Dim_First(A)))

-----------------------------------------------------------------------------
(* Intersection.  "None" is the NULL of the code.                            *)

None == << >>

\* (a A b B; a A 0 0), the constant parts first.
Stacked(A, B) ==
  LET a == Matrix_Move_Homogeneous_Dim_First(A)
      b == Matrix_Move_Homogeneous_Dim_First(B)
  IN  Tuple([i \in 1 .. 2 * NbRows(A) |->
               IF i <= NbRows(A) THEN a[i] \o b[i]
               ELSE a[i - NbRows(A)] \o Zeros(NbColumns(B))])

LatticeIntersection(A, B) ==
  LET n == NbRows(A)
      \* The first of the last columns of H that are zero in the upper rows.
      FirstOf(H) == CHOOSE c \in 1 .. NbColumns(H) + 1 :
                      /\ \A i \in 1..n, j \in c .. NbColumns(H) : H[i][j] = 0
                      /\ c = 1 \/ \E i \in 1..n : H[i][c - 1] # 0
      \* With no such column the test reads past the row; empty whatever it reads.
      Below(H, c) ==
        IF c > NbColumns(H) \/ H[n + 1][c] # 1 THEN None
        ELSE Matrix_Move_Homogeneous_Dim_Last(SubMatrix(H, n + 1, 2 * n, c, NbColumns(H)))
      Of(H) == Below(H, FirstOf(H))
  IN  IF NbRows(A) # NbRows(B) THEN None ELSE Of(left_hermite(Stacked(A, B)).H)

\* The same points: columns of zeros are ignored.
isSameLatticeSpace(A, B) ==
  LET LinearColumn(M, j) == IF j < NbColumns(M) THEN Column(M, j) ELSE Zeros(NbRows(M))
      most == IF NbColumns(A) > NbColumns(B) THEN NbColumns(A) ELSE NbColumns(B)
  IN  /\ NbRows(A) = NbRows(B)
      /\ \A j \in 1 .. most - 1 : LinearColumn(A, j) = LinearColumn(B, j)
      /\ Column(A, NbColumns(A)) = Column(B, NbColumns(B))

LatticeIncluded(A, B) ==
  LET IsA(temp) == temp # None /\ isSameLatticeSpace(temp, A) IN IsA(LatticeIntersection(B, A))

-----------------------------------------------------------------------------
(* Complement and difference, as sequences of lattices (the latest first).   *)

\* value_prime_factors: in increasing order, as often as they divide.
RECURSIVE FactorsFrom(_, _)
FactorsFrom(n, div) ==
  IF div * div > n THEN IF n # 1 THEN <<n>> ELSE << >>
  ELSE IF n % div = 0 THEN <<div>> \o FactorsFrom(n \div div, div)
  ELSE FactorsFrom(n, IF div = 2 THEN 3 ELSE div + 2)
value_prime_factors(n) == FactorsFrom(n, 2)

\* The rows of the pivots, for the columns that have one.
get_pivots(L) ==
  LET pivot[c \in 0 .. NbColumns(L) - 1] ==
        IF c = 0 THEN 1
        ELSE LET rest == {r \in pivot[c - 1] .. NbRows(L) : L[r][c] # 0}
             IN  IF pivot[c - 1] > NbRows(L) \/ rest = {} THEN NbRows(L) + 1
                 ELSE CHOOSE r \in rest : \A q \in rest : r <= q
      found == {c \in 1 .. NbColumns(L) - 1 : pivot[c] <= NbRows(L)}
  IN  [c \in found |-> pivot[c]]

\* Column col is divided by its gcd from the pivot on, the pivot row reduced
\* modulo the new pivot.
SpreadColumn(X, row, col) ==
  LET gcd == GcdOfAll([i \in 1 .. NbRows(X) - row + 1 |-> X[row + i - 1][col]])
      D == Tuple([i \in Rows(X) |-> [X[i] EXCEPT ![col] = Quot(@, gcd)]])
  IN  IF gcd \in {0, 1} THEN X
      ELSE [D EXCEPT ![row] = Tuple([i \in Columns(X) |->
             IF i = col THEN D[row][i] ELSE Rem(D[row][i], D[row][col])])]

\* The lattice of all integer points of the space that X spreads.
Spread(X, pivots) ==
  LET n == Cardinality(DOMAIN pivots)
      step[k \in 0..n] ==
        IF k = 0 THEN X ELSE SpreadColumn(step[k - 1], pivots[n - k + 1], n - k + 1)
  IN  step[n]

\* One variant of line: pivot multiply and constant modulo; the rows below
\* take the coefficients of the intersection and an adjusted constant.
Variant(line, col, A, Inter, rest, modulo, multiply, step) ==
  LET last == NbColumns(rest)
      Row(ll) ==
        IF ll = line THEN [rest[ll] EXCEPT ![col] = multiply, ![last] = modulo]
        ELSE IF ll > line /\ rest[ll][col] # 0
        THEN [rest[ll] EXCEPT ![col] = Inter[ll][col], ![last] = @ + Quot(modulo, step) * A[ll][col]]
        ELSE rest[ll]
  IN  AffineHermite(Tuple([ll \in Rows(rest) |-> Row(ll)])).H

\* Wrong variant: the modulus of the intersection is one of them.
ModuliAll(constant, step, multiply) ==
  LET first == Rem(constant, step)
  IN  Tuple([i \in 1 .. (multiply - first + step - 1) \div step |-> first + (i - 1) * step])

\* The moduli of one prime factor that miss the intersection.
Moduli(constant, step, multiply) ==
  LET first == Rem(constant, step)
      count == IF first < multiply THEN (multiply - first + step - 1) \div step ELSE 0
      all == Tuple([i \in 1..count |-> first + (i - 1) * step])
  IN  SelectSeq(all, LAMBDA m : Rem(constant, multiply) # m)

\* The variants of a row, for each prime factor of the ratio of the pivots,
\* before those found for earlier rows.
generate_lattice_union_row(line, col, A, Inter, rest, Result) ==
  LET pivot   == A[line][col]
      c       == Inter[line][NbColumns(Inter)]
      based   == [rest EXCEPT ![line] = Inter[line]]
      factors == value_prime_factors(Quot(Inter[line][col], pivot))
      multiply[p \in 0..Len(factors)] ==
        IF p = 0 THEN pivot
        ELSE factors[p] * (IF p > 1 /\ factors[p - 1] = factors[p] THEN multiply[p - 1] ELSE pivot)
      \* Latest first, as each is put before the others.
      For(moduli, times, step) ==
        Reverse([i \in DOMAIN moduli |-> Variant(line, col, A, Inter, based, moduli[i], times, step)])
  IN  [Result |-> FoldLeft(LAMBDA R, p : LET step == multiply[p] \div factors[p]
                                         IN  For(Moduli(c, step, multiply[p]), multiply[p], step) \o R,
                           Result, Indices(factors)),
       rest |-> [ll \in Rows(based) |->
                   IF ll > line THEN [based[ll] EXCEPT ![col] = Inter[ll][col]] ELSE based[ll]]]

VariantsBetween(X, Inter, pivots) ==
  IF \A col \in DOMAIN pivots : X[pivots[col]][col] = Inter[pivots[col]][col] THEN << >>
  ELSE FoldLeft(LAMBDA s, col : generate_lattice_union_row(pivots[col], col, X, Inter, s.rest, s.Result),
                [Result |-> << >>, rest |-> X], [col \in 1..Cardinality(DOMAIN pivots) |-> col]).Result

ComplementIn(Inter, pivots) == VariantsBetween(Spread(Inter, pivots), Inter, pivots)
ComplementOf(Inter) == ComplementIn(Inter, get_pivots(Inter))
LatticeComplement(B) == IF NbRows(B) = 1 THEN << >> ELSE ComplementOf(AffineHermite(B).H)

\* A = None stands for the whole space that B spreads.
LatticeDifference(A, B) ==
  LET Of(CB) == IF A = None THEN CB
                ELSE SelectSeq([i \in DOMAIN CB |-> LatticeIntersection(CB[i], A)], LAMBDA M : M # None)
  IN  IF NbRows(B) = 1 THEN << >> ELSE Of(LatticeComplement(B))
=============================================================================
