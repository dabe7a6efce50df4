------------------------ MODULE PolyhedronCalls_proof ------------------------
(***************************************************************************)
(* The rays of every polyhedron built satisfy its constraints, for every   *)
(* Dimension, WSIZE, work space and choice of matrices, whatever calls of  *)
(* whichever functions led to it.                                          *)
(***************************************************************************)
EXTENDS PolyhedronCalls, Chernikova_proof

-----------------------------------------------------------------------------
(* Matrices and rows.                                                      *)

\* The numbers below n are n.
LEMMA CountTo == \A n \in Nat : Cardinality(0 .. n - 1) = n
<1> TAKE n \in Nat
<1>1. 0 \in Int /\ n - 1 \in Int
  OBVIOUS
<1>2. Cardinality(0 .. n - 1) = IF 0 > n - 1 THEN 0 ELSE (n - 1) - 0 + 1
  BY <1>1, FS_Interval
<1> QED BY <1>2

\* The number of rows of a matrix is what Length counts, ...
LEMMA LengthIs ==
  ASSUME NEW n \in Nat, NEW M \in MatrixOf(n)
  PROVE  Length(M) = n /\ IsMatrix(M)
<1>1. DOMAIN M = 0 .. n - 1
  BY DEF MatrixOf
<1>2. Length(M) = n
  BY <1>1, CountTo DEF Length
<1> QED BY <1>2 DEF IsMatrix, MatrixOf, IntRow

\* ... and a matrix in the sense of the model one in that of Geometry_proof.
LEMMA MatrixIs ==
  ASSUME NEW M, IsMatrix(M)
  PROVE  Length(M) \in Nat /\ M \in MatrixOf(Length(M))
BY DEF IsMatrix, MatrixOf, IntRow

\* The matrix without rows.
LEMMA EmptyIs == EmptyMatrix \in MatrixOf(0) /\ IsMatrix(EmptyMatrix) /\ Length(EmptyMatrix) = 0
<1>1. EmptyMatrix \in MatrixOf(0)
  BY DEF EmptyMatrix, MatrixOf
<1> QED BY <1>1, LengthIs

\* Changing the status word changes no inner product.
LEMMA StatusOnly ==
  ASSUME NEW p \in IntRow, NEW s \in Int
  PROVE  /\ WithStatus(p, s) \in IntRow /\ WithStatus(p, s)[0] = s
         /\ SameCoordinates(p, WithStatus(p, s))
         /\ WithStatus(p, s)[Dimension] = p[Dimension]
         /\ \A m \in IntRow : InnerProduct(WithStatus(p, s), m) = InnerProduct(p, m)
         /\ \A m \in IntRow : InnerProduct(m, WithStatus(p, s)) = InnerProduct(m, p)
<1>1. WithStatus(p, s) \in IntRow /\ WithStatus(p, s)[0] = s
  BY DimensionAssumption DEF WithStatus, IntRow
<1>2. \A c \in Coordinates : WithStatus(p, s)[c] = p[c]
  BY DimensionAssumption DEF WithStatus, IntRow, Coordinates
<1>3. ASSUME NEW m \in IntRow PROVE InnerProduct(WithStatus(p, s), m) = InnerProduct(p, m)
  BY <1>1, <1>2, InnerProductSame
<1>4. ASSUME NEW m \in IntRow PROVE InnerProduct(m, WithStatus(p, s)) = InnerProduct(m, p)
  BY <1>1, <1>3, InnerProductSymmetric
<1>5. Dimension \in Coordinates
  BY DimensionAssumption DEF Coordinates
<1> QED BY <1>1, <1>2, <1>3, <1>4, <1>5 DEF SameCoordinates

\* The product with a unit row is the element it selects.
LEMMA UnitRowIs ==
  ASSUME NEW s \in Int, NEW x \in 0 .. Dimension - 1
  PROVE  /\ UnitRow(s, x) \in IntRow /\ UnitRow(s, x)[0] = s
         /\ UnitRow(s, x)[Dimension] = IF x = Dimension - 1 THEN 1 ELSE 0
         /\ \A p \in IntRow : InnerProduct(p, UnitRow(s, x)) = p[x + 1]
<1>1. /\ UnitRow(s, x) \in IntRow /\ UnitRow(s, x)[0] = s
      /\ UnitRow(s, x)[Dimension] = IF x = Dimension - 1 THEN 1 ELSE 0
  BY DimensionAssumption DEF UnitRow, IntRow
<1>2. x + 1 \in Coordinates
  BY DimensionAssumption DEF Coordinates
<1>3. \A c \in Coordinates : UnitRow(s, x)[c] = Axis(x + 1)[c]
  BY DimensionAssumption DEF UnitRow, Axis, Coordinates
<1>4. ASSUME NEW p \in IntRow PROVE InnerProduct(p, UnitRow(s, x)) = p[x + 1]
  <2>1. Axis(x + 1) \in IntRow /\ InnerProduct(p, Axis(x + 1)) = p[x + 1]
    BY <1>2, AxisProduct
  <2>2. InnerProduct(UnitRow(s, x), p) = InnerProduct(Axis(x + 1), p)
    BY <1>1, <1>3, <2>1, InnerProductSame
  <2> QED BY <1>1, <2>1, <2>2, InnerProductSymmetric
<1> QED BY <1>1, <1>4

\* The rows of two matrices one above the other.
LEMMA StackedIs ==
  ASSUME NEW M, IsMatrix(M), NEW N, IsMatrix(N)
  PROVE  /\ IsMatrix(Stacked(M, N)) /\ Length(Stacked(M, N)) = Length(M) + Length(N)
         /\ \A x \in 0 .. Length(M) - 1 : Stacked(M, N)[x] = M[x]
         /\ \A x \in DOMAIN Stacked(M, N) :
              (\E y \in DOMAIN M : Stacked(M, N)[x] = M[y]) \/ (\E y \in DOMAIN N : Stacked(M, N)[x] = N[y])
<1> DEFINE m == Length(M)
           n == Length(N)
<1>1. m \in Nat /\ n \in Nat /\ M \in MatrixOf(m) /\ N \in MatrixOf(n)
  BY MatrixIs
<1>2. Stacked(M, N) = [x \in 0 .. m + n - 1 |-> IF x < m THEN M[x] ELSE N[x - m]]
  BY DEF Stacked
<1> HIDE DEF m, n
<1>3. DOMAIN M = 0 .. m - 1 /\ DOMAIN N = 0 .. n - 1
  BY <1>1 DEF MatrixOf
<1>4. ASSUME NEW x \in 0 .. m + n - 1
      PROVE  (x < m /\ x \in 0 .. m - 1) \/ (~(x < m) /\ x - m \in 0 .. n - 1)
  BY <1>1
<1>5. \A x \in 0 .. m + n - 1 : Stacked(M, N)[x] \in IntRow
  BY <1>1, <1>2, <1>4 DEF MatrixOf
<1>6. m + n \in Nat /\ Stacked(M, N) \in MatrixOf(m + n) /\ DOMAIN Stacked(M, N) = 0 .. m + n - 1
  BY <1>1, <1>2, <1>5 DEF MatrixOf
<1>7. IsMatrix(Stacked(M, N)) /\ Length(Stacked(M, N)) = m + n
  BY <1>6, LengthIs
<1>8. \A x \in 0 .. m - 1 : Stacked(M, N)[x] = M[x]
  BY <1>1, <1>2
<1>9. ASSUME NEW x \in 0 .. m + n - 1
      PROVE  (\E y \in DOMAIN M : Stacked(M, N)[x] = M[y]) \/ (\E y \in DOMAIN N : Stacked(M, N)[x] = N[y])
  BY <1>2, <1>3, <1>4
<1> QED BY <1>6, <1>7, <1>8, <1>9 DEF m, n

\* One more row at the end of a matrix.
LEMMA AppendedIs ==
  ASSUME NEW M, IsMatrix(M), NEW p \in IntRow
  PROVE  /\ IsMatrix(Appended(M, p)) /\ Length(Appended(M, p)) = Length(M) + 1
         /\ Appended(M, p)[Length(M)] = p
         /\ \A x \in 0 .. Length(M) - 1 : Appended(M, p)[x] = M[x]
<1> DEFINE m == Length(M)
<1>1. m \in Nat /\ M \in MatrixOf(m) /\ DOMAIN M = 0 .. m - 1
  BY MatrixIs DEF MatrixOf
<1>2. Appended(M, p) = [y \in (DOMAIN M) \cup {m} |-> IF y = m THEN p ELSE M[y]]
  BY DEF Appended, WithRow
<1> HIDE DEF m
<1>3. (DOMAIN M) \cup {m} = 0 .. (m + 1) - 1 /\ m + 1 \in Nat
  BY <1>1
<1>4. \A y \in 0 .. (m + 1) - 1 : y = m \/ y \in 0 .. m - 1
  BY <1>1
<1>5. Appended(M, p) \in MatrixOf(m + 1)
  BY <1>1, <1>2, <1>3, <1>4 DEF MatrixOf
<1>6. IsMatrix(Appended(M, p)) /\ Length(Appended(M, p)) = m + 1
  BY <1>3, <1>5, LengthIs
<1>7. Appended(M, p)[m] = p /\ \A x \in 0 .. m - 1 : Appended(M, p)[x] = M[x]
  BY <1>1, <1>2
<1> QED BY <1>6, <1>7 DEF m

-----------------------------------------------------------------------------
(* The invariant, phase by phase.                                          *)

\* r saturates c, or verifies it as an inequality.
Agree(r, c, saturated) == IF saturated THEN InnerProduct(r, c) = 0 ELSE InnerProduct(r, c) >= 0

\* The last coordinate of a line, and of a ray or vertex.
Inside(r, line) == IF line THEN r[Dimension] = 0 ELSE r[Dimension] >= 0

\* Two matrices, their equalities and lines first, whose other rows have
\* status 1.
IsPolyhedron(P) ==
  /\ IsMatrix(P.Constraint) /\ IsMatrix(P.Ray)
  /\ P.NbEq \in 0..Length(P.Constraint) /\ P.NbBid \in 0..Length(P.Ray)
  /\ \A c \in P.NbEq .. Length(P.Constraint) - 1 : P.Constraint[c][0] = 1
  /\ \A r \in P.NbBid .. Length(P.Ray) - 1 : P.Ray[r][0] = 1

\* The rays of P satisfy its constraints, read by their place in the matrices.
PolSound(P) ==
  \A r \in DOMAIN P.Ray :
    /\ Inside(P.Ray[r], r < P.NbBid)
    /\ \A c \in DOMAIN P.Constraint : Agree(P.Ray[r], P.Constraint[c], c < P.NbEq \/ r < P.NbBid)

\* Chernikova runs; in the dual case on rays.
Upward(M) == \A r \in DOMAIN M : M[r][Dimension] >= 0
Computing ==
  /\ pc \in {"head", "line", "sort", "pairs"}
  /\ ChernikovaInv
  /\ dual => Upward(Mat)

-----------------------------------------------------------------------------
(* The calls.                                                              *)

\* BuildSat changes status words only.
LEMMA EvaluatedIs ==
  ASSUME NEW M, IsMatrix(M), NEW R, IsMatrix(R), NEW n \in 0..Length(M)
  PROVE  /\ Evaluated(M, R, n) \in MatrixOf(Length(R))
         /\ \A x \in 0 .. Length(R) - 1 : SameCoordinates(R[x], Evaluated(M, R, n)[x])
<1>1. Length(R) \in Nat /\ R \in MatrixOf(Length(R)) /\ Length(M) \in Nat /\ M \in MatrixOf(Length(M))
  BY MatrixIs
<1>2. DOMAIN R = 0 .. Length(R) - 1
  BY <1>1 DEF MatrixOf
<1>3. CASE n = 0
  BY <1>1, <1>3 DEF Evaluated, SameCoordinates
<1>4. CASE n # 0
  <2>1. M[n - 1] \in IntRow
    <3>1. n - 1 \in 0 .. Length(M) - 1
      BY <1>1, <1>4
    <3> QED BY <1>1, <3>1 DEF MatrixOf
  <2>2. Evaluated(M, R, n) = [r \in 0 .. Length(R) - 1 |-> WithStatus(R[r], InnerProduct(R[r], M[n - 1]))]
    BY <1>2, <1>4 DEF Evaluated
  <2>3. ASSUME NEW x \in 0 .. Length(R) - 1
        PROVE  /\ WithStatus(R[x], InnerProduct(R[x], M[n - 1])) \in IntRow
               /\ SameCoordinates(R[x], WithStatus(R[x], InnerProduct(R[x], M[n - 1])))
    <3>1. R[x] \in IntRow
      BY <1>1 DEF MatrixOf
    <3>2. InnerProduct(R[x], M[n - 1]) \in Int
      BY <2>1, <3>1, InnerProductInt
    <3> QED BY <3>1, <3>2, StatusOnly
  <2> QED BY <2>2, <2>3 DEF MatrixOf
<1> QED BY <1>3, <1>4

\* A call of Chernikova establishes the invariant of Chernikova_proof when
\* the lines and rays given satisfy the constraints said to be processed:
\* BuildSat has set exactly the bits of the products that are not zero.
LEMMA ChernikovaCalled ==
  ASSUME NEW M, IsMatrix(M), NEW R, IsMatrix(R), NEW lines \in 0..Length(R),
         NEW workspace \in Nat, Length(R) <= workspace, NEW first \in 0..Length(M), NEW d \in BOOLEAN,
         CallChernikova(M, R, lines, workspace, first, d),
         \A x \in 0 .. lines - 1 : InLineality(R[x], M, 0 .. first - 1, d),
         \A x \in lines .. Length(R) - 1 : InCone(R[x], M, 0 .. first - 1, d)
  PROVE  ChernikovaInv' /\ pc' = "head" /\ Mat' = M /\ dual' = d
<1> DEFINE E == Evaluated(M, R, first)
           n == Length(R)
           m == Length(M)
<1>1. /\ pc' = "head" /\ Mat' = M /\ Ray' = E /\ Sat' = BuiltSat(M, R, first)
      /\ NbRay' = n /\ NbBid' = lines /\ NbMaxRays' = workspace /\ k' = first
      /\ jx' = first \div WSIZE /\ bx' = first % WSIZE /\ dual' = d
      /\ i' = 0 /\ j' = 0 /\ bound' = 0
      /\ equal_bound' = 0 /\ sup_bound' = 0 /\ inf_bound' = 0
  BY DEF CallChernikova
<1>2. n \in Nat /\ R \in MatrixOf(n) /\ m \in Nat /\ M \in MatrixOf(m)
  BY MatrixIs
<1>3. E \in MatrixOf(n) /\ \A x \in 0 .. n - 1 : SameCoordinates(R[x], E[x])
  BY EvaluatedIs
<1> HIDE DEF E
<1>4. NbConstraints' = m
  BY <1>1 DEF NbConstraints, Length
<1> HIDE DEF n, m
<1>5. first \in 0..m /\ lines \in 0..n /\ n <= workspace
  BY DEF n, m
<1>6. WSIZE \in Nat \ {0} /\ first \in Nat
  BY <1>2, <1>5, WSIZEAssumption
<1>7. first \div WSIZE \in Nat /\ first % WSIZE \in 0 .. WSIZE - 1
        /\ first = (first \div WSIZE) * WSIZE + (first % WSIZE)
  <2>1. first = WSIZE * (first \div WSIZE) + (first % WSIZE) /\ first \div WSIZE \in Int
    BY <1>6, Quotient
  <2>2. first % WSIZE \in 0 .. WSIZE - 1
    BY <1>6
  <2>3. first \div WSIZE >= 0
    BY <1>6
  <2>4. WSIZE * (first \div WSIZE) = (first \div WSIZE) * WSIZE
    BY <1>6, <2>1
  <2> QED BY <2>1, <2>2, <2>3, <2>4
<1>8. DOMAIN Sat' = 0 .. n - 1
  BY <1>1, <1>2 DEF BuiltSat, MatrixOf
<1>9. ChernikovaTyped'
  BY <1>1, <1>2, <1>3, <1>4, <1>5, <1>6, <1>7, <1>8 DEF ChernikovaTyped, MatrixOf
<1>10. Before' = 0 .. first - 1
  BY <1>1 DEF Before
<1>11. HasRows(M, 0 .. first - 1)
  BY <1>2, <1>5 DEF HasRows, MatrixOf
<1>12. ASSUME NEW x \in 0 .. n - 1
       PROVE  /\ InCone(E[x], M, 0 .. first - 1, d) <=> InCone(R[x], M, 0 .. first - 1, d)
              /\ InLineality(E[x], M, 0 .. first - 1, d) <=> InLineality(R[x], M, 0 .. first - 1, d)
              /\ Unsaturated(E[x], M, 0 .. first - 1) = Unsaturated(R[x], M, 0 .. first - 1)
  <2>1. R[x] \in IntRow /\ E[x] \in IntRow /\ SameCoordinates(R[x], E[x])
    BY <1>2, <1>3 DEF MatrixOf
  <2> QED BY <1>11, <2>1, StatusIrrelevant
<1>13. Verified'
  <2>1. (\A x \in 0 .. lines - 1 : x \in 0 .. n - 1) /\ (\A x \in lines .. n - 1 : x \in 0 .. n - 1)
    BY <1>2, <1>5
  <2>2. \A x \in 0 .. lines - 1 : InLineality(E[x], M, 0 .. first - 1, d)
    BY <1>12, <2>1
  <2>3. \A x \in lines .. n - 1 : InCone(E[x], M, 0 .. first - 1, d)
    BY <1>12, <2>1 DEF n
  <2> QED BY <1>1, <1>10, <2>2, <2>3 DEF Verified
<1>14. BitsExact'
  <2>1. ASSUME NEW x \in 0 .. n - 1 PROVE Sat'[x] = BitsOf(Unsaturated(E[x], M, 0 .. first - 1))
    <3>1. Sat'[x] = {BitOf(c) : c \in {e \in 0 .. first - 1 : InnerProduct(R[x], M[e]) # 0}}
      BY <1>1, <1>2 DEF BuiltSat, MatrixOf
    <3> QED BY <1>12, <3>1 DEF BitsOf, BitOf, BitAt, Unsaturated
  <2>2. \A x : Marks(x)' = {}
    BY <1>1 DEF Marks
  <2>3. \A A : A \cup {} = A
    OBVIOUS
  <2> QED BY <1>1, <1>10, <2>1, <2>2, <2>3 DEF BitsExact
<1>15. StatusExact' /\ InPhase'
  BY <1>1 DEF StatusExact, InPhase
<1> QED BY <1>1, <1>9, <1>13, <1>14, <1>15 DEF ChernikovaInv

\* The work space is large enough for the rows given.
LEMMA MaxIs == \A a, b \in Nat : Max2(a, b) \in Nat /\ a <= Max2(a, b) /\ b <= Max2(a, b)
  BY DEF Max2

\* The two descriptions as Chernikova sees them: the rays against the constraints.
LEMMA RaysReady ==
  ASSUME NEW P, IsPolyhedron(P), PolSound(P), NEW M, NEW n, n = Length(P.Constraint),
         \A c \in 0 .. n - 1 : M[c] = P.Constraint[c]
  PROVE  /\ \A x \in 0 .. P.NbBid - 1 : InLineality(P.Ray[x], M, 0 .. n - 1, FALSE)
         /\ \A x \in P.NbBid .. Length(P.Ray) - 1 : InCone(P.Ray[x], M, 0 .. n - 1, FALSE)
<1> DEFINE m == Length(P.Ray)
           C == P.Constraint
           R == P.Ray
<1>1. /\ n \in Nat /\ m \in Nat /\ C \in MatrixOf(n) /\ R \in MatrixOf(m)
      /\ P.NbEq \in 0..n /\ P.NbBid \in 0..m
      /\ \A c \in P.NbEq .. n - 1 : C[c][0] = 1
  BY MatrixIs DEF IsPolyhedron
<1>2. ASSUME NEW x \in 0 .. m - 1
      PROVE  /\ Inside(R[x], x < P.NbBid)
             /\ \A c \in 0 .. n - 1 : Agree(R[x], C[c], c < P.NbEq \/ x < P.NbBid)
  BY <1>1 DEF PolSound, MatrixOf
<1> HIDE DEF m, C, R
<1>3. \A c \in 0 .. n - 1 : M[c] = C[c]
  BY DEF C
<1>4. ASSUME NEW x \in 0 .. P.NbBid - 1 PROVE InLineality(R[x], M, 0 .. n - 1, FALSE)
  <2>1. x \in 0 .. m - 1 /\ x < P.NbBid
    BY <1>1
  <2> QED BY <1>2, <1>3, <2>1 DEF InLineality, Inside, Agree
<1>5. ASSUME NEW x \in P.NbBid .. m - 1 PROVE InCone(R[x], M, 0 .. n - 1, FALSE)
  <2>1. x \in 0 .. m - 1 /\ ~(x < P.NbBid)
    BY <1>1
  <2>2. ASSUME NEW c \in 0 .. n - 1 PROVE Verifies(R[x], M[c])
    <3>1. c < P.NbEq \/ C[c][0] = 1
      BY <1>1
    <3>2. Agree(R[x], C[c], c < P.NbEq \/ x < P.NbBid)
      BY <1>2, <2>1
    <3> QED BY <1>3, <2>1, <3>1, <3>2 DEF Agree, Verifies
  <2> QED BY <1>2, <2>1, <2>2 DEF InCone, Inside
<1> QED BY <1>4, <1>5 DEF m, R

\* The constraints against the rays.
LEMMA ConstraintsReady ==
  ASSUME NEW P, IsPolyhedron(P), PolSound(P), NEW M, NEW n, n = Length(P.Ray),
         \A c \in 0 .. n - 1 : M[c] = P.Ray[c]
  PROVE  /\ \A x \in 0 .. P.NbEq - 1 : InLineality(P.Constraint[x], M, 0 .. n - 1, TRUE)
         /\ \A x \in P.NbEq .. Length(P.Constraint) - 1 : InCone(P.Constraint[x], M, 0 .. n - 1, TRUE)
<1> DEFINE m == Length(P.Constraint)
           C == P.Constraint
           R == P.Ray
<1>1. /\ n \in Nat /\ m \in Nat /\ C \in MatrixOf(m) /\ R \in MatrixOf(n)
      /\ P.NbEq \in 0..m /\ P.NbBid \in 0..n
      /\ \A r \in P.NbBid .. n - 1 : R[r][0] = 1
  BY MatrixIs DEF IsPolyhedron
<1>2. ASSUME NEW r \in 0 .. n - 1, NEW x \in 0 .. m - 1
      PROVE  /\ InnerProduct(C[x], R[r]) \in Int
             /\ IF x < P.NbEq \/ r < P.NbBid THEN InnerProduct(C[x], R[r]) = 0
                                             ELSE InnerProduct(C[x], R[r]) >= 0
  <2>1. Agree(R[r], C[x], x < P.NbEq \/ r < P.NbBid)
    BY <1>1 DEF PolSound, MatrixOf
  <2>2. R[r] \in IntRow /\ C[x] \in IntRow
    BY <1>1 DEF MatrixOf
  <2> HIDE DEF C, R
  <2>3. InnerProduct(C[x], R[r]) = InnerProduct(R[r], C[x]) /\ InnerProduct(C[x], R[r]) \in Int
    BY <2>2, InnerProductSymmetric, InnerProductInt
  <2> QED BY <2>1, <2>3 DEF Agree
<1> HIDE DEF m, C, R
<1>3. \A c \in 0 .. n - 1 : M[c] = R[c]
  BY DEF R
<1>4. ASSUME NEW x \in 0 .. P.NbEq - 1 PROVE InLineality(C[x], M, 0 .. n - 1, TRUE)
  <2>1. x \in 0 .. m - 1 /\ x < P.NbEq
    BY <1>1
  <2> QED BY <1>2, <1>3, <2>1 DEF InLineality
<1>5. ASSUME NEW x \in P.NbEq .. m - 1 PROVE InCone(C[x], M, 0 .. n - 1, TRUE)
  <2>1. x \in 0 .. m - 1 /\ ~(x < P.NbEq)
    BY <1>1
  <2>2. ASSUME NEW c \in 0 .. n - 1 PROVE Verifies(C[x], M[c])
    <3>1. c < P.NbBid \/ R[c][0] = 1
      BY <1>1
    <3> QED BY <1>2, <1>3, <2>1, <3>1 DEF Verifies
  <2> QED BY <2>2 DEF InCone
<1> QED BY <1>4, <1>5 DEF m, C

\* AddConstraints, SubConstraint and SimplifyConstraints start Chernikova on
\* the rays of P, which satisfy the constraints of P.
LEMMA ConstrainCalled ==
  ASSUME NEW P, IsPolyhedron(P), PolSound(P), NEW given, IsMatrix(given), NEW w \in Nat,
         Constrain(P, given, w)
  PROVE  ChernikovaInv' /\ pc' = "head" /\ ~dual'
<1> DEFINE M == Stacked(P.Constraint, given)
           n == Length(P.Constraint)
<1>1. IsMatrix(P.Constraint) /\ IsMatrix(P.Ray) /\ P.NbBid \in 0..Length(P.Ray) /\ n \in Nat
        /\ Length(P.Ray) \in Nat /\ Length(given) \in Nat
  BY MatrixIs DEF IsPolyhedron
<1>2. IsMatrix(M) /\ Length(M) = n + Length(given) /\ \A c \in 0 .. n - 1 : M[c] = P.Constraint[c]
  BY <1>1, StackedIs
<1>3. CallChernikova(M, P.Ray, P.NbBid, Max2(Length(P.Ray), w), n, FALSE)
  BY DEF Constrain
<1>4. Max2(Length(P.Ray), w) \in Nat /\ Length(P.Ray) <= Max2(Length(P.Ray), w)
  BY <1>1, MaxIs
<1>5. n = Length(P.Constraint)
  OBVIOUS
<1> HIDE DEF M, n
<1>6. n \in 0..Length(M)
  BY <1>1, <1>2
<1>7. /\ \A x \in 0 .. P.NbBid - 1 : InLineality(P.Ray[x], M, 0 .. n - 1, FALSE)
      /\ \A x \in P.NbBid .. Length(P.Ray) - 1 : InCone(P.Ray[x], M, 0 .. n - 1, FALSE)
  BY <1>2, <1>5, RaysReady
<1> QED BY <1>1, <1>2, <1>3, <1>4, <1>6, <1>7, ChernikovaCalled

\* AddRays starts it on the constraints of P, which the rays of P satisfy.
LEMMA AddRaysCalled ==
  ASSUME NEW P, IsPolyhedron(P), PolSound(P), NEW given, IsMatrix(given), Upward(given), NEW w \in Nat,
         CallChernikova(Stacked(P.Ray, given), P.Constraint, P.NbEq,
                        Max2(w, Length(P.Constraint)), Length(P.Ray), TRUE)
  PROVE  ChernikovaInv' /\ pc' = "head" /\ Upward(Mat')
<1> DEFINE M == Stacked(P.Ray, given)
           n == Length(P.Ray)
<1>1. IsMatrix(P.Constraint) /\ IsMatrix(P.Ray) /\ P.NbEq \in 0..Length(P.Constraint) /\ n \in Nat
        /\ Length(P.Constraint) \in Nat /\ Length(given) \in Nat
  BY MatrixIs DEF IsPolyhedron
<1>2. IsMatrix(M) /\ Length(M) = n + Length(given) /\ \A c \in 0 .. n - 1 : M[c] = P.Ray[c]
  BY <1>1, StackedIs
<1>3. \A x \in DOMAIN M : (\E y \in DOMAIN P.Ray : M[x] = P.Ray[y]) \/ (\E y \in DOMAIN given : M[x] = given[y])
  BY <1>1, StackedIs
<1>4. CallChernikova(M, P.Constraint, P.NbEq, Max2(w, Length(P.Constraint)), n, TRUE)
  OBVIOUS
<1>5. Max2(w, Length(P.Constraint)) \in Nat /\ Length(P.Constraint) <= Max2(w, Length(P.Constraint))
  BY <1>1, MaxIs
<1>6. n = Length(P.Ray)
  OBVIOUS
<1> HIDE DEF M, n
<1>7. n \in 0..Length(M)
  BY <1>1, <1>2
<1>8. /\ \A x \in 0 .. P.NbEq - 1 : InLineality(P.Constraint[x], M, 0 .. n - 1, TRUE)
      /\ \A x \in P.NbEq .. Length(P.Constraint) - 1 : InCone(P.Constraint[x], M, 0 .. n - 1, TRUE)
  BY <1>2, <1>6, ConstraintsReady
<1>9. ChernikovaInv' /\ pc' = "head" /\ Mat' = M
  BY <1>1, <1>2, <1>4, <1>5, <1>7, <1>8, ChernikovaCalled
<1>10. Upward(M)
  <2>1. \A y \in DOMAIN P.Ray : P.Ray[y][Dimension] >= 0
    <3>1. ASSUME NEW y \in DOMAIN P.Ray PROVE P.Ray[y][Dimension] >= 0
      <4>1. Inside(P.Ray[y], y < P.NbBid)
        BY DEF PolSound
      <4> QED BY <4>1 DEF Inside
    <3> QED BY <3>1
  <2>2. \A y \in DOMAIN given : given[y][Dimension] >= 0
    BY DEF Upward
  <2> QED BY <1>3, <2>1, <2>2 DEF Upward
<1> QED BY <1>9, <1>10

\* The lines and the vertex, or the equalities, a construction starts from.
LEMMA UnitMatrices ==
  /\ IsMatrix(UnitRays) /\ Length(UnitRays) = Dimension
  /\ \A x \in 0 .. Dimension - 1 : UnitRays[x] = UnitRow(IF x = Dimension - 1 THEN 1 ELSE 0, x)
  /\ IsMatrix(UnitLines) /\ Length(UnitLines) = Dimension
<1>1. Dimension \in Nat
  BY DimensionAssumption
<1>2. \A x \in 0 .. Dimension - 1 : UnitRow(1, x) \in IntRow /\ UnitRow(0, x) \in IntRow
  BY UnitRowIs
<1>3. UnitRays \in MatrixOf(Dimension)
  BY <1>2 DEF UnitRays, MatrixOf
<1>4. UnitLines \in MatrixOf(Dimension)
  BY <1>2 DEF UnitLines, MatrixOf
<1> QED BY <1>1, <1>3, <1>4, LengthIs DEF UnitRays

\* Constraints2Polyhedron starts with no constraint processed and lines whose
\* last coordinate is zero, ...
LEMMA Constraints2Called ==
  ASSUME NEW M, IsMatrix(M), NEW w \in Nat,
         CallChernikova(M, UnitRays, Dimension - 1, Max2(Dimension, w), 0, FALSE)
  PROVE  ChernikovaInv' /\ pc' = "head" /\ ~dual'
<1>1. Dimension \in Nat /\ Dimension >= 2 /\ Dimension - 1 \in 0..Dimension
  BY DimensionAssumption
<1>2. Max2(Dimension, w) \in Nat /\ Dimension <= Max2(Dimension, w)
  BY <1>1, MaxIs
<1>3. Length(M) \in Nat /\ 0 \in 0..Length(M)
  BY MatrixIs
<1>4. ASSUME NEW x \in 0 .. Dimension - 1
      PROVE  UnitRays[x][Dimension] = IF x = Dimension - 1 THEN 1 ELSE 0
  BY UnitMatrices, UnitRowIs
<1>5. \A x \in 0 .. (Dimension - 1) - 1 : InLineality(UnitRays[x], M, 0 .. 0 - 1, FALSE)
  BY <1>1, <1>4 DEF InLineality
<1>6. \A x \in Dimension - 1 .. Dimension - 1 : InCone(UnitRays[x], M, 0 .. 0 - 1, FALSE)
  BY <1>1, <1>4 DEF InCone
<1> QED BY <1>1, <1>2, <1>3, <1>5, <1>6, UnitMatrices, ChernikovaCalled

\* ... Rays2Polyhedron with no ray processed.
LEMMA Rays2Called ==
  ASSUME NEW R, IsMatrix(R), Upward(R), NEW w \in Nat,
         CallChernikova(R, UnitLines, Dimension, Max2(Dimension, w), 0, TRUE)
  PROVE  ChernikovaInv' /\ pc' = "head" /\ Upward(Mat')
<1>1. Dimension \in Nat /\ Dimension >= 2 /\ Dimension \in 0..Dimension
  BY DimensionAssumption
<1>2. Max2(Dimension, w) \in Nat /\ Dimension <= Max2(Dimension, w)
  BY <1>1, MaxIs
<1>3. Length(R) \in Nat /\ 0 \in 0..Length(R)
  BY MatrixIs
<1>4. \A x \in 0 .. Dimension - 1 : InLineality(UnitLines[x], R, 0 .. 0 - 1, TRUE)
  BY <1>1 DEF InLineality
<1>5. \A x \in Dimension .. Dimension - 1 : InCone(UnitLines[x], R, 0 .. 0 - 1, TRUE)
  BY <1>1 DEF InCone
<1>6. ChernikovaInv' /\ pc' = "head" /\ Mat' = R
  BY <1>1, <1>2, <1>3, <1>4, <1>5, UnitMatrices, ChernikovaCalled
<1> QED BY <1>6

\* The row SubConstraint adds is an integer row.
LEMMA InvertedIs ==
  ASSUME NEW Con \in Constraints, NEW Pass \in 0..3
  PROVE  IsMatrix([x \in {0} |-> Inverted(Con, Pass)])
<1>1. Con \in IntRow
  BY ConstraintsAssumption DEF IntRow
<1>2. Opposite(Con) \in IntRow
  BY <1>1, OppositeRow
<1> DEFINE p == IF Pass \in {0, 2} THEN Opposite(Con) ELSE Con
           q == Inverted(Con, Pass)
<1>3. p \in IntRow
  BY <1>1, <1>2
<1>4. q = [p EXCEPT ![0] = 1, ![Dimension] = IF Pass \in {0, 1} THEN @ - 1 ELSE @]
  BY DEF Inverted
<1> HIDE DEF p, q
<1>5. q \in IntRow
  BY <1>3, <1>4, DimensionAssumption DEF IntRow
<1>6. [x \in {0} |-> q] \in MatrixOf(1)
  <2>1. 0 .. 1 - 1 = {0}
    OBVIOUS
  <2> QED BY <1>5, <2>1 DEF MatrixOf
<1>7. IsMatrix([x \in {0} |-> q])
  BY <1>6, LengthIs
<1> QED BY <1>7 DEF q

\* Each of the six functions, called on a sound polyhedron, enters Chernikova
\* in a state its invariant describes.
LEMMA CallStep ==
  ASSUME pc = "reduced", IsPolyhedron(Pol), PolSound(Pol), IsMatrix(Arg.Constraint),
         \/ Constraints2Polyhedron \/ Rays2Polyhedron \/ AddConstraints
         \/ SimplifyConstraints \/ SubConstraint \/ AddRays
  PROVE  Computing' /\ IsMatrix(Arg.Constraint)'
<1>1. ASSUME NEW name, NEW given, Call(name, given) PROVE IsMatrix(Arg.Constraint)'
  <2>1. Arg' = Pol
    BY <1>1 DEF Call
  <2> QED BY <2>1 DEF IsPolyhedron
<1>2. WorkSpaces \subseteq Nat
  BY WorkSpacesAssumption
<1>3. ASSUME NEW R \in RayMatrices PROVE IsMatrix(R) /\ Upward(R)
  BY RaysAssumption DEF Upward
<1>4. CASE Constraints2Polyhedron
  <2>1. PICK M \in ConstraintMatrices, w \in WorkSpaces :
          /\ Call("Constraints2Polyhedron", M)
          /\ CallChernikova(M, UnitRays, Dimension - 1, Max2(Dimension, w), 0, FALSE)
    BY <1>4 DEF Constraints2Polyhedron
  <2>2. IsMatrix(M) /\ w \in Nat
    BY <1>2, ConstraintsAssumption
  <2> QED BY <1>1, <2>1, <2>2, Constraints2Called DEF Computing
<1>5. CASE Rays2Polyhedron
  <2>1. PICK R \in RayMatrices, w \in WorkSpaces :
          /\ Call("Rays2Polyhedron", R)
          /\ CallChernikova(R, UnitLines, Dimension, Max2(Dimension, w), 0, TRUE)
    BY <1>5 DEF Rays2Polyhedron
  <2>2. w \in Nat
    BY <1>2
  <2> QED BY <1>1, <1>3, <2>1, <2>2, Rays2Called DEF Computing
<1>6. CASE AddConstraints
  <2>1. PICK M \in ConstraintMatrices, w \in WorkSpaces :
          Call("AddConstraints", M) /\ Constrain(Pol, M, w)
    BY <1>6 DEF AddConstraints
  <2>2. IsMatrix(M) /\ w \in Nat
    BY <1>2, ConstraintsAssumption
  <2> QED BY <1>1, <2>1, <2>2, ConstrainCalled DEF Computing
<1>7. CASE SimplifyConstraints
  <2>1. PICK w \in WorkSpaces :
          Call("SimplifyConstraints", Arg.Constraint) /\ Constrain(Pol, Arg.Constraint, w)
    BY <1>7 DEF SimplifyConstraints
  <2>2. w \in Nat
    BY <1>2
  <2> QED BY <1>1, <2>1, <2>2, ConstrainCalled DEF Computing
<1>8. CASE SubConstraint
  <2>1. PICK Con \in Constraints, Pass \in 0..3, w \in WorkSpaces :
          /\ Call("SubConstraint", [x \in 0..1 |-> IF x = 0 THEN Con ELSE WithStatus(Con, Pass)])
          /\ Constrain(Pol, [x \in {0} |-> Inverted(Con, Pass)], w)
    BY <1>8 DEF SubConstraint
  <2>2. w \in Nat
    BY <1>2
  <2>3. IsMatrix([x \in {0} |-> Inverted(Con, Pass)])
    BY InvertedIs
  <2> QED BY <1>1, <2>1, <2>2, <2>3, ConstrainCalled DEF Computing
<1>9. CASE AddRays
  <2>1. PICK R \in RayMatrices, w \in WorkSpaces :
          /\ Call("AddRays", R)
          /\ CallChernikova(Stacked(Pol.Ray, R), Pol.Constraint, Pol.NbEq,
                            Max2(w, Length(Pol.Constraint)), Length(Pol.Ray), TRUE)
    BY <1>9 DEF AddRays
  <2>2. w \in Nat
    BY <1>2
  <2> QED BY <1>1, <1>3, <2>1, <2>2, AddRaysCalled DEF Computing
<1> QED BY <1>4, <1>5, <1>6, <1>7, <1>8, <1>9

-----------------------------------------------------------------------------
(* Remove_Redundants: what is known of the n rows of R, the m rows of M    *)
(* and the saturation rows S, where b maps a row of M to its bit.          *)
Matched(R, n, M, m, S, b) ==
  \A r \in 0 .. n - 1, c \in 0 .. m - 1 :
    /\ InnerProduct(R[r], M[c]) >= 0
    /\ b[c] \notin S[r] <=> InnerProduct(R[r], M[c]) = 0

\* The bits as step 0 numbers them.
FirstBits == [c \in ConstraintRows |-> BitAt(c)]

\* The matrices of Remove_Redundants; no ray has a negative last coordinate.
ReduceTyped ==
  /\ NbConstraints \in Nat /\ Mat \in MatrixOf(NbConstraints)
  /\ NbRay \in Nat /\ Ray \in MatrixOf(NbRay) /\ Upward(Ray)
  /\ DOMAIN Sat = AllRays

\* Before step 0: bits are zero exactly where products are, and no product is
\* negative.
InStep0 == ReduceTyped /\ Matched(Ray, NbRay, Mat, NbConstraints, Sat, FirstBits)

\* What the invariant of Chernikova says when all constraints are processed:
\* the products have one sign, and the bits are those of the products.
LEMMA ReturnedFacts ==
  ASSUME ChernikovaInv, Returned, NEW r \in 0 .. NbRay - 1, NEW c \in 0 .. NbConstraints - 1
  PROVE  /\ InnerProduct(Ray[r], Mat[c]) >= 0
         /\ BitAt(c) \notin Sat[r] <=> InnerProduct(Ray[r], Mat[c]) = 0
         /\ Ray[r] \in IntRow /\ Mat[c] \in IntRow
<1>1. ChernikovaTyped /\ Verified /\ BitsExact /\ pc = "head" /\ k = NbConstraints
  BY DEF ChernikovaInv, Returned
<1>2. NbBid \in 0..NbRay /\ NbRay \in Nat /\ Before = 0 .. NbConstraints - 1
        /\ Ray[r] \in IntRow /\ Mat[c] \in IntRow
  BY <1>1 DEF ChernikovaTyped, Before
<1>3. InnerProduct(Ray[r], Mat[c]) \in Int
  BY <1>2, InnerProductInt
<1>4. InnerProduct(Ray[r], Mat[c]) >= 0
  <2>1. CASE r < NbBid
    <3>1. r \in 0 .. NbBid - 1
      BY <1>2, <2>1
    <3>2. InnerProduct(Ray[r], Mat[c]) = 0
      BY <1>1, <1>2, <3>1 DEF Verified, InLineality
    <3> QED BY <3>2
  <2>2. CASE ~(r < NbBid)
    <3>1. r \in NbBid .. NbRay - 1
      BY <1>2, <2>2
    <3>2. Verifies(Ray[r], Mat[c])
      BY <1>1, <1>2, <3>1 DEF Verified, InCone
    <3> QED BY <1>3, <3>2 DEF Verifies
  <2> QED BY <2>1, <2>2
<1> DEFINE U == Unsaturated(Ray[r], Mat, Before)
<1>5. Sat[r] = BitsOf(U)
  <2>1. Marks(r) = {}
    BY <1>1 DEF Marks
  <2>2. Sat[r] = BitsOf(U \cup Marks(r))
    BY <1>1 DEF BitsExact
  <2> QED BY <2>1, <2>2
<1>6. c \in U <=> InnerProduct(Ray[r], Mat[c]) # 0
  BY <1>2 DEF Unsaturated
<1>7. U \subseteq Int /\ c \in Int
  BY <1>2 DEF Unsaturated
<1> HIDE DEF U
<1>8. BitAt(c) \in Sat[r] <=> c \in U
  BY <1>5, <1>7, BitAtInjective DEF BitsOf
<1> QED BY <1>2, <1>4, <1>6, <1>8

\* Remove_Redundants after a primal run: these are rays against constraints.
LEMMA ReducePrimalStep ==
  ASSUME ChernikovaInv, ReducePrimal
  PROVE  pc' = "step0" /\ InStep0' /\ UNCHANGED Arg
<1>1. Returned /\ ~dual /\ pc' = "step0" /\ UNCHANGED <<Mat, Ray, Sat, NbBid, NbRay, Arg>>
  BY DEF ReducePrimal, CallUnchanged, callVars
<1>2. ChernikovaTyped /\ Verified
  BY DEF ChernikovaInv
<1>3. ASSUME NEW r \in 0 .. NbRay - 1 PROVE Ray[r][Dimension] >= 0
  <2>1. NbBid \in 0..NbRay /\ NbRay \in Nat
    BY <1>2 DEF ChernikovaTyped
  <2>2. r \in 0 .. NbBid - 1 \/ r \in NbBid .. NbRay - 1
    BY <2>1
  <2> QED BY <1>1, <1>2, <2>2 DEF Verified, InCone, InLineality
<1>4. ReduceTyped
  BY <1>2, <1>3 DEF ReduceTyped, ChernikovaTyped, Upward, AllRays, MatrixOf
<1>5. Matched(Ray, NbRay, Mat, NbConstraints, Sat, FirstBits)
  BY <1>1, ReturnedFacts DEF Matched, FirstBits, ConstraintRows
<1>6. InStep0
  BY <1>4, <1>5 DEF InStep0
<1>7. NbConstraints' = NbConstraints /\ FirstBits' = FirstBits /\ AllRays' = AllRays
  BY <1>1 DEF NbConstraints, FirstBits, ConstraintRows, AllRays
<1> QED BY <1>1, <1>6, <1>7 DEF InStep0, ReduceTyped

\* After a dual run the matrices change their roles and TransformSat has
\* transposed the bits.
LEMMA ReduceDualStep ==
  ASSUME ChernikovaInv, Upward(Mat), ReduceDual
  PROVE  pc' = "step0" /\ InStep0' /\ UNCHANGED Arg
<1>1. Returned /\ pc' = "step0" /\ Mat' = Ray /\ Ray' = Mat
        /\ Sat' = Transformed(Sat, NbConstraints, NbRay) /\ NbRay' = NbConstraints /\ UNCHANGED Arg
  BY DEF ReduceDual, CallUnchanged, callVars
<1>2. /\ NbConstraints \in Nat /\ Mat \in MatrixOf(NbConstraints)
      /\ NbRay \in Nat /\ Ray \in MatrixOf(NbRay)
  BY DEF ChernikovaInv, ChernikovaTyped, MatrixOf
<1>3. NbConstraints' = NbRay
  BY <1>1, <1>2, LengthIs DEF NbConstraints, Length
<1>4. DOMAIN Sat' = 0 .. NbConstraints - 1
  BY <1>1 DEF Transformed
<1>5. ReduceTyped'
  BY <1>1, <1>2, <1>3, <1>4 DEF ReduceTyped, AllRays
<1>6. ASSUME NEW r \in 0 .. NbConstraints - 1, NEW c \in 0 .. NbRay - 1
      PROVE  /\ InnerProduct(Mat[r], Ray[c]) >= 0
             /\ BitAt(c) \notin Sat'[r] <=> InnerProduct(Mat[r], Ray[c]) = 0
  <2>1. /\ InnerProduct(Ray[c], Mat[r]) >= 0
        /\ BitAt(r) \notin Sat[c] <=> InnerProduct(Ray[c], Mat[r]) = 0
        /\ Ray[c] \in IntRow /\ Mat[r] \in IntRow
    BY <1>1, ReturnedFacts
  <2>2. InnerProduct(Mat[r], Ray[c]) = InnerProduct(Ray[c], Mat[r])
    BY <2>1, InnerProductSymmetric
  <2>3. Sat'[r] = {BitOf(e) : e \in {d \in 0 .. NbRay - 1 : BitOf(r) \in Sat[d]}}
    BY <1>1 DEF Transformed
  <2>4. Sat'[r] = BitsOf({d \in 0 .. NbRay - 1 : BitAt(r) \in Sat[d]})
    BY <2>3 DEF BitsOf, BitOf, BitAt
  <2>5. \A e \in 0 .. NbRay - 1 : BitAt(e) = BitAt(c) => e = c
    BY BitAtInjective
  <2>6. BitAt(c) \in Sat'[r] <=> BitAt(r) \in Sat[c]
    BY <2>4, <2>5 DEF BitsOf
  <2> QED BY <2>1, <2>2, <2>6
<1>7. \A c \in 0 .. NbRay - 1 : FirstBits'[c] = BitAt(c)
  BY <1>3 DEF FirstBits, ConstraintRows
<1>8. Matched(Mat, NbConstraints, Ray, NbRay, Sat', FirstBits')
  BY <1>6, <1>7 DEF Matched
<1>9. Matched(Ray', NbRay', Mat', NbConstraints', Sat', FirstBits')
  BY <1>1, <1>3, <1>8
<1> QED BY <1>1, <1>5, <1>9 DEF InStep0

-----------------------------------------------------------------------------
(* Subsets of an interval, and rows whose status words change.             *)

\* A set of row numbers counts at most the rows; when it counts them all it
\* is all of them.  So a count, which is all that the status words keep, says
\* that every ray saturates a constraint.
LEMMA PartOfRange ==
  ASSUME NEW n \in Nat, NEW S, S \subseteq 0 .. n - 1
  PROVE  /\ IsFiniteSet(S) /\ Cardinality(S) \in 0..n
         /\ Cardinality(S) = n => S = 0 .. n - 1
<1>1. IsFiniteSet(0 .. n - 1)
  <2>1. 0 \in Int /\ n - 1 \in Int
    OBVIOUS
  <2> QED BY <2>1, FS_Interval
<1>2. Cardinality(0 .. n - 1) = n
  BY CountTo
<1>3. IsFiniteSet(S) /\ Cardinality(S) <= n /\ (Cardinality(S) = n => S = 0 .. n - 1)
  BY <1>1, <1>2, FS_Subset
<1>4. Cardinality(S) \in Nat
  BY <1>3, FS_CardinalityType
<1> QED BY <1>3, <1>4

\* Q is R but for the status words.
Same(R, Q, n) ==
  R \in MatrixOf(n) /\ Q \in MatrixOf(n) /\ \A r \in 0 .. n - 1 : SameCoordinates(R[r], Q[r])

\* Rows whose status words alone change, ...
LEMMA SameRows ==
  ASSUME NEW n \in Nat, NEW R \in MatrixOf(n), NEW Q, Q = [r \in 0 .. n - 1 |-> Q[r]],
         \A r \in 0 .. n - 1 : Q[r] = R[r] \/ \E s \in Int : Q[r] = WithStatus(R[r], s)
  PROVE  Same(R, Q, n)
<1>1. ASSUME NEW r \in 0 .. n - 1 PROVE Q[r] \in IntRow /\ SameCoordinates(R[r], Q[r])
  <2>1. R[r] \in IntRow
    BY DEF MatrixOf
  <2>2. CASE Q[r] = R[r]
    BY <2>1, <2>2 DEF SameCoordinates
  <2>3. CASE \E s \in Int : Q[r] = WithStatus(R[r], s)
    BY <2>1, <2>3, StatusOnly
  <2> QED BY <2>2, <2>3
<1>2. Q \in MatrixOf(n)
  BY <1>1 DEF MatrixOf
<1> QED BY <1>1, <1>2 DEF Same

\* ... keep their products and last coordinates, ...
LEMMA SameProduct ==
  ASSUME NEW n \in Nat, NEW R, NEW Q, Same(R, Q, n), NEW r \in 0 .. n - 1,
         NEW m \in Nat, NEW M, NEW N, Same(M, N, m), NEW c \in 0 .. m - 1
  PROVE  /\ InnerProduct(Q[r], N[c]) = InnerProduct(R[r], M[c])
         /\ Q[r][Dimension] = R[r][Dimension]
<1>1. R[r] \in IntRow /\ Q[r] \in IntRow /\ M[c] \in IntRow /\ N[c] \in IntRow
  BY DEF Same, MatrixOf
<1>2. /\ \A e \in Coordinates : Q[r][e] = R[r][e]
      /\ \A e \in Coordinates : N[c][e] = M[c][e]
  BY DEF Same, SameCoordinates
<1>3. InnerProduct(Q[r], N[c]) = InnerProduct(R[r], N[c])
  BY <1>1, <1>2, InnerProductSame
<1>4. InnerProduct(N[c], R[r]) = InnerProduct(M[c], R[r])
  BY <1>1, <1>2, InnerProductSame
<1>5. InnerProduct(R[r], N[c]) = InnerProduct(R[r], M[c])
  BY <1>1, <1>4, InnerProductSymmetric
<1>6. Dimension \in Coordinates
  BY DimensionAssumption DEF Coordinates
<1> QED BY <1>2, <1>3, <1>5, <1>6

\* (a matrix is the same as itself) ...
LEMMA SameItself == ASSUME NEW n, NEW R \in MatrixOf(n) PROVE Same(R, R, n)
  BY DEF Same, SameCoordinates

\* ... still match the bits, ...
LEMMA MatchedSame ==
  ASSUME NEW n \in Nat, NEW R, NEW Q, Same(R, Q, n), NEW m \in Nat, NEW M, NEW N, Same(M, N, m),
         NEW S, NEW b, Matched(R, n, M, m, S, b)
  PROVE  Matched(Q, n, N, m, S, b)
<1>1. ASSUME NEW r \in 0 .. n - 1, NEW c \in 0 .. m - 1
      PROVE  /\ InnerProduct(Q[r], N[c]) >= 0
             /\ b[c] \notin S[r] <=> InnerProduct(Q[r], N[c]) = 0
  <2>1. InnerProduct(Q[r], N[c]) = InnerProduct(R[r], M[c])
    BY SameProduct
  <2> QED BY <2>1 DEF Matched
<1> QED BY <1>1 DEF Matched

\* ... and have no negative last coordinate.
LEMMA UpwardSame ==
  ASSUME NEW n \in Nat, NEW R, NEW Q, Same(R, Q, n), Upward(R)
  PROVE  Upward(Q)
<1>1. DOMAIN R = 0 .. n - 1 /\ DOMAIN Q = 0 .. n - 1
  BY DEF Same, MatrixOf
<1>2. Dimension \in Coordinates
  BY DimensionAssumption DEF Coordinates
<1>3. \A r \in 0 .. n - 1 : Q[r][Dimension] = R[r][Dimension]
  BY <1>2 DEF Same, SameCoordinates
<1> QED BY <1>1, <1>3 DEF Upward

-----------------------------------------------------------------------------
(* Steps 0 to 2.                                                           *)

\* The arrays jx and bx give every row of Mat its column of Sat.
BitsKnown == DOMAIN bits = ConstraintRows /\ Matched(Ray, NbRay, Mat, NbConstraints, Sat, bits)

\* The rows before n whose count is that of an equality, the rays whose count
\* is that of a line, the constraints before n that ray r saturates.
EqualitiesBefore(n) == {c \in 0 .. n - 1 : IsEquality(Mat[c])}
Lines == {r \in AllRays : SaturatesAll(Ray[r])}
SaturatedBefore(r, n) == {c \in 0 .. n - 1 : Saturates(r, c)}

\* The rows counted as equalities are saturated by all the rays, the rays
\* counted as lines are at infinity and saturate all the constraints.
EqualitiesKnown(n) ==
  /\ \A c \in EqualitiesBefore(n) : \A r \in AllRays : Saturates(r, c)
  /\ NbEq = Cardinality(EqualitiesBefore(n))

LinesKnown ==
  /\ NbBid = Cardinality(Lines)
  /\ \A r \in Lines : AtInfinity(Ray[r]) /\ \A c \in ConstraintRows : Saturates(r, c)

\* Step 1, at row j: what precedes has been counted.
InStep1 ==
  /\ ReduceTyped /\ BitsKnown
  /\ j \in 0..NbConstraints
  /\ EqualitiesKnown(j)
  /\ \A r \in AllRays : Ray[r][0] = Cardinality(SaturatedBefore(r, j))

\* goto empty leaves Empty_Polyhedron, which is sound: it has no rays.
LEMMA EmptyStep ==
  ASSUME GotoEmpty
  PROVE  pc' = "reduced" /\ IsPolyhedron(Pol') /\ PolSound(Pol')
<1> DEFINE C == [x \in 0 .. Dimension - 1 |-> UnitRow(0, x)]
<1>1. pc' = "reduced" /\ Pol'.Constraint = C /\ Pol'.Ray = EmptyMatrix /\ Pol'.NbEq = Dimension /\ Pol'.NbBid = 0
  BY DEF GotoEmpty, EmptyPolyhedron
<1>2. C \in MatrixOf(Dimension) /\ Dimension \in Nat
  BY UnitRowIs, DimensionAssumption DEF MatrixOf
<1> HIDE DEF C
<1>3. Length(C) = Dimension /\ IsMatrix(C)
  BY <1>2, LengthIs
<1>4. IsPolyhedron(Pol')
  BY <1>1, <1>2, <1>3, EmptyIs DEF IsPolyhedron
<1>5. PolSound(Pol')
  BY <1>1 DEF PolSound, EmptyMatrix
<1> QED BY <1>1, <1>4, <1>5

\* Step 0.
LEMMA ResetRaysStep ==
  ASSUME InStep0, ResetRays
  PROVE  GotoEmpty \/ (pc' = "step1" /\ InStep1' /\ Same(Ray, Ray', NbRay) /\ NbConstraints' = NbConstraints)
<1> SUFFICES ASSUME ~GotoEmpty
             PROVE  pc' = "step1" /\ InStep1' /\ Same(Ray, Ray', NbRay) /\ NbConstraints' = NbConstraints
  OBVIOUS
<1>1. /\ pc' = "step1" /\ Ray' = [r \in AllRays |-> WithStatus(Ray[r], 0)]
      /\ bits' = [c \in ConstraintRows |-> BitAt(c)] /\ j' = 0 /\ NbEq' = 0
      /\ UNCHANGED <<Mat, Sat, NbRay>>
  BY DEF ResetRays, BitAt
<1>2. /\ NbConstraints \in Nat /\ Mat \in MatrixOf(NbConstraints)
      /\ NbRay \in Nat /\ Ray \in MatrixOf(NbRay) /\ Upward(Ray)
      /\ DOMAIN Sat = AllRays
      /\ Matched(Ray, NbRay, Mat, NbConstraints, Sat, FirstBits)
  BY DEF InStep0, ReduceTyped
<1>3. NbConstraints' = NbConstraints /\ AllRays' = AllRays /\ ConstraintRows' = ConstraintRows
        /\ AllRays = 0 .. NbRay - 1 /\ bits' = FirstBits /\ DOMAIN bits' = ConstraintRows
  BY <1>1 DEF NbConstraints, AllRays, ConstraintRows, FirstBits
<1>4. Same(Ray, Ray', NbRay) /\ \A r \in AllRays : Ray'[r][0] = 0
  <2>1. \A r \in 0 .. NbRay - 1 : Ray'[r] = WithStatus(Ray[r], 0) /\ Ray[r] \in IntRow
    BY <1>1, <1>2, <1>3 DEF MatrixOf
  <2>2. Ray' = [r \in 0 .. NbRay - 1 |-> Ray'[r]]
    BY <1>1, <1>3
  <2>3. 0 \in Int
    OBVIOUS
  <2>4. Same(Ray, Ray', NbRay)
    BY <1>2, <2>1, <2>2, <2>3, SameRows
  <2> QED BY <1>3, <2>1, <2>3, <2>4, StatusOnly
<1>5. ReduceTyped'
  BY <1>1, <1>2, <1>3, <1>4, UpwardSame DEF ReduceTyped, Same
<1>6. BitsKnown'
  <2>1. Matched(Ray', NbRay, Mat, NbConstraints, Sat, FirstBits)
    BY <1>2, <1>4, SameItself, MatchedSame
  <2> QED BY <1>1, <1>3, <2>1 DEF BitsKnown
<1>7. EqualitiesKnown(j)' /\ \A r : SaturatedBefore(r, j)' = {}
  <2>1. EqualitiesBefore(j)' = {}
    BY <1>1 DEF EqualitiesBefore
  <2>2. \A r : SaturatedBefore(r, j)' = {}
    BY <1>1 DEF SaturatedBefore
  <2> QED BY <1>1, <2>1, <2>2, FS_EmptySet DEF EqualitiesKnown
<1>8. j' \in 0..NbConstraints'
  BY <1>1, <1>2, <1>3
<1>9. \A r \in AllRays' : Ray'[r][0] = Cardinality(SaturatedBefore(r, j)')
  BY <1>3, <1>4, <1>7, FS_EmptySet
<1> QED BY <1>1, <1>3, <1>4, <1>5, <1>6, <1>7, <1>8, <1>9 DEF InStep1

\* Rows of M move with their bits, rows of R with their saturation rows.
LEMMA MatchedMoved ==
  ASSUME NEW n, NEW R, NEW m, NEW M, NEW S, NEW b, Matched(R, n, M, m, S, b), NEW p, NEW N, NEW h,
         \A c \in 0 .. p - 1 : \E e \in 0 .. m - 1 : N[c] = M[e] /\ h[c] = b[e]
  PROVE  Matched(R, n, N, p, S, h)
BY DEF Matched

\* The same for the rows of R.
LEMMA MatchedRaysMoved ==
  ASSUME NEW n, NEW R, NEW m, NEW M, NEW S, NEW b, Matched(R, n, M, m, S, b), NEW Q, NEW T,
         \A r \in 0 .. n - 1 : \E e \in 0 .. n - 1 : Q[r] = R[e] /\ T[r] = S[e]
  PROVE  Matched(Q, n, M, m, T, b)
BY DEF Matched

\* The last row takes the place of row j.
RowRemoved ==
  /\ j \in 0 .. NbConstraints - 1 /\ NbConstraints' = NbConstraints - 1
  /\ \A c \in 0 .. NbConstraints - 2 : /\ Mat'[c] = Mat[Swapped(c, j, NbConstraints - 1)]
                                       /\ bits'[c] = bits[Swapped(c, j, NbConstraints - 1)]
  /\ \A c \in 0 .. j - 1 : Mat'[c] = Mat[c] /\ bits'[c] = bits[c]

\* Step 1, a positivity constraint: the last row and its bit take its place.
LEMMA RemovePositivityStep ==
  ASSUME pc = "step1", InStep1, RemovePositivity
  PROVE  GotoEmpty \/ (pc' = "step1" /\ InStep1' /\ RowRemoved)
<1> SUFFICES ASSUME ~GotoEmpty PROVE pc' = "step1" /\ InStep1' /\ RowRemoved
  OBVIOUS
<1> DEFINE m == NbConstraints
           last == m - 1
<1>1. /\ j <= last /\ pc' = "step1"
      /\ Mat' = Rows(Exchange(Mat, j, last), last)
      /\ bits' = Rows(Exchange(bits, j, last), last)
      /\ UNCHANGED <<Ray, Sat, NbRay, j, NbEq>>
  BY DEF RemovePositivity, counts
<1>2. /\ m \in Nat /\ Mat \in MatrixOf(m) /\ NbRay \in Nat /\ Ray \in MatrixOf(NbRay)
      /\ Upward(Ray) /\ DOMAIN Sat = AllRays /\ AllRays = 0 .. NbRay - 1
      /\ j \in 0..m /\ DOMAIN bits = 0 .. m - 1
      /\ Matched(Ray, NbRay, Mat, m, Sat, bits)
  BY DEF InStep1, ReduceTyped, BitsKnown, ConstraintRows, AllRays
<1> HIDE DEF m
<1>3. last \in Nat /\ j \in 0 .. m - 1 /\ last \in 0 .. m - 1 /\ j \in 0..last
  BY <1>1, <1>2
<1>4. ASSUME NEW c \in 0 .. last - 1
      PROVE  /\ Mat'[c] = Mat[Swapped(c, j, last)] /\ bits'[c] = bits[Swapped(c, j, last)]
             /\ Swapped(c, j, last) \in 0 .. m - 1
             /\ c < j => Swapped(c, j, last) = c
  <2>1. c \in 0 .. m - 1 /\ DOMAIN Mat = 0 .. m - 1
    <3>1. c \in 0 .. m - 1
      BY <1>2
    <3>2. DOMAIN Mat = 0 .. m - 1
      BY <1>2 DEF MatrixOf
    <3> QED BY <3>1, <3>2
  <2> HIDE DEF last
  <2>2. Exchange(Mat, j, last)[c] = Mat[Swapped(c, j, last)]
    BY <1>2, <1>3, <2>1 DEF Exchange, Swapped
  <2>5. Exchange(bits, j, last)[c] = bits[Swapped(c, j, last)]
    BY <1>2, <1>3, <2>1 DEF Exchange, Swapped
  <2>3. Mat'[c] = Exchange(Mat, j, last)[c] /\ bits'[c] = Exchange(bits, j, last)[c]
    BY <1>1 DEF Rows
  <2>4. Swapped(c, j, last) \in 0 .. m - 1 /\ (c < j => Swapped(c, j, last) = c)
    BY <1>2, <1>3, <2>1 DEF Swapped, last
  <2> QED BY <2>2, <2>3, <2>4, <2>5
<1>5. DOMAIN Mat' = 0 .. last - 1 /\ DOMAIN bits' = 0 .. last - 1 /\ Mat' = [c \in 0 .. last - 1 |-> Mat'[c]]
  BY <1>1 DEF Rows
<1> HIDE DEF last
<1>6. Mat' \in MatrixOf(last)
  BY <1>2, <1>4, <1>5 DEF MatrixOf
<1>7. NbConstraints' = last /\ ConstraintRows' = 0 .. last - 1 /\ AllRays' = AllRays
  <2>1. NbConstraints' = last
    BY <1>3, <1>6, LengthIs DEF NbConstraints, Length
  <2> QED BY <1>1, <2>1 DEF ConstraintRows, AllRays
<1>8. ReduceTyped'
  BY <1>1, <1>2, <1>3, <1>6, <1>7 DEF ReduceTyped
<1>9. BitsKnown'
  <2>1. Matched(Ray, NbRay, Mat', last, Sat, bits')
    BY <1>2, <1>4, MatchedMoved
  <2> QED BY <1>1, <1>5, <1>7, <2>1 DEF BitsKnown
<1>10. \A c \in 0 .. j - 1 : Mat'[c] = Mat[c] /\ bits'[c] = bits[c]
  <2>1. \A c \in 0 .. j - 1 : c \in 0 .. last - 1 /\ c < j
    BY <1>3
  <2> QED BY <1>4, <2>1
<1>11. EqualitiesBefore(j)' = EqualitiesBefore(j)
  BY <1>1, <1>10 DEF EqualitiesBefore, IsEquality
<1>12. \A r : SaturatedBefore(r, j)' = SaturatedBefore(r, j)
  BY <1>1, <1>10 DEF SaturatedBefore, Saturates
<1>13. EqualitiesKnown(j)'
  <2>1. \A c \in EqualitiesBefore(j) : \A r : Saturates(r, c)' <=> Saturates(r, c)
    BY <1>1, <1>10 DEF EqualitiesBefore, Saturates
  <2>2. EqualitiesKnown(j)
    BY DEF InStep1
  <2> QED BY <1>1, <1>7, <1>11, <2>1, <2>2 DEF EqualitiesKnown
<1>14. \A r \in AllRays' : Ray'[r][0] = Cardinality(SaturatedBefore(r, j)')
  BY <1>1, <1>7, <1>12 DEF InStep1
<1>15. j' \in 0..NbConstraints'
  BY <1>1, <1>3, <1>7
<1>16. RowRemoved
  <2>1. last = NbConstraints - 1 /\ NbConstraints - 2 = last - 1
    BY <1>2 DEF last, m
  <2> QED BY <1>3, <1>4, <1>7, <1>10, <2>1 DEF RowRemoved, m
<1> QED BY <1>1, <1>8, <1>9, <1>13, <1>14, <1>15, <1>16 DEF InStep1

\* Step 1, any other row: its rays are counted, and it counts as an equality
\* when all of them saturate it.
LEMMA CountConstraintStep ==
  ASSUME pc = "step1", InStep1, CountConstraint
  PROVE  /\ pc' = "step1" /\ InStep1'
         /\ Same(Mat, Mat', NbConstraints) /\ Same(Ray, Ray', NbRay) /\ NbConstraints' = NbConstraints
         /\ Mat'[j][0] = RaysSaturating(j) /\ \A c \in 0 .. j - 1 : Mat'[c] = Mat[c]
<1> DEFINE m == NbConstraints
           S == {r \in AllRays : Saturates(r, j)}
<1>1. /\ j < m /\ pc' = "step1"
      /\ Mat' = [Mat EXCEPT ![j][0] = RaysSaturating(j)]
      /\ Ray' = [r \in AllRays |-> WithStatus(Ray[r], Ray[r][0] + (IF Saturates(r, j) THEN 1 ELSE 0))]
      /\ NbEq' = (IF RaysSaturating(j) = NbRay THEN NbEq + 1 ELSE NbEq)
      /\ j' = j + 1
      /\ UNCHANGED <<Sat, NbRay, bits>>
  BY DEF CountConstraint
<1>2. /\ m \in Nat /\ Mat \in MatrixOf(m) /\ NbRay \in Nat /\ Ray \in MatrixOf(NbRay)
      /\ Upward(Ray) /\ DOMAIN Sat = AllRays /\ AllRays = 0 .. NbRay - 1
      /\ j \in 0..m /\ DOMAIN bits = ConstraintRows
      /\ Matched(Ray, NbRay, Mat, m, Sat, bits) /\ EqualitiesKnown(j)
  BY DEF InStep1, ReduceTyped, BitsKnown, AllRays
<1> HIDE DEF m
<1>3. /\ RaysSaturating(j) \in 0..NbRay /\ RaysSaturating(j) = Cardinality(S)
      /\ (RaysSaturating(j) = NbRay => S = AllRays)
  <2>1. S \subseteq 0 .. NbRay - 1
    BY <1>2
  <2>2. RaysSaturating(j) = Cardinality(S)
    BY DEF RaysSaturating
  <2> HIDE DEF S
  <2> QED BY <1>2, <2>1, <2>2, PartOfRange
<1>4. j \in 0 .. m - 1 /\ j + 1 \in 0..m
  BY <1>1, <1>2
<1>5. /\ Same(Mat, Mat', m) /\ Mat'[j][0] = RaysSaturating(j)
      /\ \A c \in 0 .. j - 1 : Mat'[c] = Mat[c]
  <2>1. Mat' = [c \in 0 .. m - 1 |-> IF c = j THEN WithStatus(Mat[c], RaysSaturating(j)) ELSE Mat[c]]
    BY <1>1, <1>2 DEF MatrixOf, WithStatus
  <2>2. Mat' = [c \in 0 .. m - 1 |-> Mat'[c]]
    BY <2>1
  <2>3. RaysSaturating(j) \in Int
    BY <1>3
  <2>4. \A c \in 0 .. m - 1 : Mat'[c] = Mat[c] \/ Mat'[c] = WithStatus(Mat[c], RaysSaturating(j))
    BY <2>1
  <2>5. Same(Mat, Mat', m)
    BY <1>2, <2>2, <2>3, <2>4, SameRows
  <2>6. Mat[j] \in IntRow
    BY <1>2, <1>4 DEF MatrixOf
  <2>7. Mat'[j][0] = RaysSaturating(j)
    BY <1>4, <2>1, <2>3, <2>6, StatusOnly
  <2>8. \A c \in 0 .. j - 1 : Mat'[c] = Mat[c]
    BY <1>2, <1>4, <2>1
  <2> QED BY <2>5, <2>7, <2>8
<1>6. ASSUME NEW r \in AllRays
      PROVE  /\ Ray'[r] = WithStatus(Ray[r], Ray[r][0] + (IF Saturates(r, j) THEN 1 ELSE 0))
             /\ Ray[r] \in IntRow /\ Ray[r][0] + (IF Saturates(r, j) THEN 1 ELSE 0) \in Int
  <2>1. Ray[r] \in IntRow
    BY <1>2 DEF MatrixOf
  <2>2. Ray[r][0] \in Int
    BY <2>1, LastInt
  <2> QED BY <1>1, <2>1, <2>2
<1>7. Same(Ray, Ray', NbRay)
  <2>1. Ray' = [r \in 0 .. NbRay - 1 |-> Ray'[r]]
    BY <1>1, <1>2
  <2> QED BY <1>2, <1>6, <2>1, SameRows
<1>8. NbConstraints' = m /\ ConstraintRows' = ConstraintRows /\ AllRays' = AllRays
  <2>1. NbConstraints' = m
    BY <1>2, <1>5, LengthIs DEF NbConstraints, Length, Same
  <2> QED BY <1>1, <2>1 DEF ConstraintRows, AllRays, m
<1>9. ReduceTyped'
  BY <1>1, <1>2, <1>5, <1>7, <1>8, UpwardSame DEF ReduceTyped, Same
<1>10. BitsKnown'
  <2>1. Matched(Ray', NbRay, Mat', m, Sat, bits)
    BY <1>2, <1>5, <1>7, MatchedSame
  <2> QED BY <1>1, <1>2, <1>8, <2>1 DEF BitsKnown
<1>11. \A r, c : Saturates(r, c)' <=> Saturates(r, c)
  BY <1>1 DEF Saturates
<1>12. \A c \in 0..j : c = j \/ c \in 0 .. j - 1
  BY <1>2
<1>13. j \notin 0 .. j - 1 /\ j' - 1 = j /\ j \in 0..j /\ (0 .. j - 1) \subseteq 0..j /\ j \in Nat
  BY <1>1, <1>2
<1>14. EqualitiesKnown(j)'
  <2> DEFINE E == EqualitiesBefore(j)
  <2>1. EqualitiesBefore(j)' = IF RaysSaturating(j) = NbRay THEN E \cup {j} ELSE E
    BY <1>1, <1>5, <1>12, <1>13 DEF EqualitiesBefore, IsEquality
  <2>2. E \subseteq 0 .. j - 1 /\ NbEq = Cardinality(E) /\ \A c \in E : \A r \in AllRays : Saturates(r, c)
    BY <1>2 DEF EqualitiesKnown, EqualitiesBefore
  <2> HIDE DEF E
  <2>3. IsFiniteSet(E)
    BY <1>13, <2>2, PartOfRange
  <2>8. j \notin E
    BY <1>13, <2>2
  <2>4. Cardinality(E \cup {j}) = Cardinality(E) + 1
    BY <2>3, <2>8, FS_AddElement
  <2>5. NbEq' = Cardinality(EqualitiesBefore(j)')
    BY <1>1, <2>1, <2>2, <2>4
  <2>6. RaysSaturating(j) = NbRay => \A r \in AllRays : Saturates(r, j)
    BY <1>3
  <2>7. \A c \in EqualitiesBefore(j)' : \A r \in AllRays : Saturates(r, c)
    BY <2>1, <2>2, <2>6
  <2> QED BY <1>8, <1>11, <2>5, <2>7 DEF EqualitiesKnown
<1>15. ASSUME NEW r \in AllRays PROVE Ray'[r][0] = Cardinality(SaturatedBefore(r, j)')
  <2> DEFINE T == SaturatedBefore(r, j)
  <2>1. SaturatedBefore(r, j)' = IF Saturates(r, j) THEN T \cup {j} ELSE T
    BY <1>1, <1>11, <1>12, <1>13 DEF SaturatedBefore
  <2>2. T \subseteq 0 .. j - 1 /\ Ray[r][0] = Cardinality(T)
    BY DEF InStep1, SaturatedBefore
  <2> HIDE DEF T
  <2>3. IsFiniteSet(T) /\ Cardinality(T) \in 0..j
    BY <1>13, <2>2, PartOfRange
  <2>6. j \notin T
    BY <1>13, <2>2
  <2>4. Cardinality(T \cup {j}) = Cardinality(T) + 1
    BY <2>3, <2>6, FS_AddElement
  <2>5. Ray'[r][0] = Ray[r][0] + (IF Saturates(r, j) THEN 1 ELSE 0)
    BY <1>6, StatusOnly
  <2> QED BY <2>1, <2>2, <2>3, <2>4, <2>5
<1>16. j' \in 0..NbConstraints'
  BY <1>1, <1>4, <1>8
<1>17. Same(Mat, Mat', NbConstraints) /\ NbConstraints' = NbConstraints
  BY <1>5, <1>8 DEF m
<1> QED BY <1>1, <1>5, <1>7, <1>8, <1>9, <1>10, <1>14, <1>15, <1>16, <1>17 DEF InStep1

\* Step 2: the rows before i are equalities, and NbEq still counts them all.
InStep2 ==
  /\ ReduceTyped /\ BitsKnown
  /\ EqualitiesKnown(NbConstraints) /\ LinesKnown
  /\ i \in 0..NbEq
  /\ \A c \in 0 .. i - 1 : IsEquality(Mat[c])

\* End of step 1: NbBid counts the rays that saturate everything.
LEMMA CountLinesStep ==
  ASSUME InStep1, CountLines
  PROVE  pc' = "step2" /\ InStep2' /\ Same(Ray, Ray', NbRay)
<1> DEFINE m == NbConstraints
<1>1. /\ j = m /\ pc' = "step2" /\ i' = 0
      /\ Ray' = [r \in AllRays |-> IF AtInfinity(Ray[r]) THEN WithStatus(Ray[r], Ray[r][0] + 1) ELSE Ray[r]]
      /\ NbBid' = Cardinality({r \in AllRays : SaturatesAll(Ray'[r])})
      /\ UNCHANGED <<Mat, Sat, NbRay, bits, NbEq>>
  BY DEF CountLines, reduceVars, counts
<1>2. /\ m \in Nat /\ Mat \in MatrixOf(m) /\ NbRay \in Nat /\ Ray \in MatrixOf(NbRay)
      /\ Upward(Ray) /\ DOMAIN Sat = AllRays /\ AllRays = 0 .. NbRay - 1
      /\ DOMAIN bits = ConstraintRows /\ ConstraintRows = 0 .. m - 1
      /\ Matched(Ray, NbRay, Mat, m, Sat, bits) /\ EqualitiesKnown(m)
  BY <1>1 DEF InStep1, ReduceTyped, BitsKnown, AllRays, ConstraintRows
<1>3. NbConstraints' = m /\ ConstraintRows' = ConstraintRows /\ AllRays' = AllRays
  BY <1>1 DEF NbConstraints, ConstraintRows, AllRays
<1> HIDE DEF m
<1>4. ASSUME NEW r \in AllRays
      PROVE  /\ Ray[r][0] \in 0..m
             /\ Ray[r][0] = m => \A c \in ConstraintRows : Saturates(r, c)
  <2>1. SaturatedBefore(r, m) \subseteq 0 .. m - 1
    BY DEF SaturatedBefore
  <2>2. Ray[r][0] = Cardinality(SaturatedBefore(r, m))
    BY <1>1 DEF InStep1
  <2>3. Ray[r][0] \in 0..m /\ (Ray[r][0] = m => SaturatedBefore(r, m) = 0 .. m - 1)
    BY <1>2, <2>1, <2>2, PartOfRange
  <2> QED BY <1>2, <2>3 DEF SaturatedBefore
<1>5. ASSUME NEW r \in AllRays
      PROVE  Ray[r] \in IntRow /\ Ray'[r] = IF AtInfinity(Ray[r]) THEN WithStatus(Ray[r], Ray[r][0] + 1) ELSE Ray[r]
  BY <1>1, <1>2 DEF MatrixOf
<1>6. Same(Ray, Ray', NbRay)
  <2>1. Ray' = [r \in 0 .. NbRay - 1 |-> Ray'[r]]
    BY <1>1, <1>2
  <2>2. \A r \in 0 .. NbRay - 1 : Ray[r][0] + 1 \in Int
    BY <1>2, <1>4
  <2> QED BY <1>2, <1>5, <2>1, <2>2, SameRows
<1>7. ReduceTyped'
  BY <1>1, <1>2, <1>3, <1>6, UpwardSame DEF ReduceTyped, Same, m
<1>8. BitsKnown'
  <2>1. Matched(Ray', NbRay, Mat, m, Sat, bits)
    BY <1>2, <1>6, SameItself, MatchedSame
  <2> QED BY <1>1, <1>2, <1>3, <2>1 DEF BitsKnown
<1>9. \A r, c : Saturates(r, c)' <=> Saturates(r, c)
  BY <1>1 DEF Saturates
<1>10. EqualitiesKnown(NbConstraints)'
  <2>1. EqualitiesBefore(NbConstraints)' = EqualitiesBefore(m)
    BY <1>1, <1>3 DEF EqualitiesBefore, IsEquality
  <2> QED BY <1>1, <1>2, <1>3, <1>9, <2>1 DEF EqualitiesKnown
<1>11. LinesKnown'
  <2>1. ASSUME NEW r \in AllRays, Ray'[r][0] = m + 1
        PROVE  AtInfinity(Ray'[r]) /\ \A c \in ConstraintRows : Saturates(r, c)
    <3>1. AtInfinity(Ray[r])
      BY <1>2, <1>4, <1>5, <2>1
    <3>4. Ray[r][0] \in 0..m /\ Ray[r][0] \in Int /\ Ray[r][0] + 1 \in Int
      BY <1>2, <1>4
    <3>5. Ray[r] \in IntRow /\ Ray'[r] = WithStatus(Ray[r], Ray[r][0] + 1)
      BY <1>5, <3>1
    <3>2. Ray'[r][0] = Ray[r][0] + 1 /\ Ray'[r][Dimension] = Ray[r][Dimension]
      BY <3>4, <3>5, StatusOnly
    <3>3. Ray[r][0] = m
      <4>1. Ray[r][0] + 1 = m + 1
        BY <2>1, <3>2
      <4>2. m \in Nat
        BY <1>2
      <4> QED BY <3>4, <4>1, <4>2
    <3> QED BY <1>4, <3>1, <3>2, <3>3 DEF AtInfinity
  <2>2. Lines' = {r \in AllRays : SaturatesAll(Ray'[r])}
    BY <1>3 DEF Lines, SaturatesAll, m
  <2>3. \A r \in Lines' : r \in AllRays /\ Ray'[r][0] = m + 1
    BY <2>2 DEF SaturatesAll, m
  <2>4. \A r \in Lines' : AtInfinity(Ray'[r]) /\ \A c \in ConstraintRows : Saturates(r, c)
    BY <2>1, <2>3
  <2> QED BY <1>1, <1>3, <1>9, <2>2, <2>4 DEF LinesKnown, AtInfinity
<1>12. i' \in 0..NbEq'
  <2>1. EqualitiesBefore(m) \subseteq 0 .. m - 1 /\ NbEq = Cardinality(EqualitiesBefore(m))
    BY <1>2 DEF EqualitiesKnown, EqualitiesBefore
  <2>2. NbEq \in 0..m
    BY <1>2, <2>1, PartOfRange
  <2> QED BY <1>1, <1>2, <2>2
<1>13. \A c \in 0 .. i' - 1 : IsEquality(Mat[c])'
  BY <1>1
<1> QED BY <1>1, <1>6, <1>7, <1>8, <1>10, <1>11, <1>12, <1>13 DEF InStep2

\* One element of a set of rows gives way to another.
LEMMA OneMoved ==
  ASSUME NEW n \in Nat, NEW S, S \subseteq 0 .. n - 1, NEW e \in S, NEW f, f \notin S
  PROVE  Cardinality((S \ {e}) \cup {f}) = Cardinality(S)
<1>1. IsFiniteSet(S) /\ Cardinality(S) \in 0..n
  BY PartOfRange
<1>2. IsFiniteSet(S \ {e}) /\ Cardinality(S \ {e}) = Cardinality(S) - 1
  BY <1>1, FS_RemoveElement
<1>3. f \notin S \ {e}
  OBVIOUS
<1>4. Cardinality((S \ {e}) \cup {f}) = Cardinality(S \ {e}) + 1
  BY <1>2, <1>3, FS_AddElement
<1> QED BY <1>1, <1>2, <1>4

\* A set of more than a rows without row a has one after row a.
LEMMA OneAfter ==
  ASSUME NEW n \in Nat, NEW S, S \subseteq 0 .. n - 1, NEW a \in Nat, a < Cardinality(S), a \notin S
  PROVE  \E c \in S : c > a
<1>1. Cardinality(S) \in 0..n
  BY PartOfRange
<1>2. SUFFICES ASSUME \A c \in S : ~(c > a) PROVE FALSE
  OBVIOUS
<1>3. S \subseteq 0 .. a - 1
  <2>1. ASSUME NEW c \in S PROVE c \in 0 .. a - 1
    <3>1. c \in 0 .. n - 1 /\ ~(c > a) /\ c # a
      BY <1>2
    <3> QED BY <3>1
  <2> QED BY <2>1
<1>4. Cardinality(S) \in 0..a
  BY <1>3, PartOfRange
<1> QED BY <1>4

\* Row x of a matrix whose row from has been slid down to row to comes from ...
SlidFrom(x, from, to) == IF x = to THEN from ELSE IF x \in to + 1 .. from THEN x - 1 ELSE x

\* The rows after a slide, named by where they were.
LEMMA SlidRows ==
  ASSUME NEW n \in Nat, NEW f, DOMAIN f = 0 .. n - 1,
         NEW from \in 0 .. n - 1, NEW to \in 0 .. n - 1, to < from, NEW x \in 0 .. n - 1
  PROVE  /\ SlidFrom(x, from, to) \in 0 .. n - 1
         /\ Slid(f, from, to)[x] = f[SlidFrom(x, from, to)]
         /\ DOMAIN Slid(f, from, to) = 0 .. n - 1
<1>1. SlidFrom(x, from, to) \in 0 .. n - 1
  BY DEF SlidFrom
<1>2. Slid(f, from, to) = [y \in 0 .. n - 1 |-> IF y = to THEN f[from] ELSE IF y \in to + 1 .. from THEN f[y - 1] ELSE f[y]]
  BY DEF Slid
<1>3. Slid(f, from, to)[x] = f[SlidFrom(x, from, to)]
  BY <1>2 DEF SlidFrom
<1> QED BY <1>1, <1>2, <1>3

\* Step 2 finds an equality below row i: there are more of them than rows
\* above it, so the search cannot run off the matrix.
LEMMA NextEqualityIs ==
  ASSUME NbConstraints \in Nat, i \in Nat, i < Cardinality(EqualitiesBefore(NbConstraints)),
         ~IsEquality(Mat[i])
  PROVE  /\ NextEquality \in i + 1 .. NbConstraints - 1
         /\ IsEquality(Mat[NextEquality])
         /\ \A d \in i + 1 .. NextEquality - 1 : ~IsEquality(Mat[d])
<1> DEFINE m == NbConstraints
           E == EqualitiesBefore(m)
           T == {c \in E : c > i}
           IsNext(c) == IsEquality(Mat[c]) /\ \A d \in i + 1 .. c - 1 : ~IsEquality(Mat[d])
<1>1. E \subseteq 0 .. m - 1 /\ i \notin E /\ \A c \in 0 .. m - 1 : c \in E <=> IsEquality(Mat[c])
  BY DEF EqualitiesBefore
<1> HIDE DEF E
<1>2. \E c \in E : c > i
  BY <1>1, OneAfter DEF m, E
<1>3. T \subseteq Nat /\ T # {}
  <2>1. E \subseteq Nat
    BY <1>1
  <2> QED BY <1>2, <2>1
<1>4. PICK c \in T : \A d \in T : c <= d
  <2> HIDE DEF T
  <2> QED BY <1>3, LeastElement
<1>5. c \in i + 1 .. m - 1
  BY <1>1, <1>4
<1>6. IsNext(c)
  <2>1. IsEquality(Mat[c])
    BY <1>1, <1>4
  <2>2. ASSUME NEW d \in i + 1 .. c - 1, IsEquality(Mat[d]) PROVE FALSE
    <3>1. d \in 0 .. m - 1 /\ d > i /\ ~(c <= d)
      BY <1>5
    <3>2. d \in T
      BY <1>1, <2>2, <3>1
    <3> QED BY <1>4, <3>1, <3>2
  <2> QED BY <2>1, <2>2
<1>7. NextEquality = CHOOSE d \in i + 1 .. m - 1 : IsNext(d)
  BY DEF NextEquality
<1> HIDE DEF IsNext
<1>8. NextEquality \in i + 1 .. m - 1 /\ IsNext(NextEquality)
  BY <1>5, <1>6, <1>7
<1> QED BY <1>8 DEF IsNext

\* The rows of Mat have moved with their bits.
RowsSlid ==
  /\ NbConstraints' = NbConstraints
  /\ \/ UNCHANGED <<Mat, bits>>
     \/ \E from \in 0 .. NbConstraints - 1, to \in 0 .. NbConstraints - 1 :
          /\ to < from
          /\ \A x \in 0 .. NbConstraints - 1 :
               Mat'[x] = Mat[SlidFrom(x, from, to)] /\ bits'[x] = bits[SlidFrom(x, from, to)]

\* Step 2: the row and its bit slide together, so the bits still match, and
\* the number of equalities does not change.
LEMMA SlideEqualityStep ==
  ASSUME pc = "step2", InStep2, SlideEquality
  PROVE  pc' = "step2" /\ InStep2' /\ RowsSlid
<1> DEFINE m == NbConstraints
           E == EqualitiesBefore(m)
<1>1. /\ i < NbEq /\ i' = i + 1 /\ pc' = "step2"
      /\ UNCHANGED <<Ray, Sat, NbRay, NbBid, NbEq>>
  BY DEF SlideEquality, counts
<1>2. /\ m \in Nat /\ Mat \in MatrixOf(m) /\ NbRay \in Nat /\ Ray \in MatrixOf(NbRay)
      /\ Upward(Ray) /\ DOMAIN Sat = AllRays /\ AllRays = 0 .. NbRay - 1
      /\ DOMAIN bits = ConstraintRows /\ ConstraintRows = 0 .. m - 1
      /\ Matched(Ray, NbRay, Mat, m, Sat, bits) /\ EqualitiesKnown(m) /\ LinesKnown
      /\ i \in 0..NbEq /\ \A c \in 0 .. i - 1 : IsEquality(Mat[c])
  BY DEF InStep2, ReduceTyped, BitsKnown, AllRays, ConstraintRows
<1>3. E \subseteq 0 .. m - 1 /\ NbEq = Cardinality(E)
  BY <1>2 DEF EqualitiesKnown, EqualitiesBefore
<1>4. NbEq \in 0..m /\ i \in Nat /\ i + 1 \in 0..NbEq /\ i \in 0 .. m - 1
  <2>1. NbEq \in 0..m
    BY <1>2, <1>3, PartOfRange DEF m
  <2> QED BY <1>1, <1>2, <2>1
<1>5. CASE IsEquality(Mat[i])
  <2>1. UNCHANGED <<Mat, bits>>
    BY <1>5 DEF SlideEquality
  <2>2. (ReduceTyped /\ BitsKnown /\ EqualitiesKnown(NbConstraints) /\ LinesKnown)'
    BY <1>1, <2>1 DEF InStep2, ReduceTyped, BitsKnown, EqualitiesKnown, EqualitiesBefore, IsEquality,
         LinesKnown, Lines, SaturatesAll, NbConstraints, AllRays, ConstraintRows, Saturates
  <2>3. \A c \in 0 .. i' - 1 : IsEquality(Mat[c])'
    <3>1. \A c \in 0 .. i' - 1 : c = i \/ c \in 0 .. i - 1
      BY <1>1, <1>4
    <3> QED BY <1>1, <1>2, <1>5, <2>1, <3>1 DEF IsEquality
  <2>4. RowsSlid
    BY <2>1 DEF RowsSlid, NbConstraints
  <2> QED BY <1>1, <1>4, <2>2, <2>3, <2>4 DEF InStep2
<1>6. CASE ~IsEquality(Mat[i])
  <2> DEFINE next == NextEquality
             from(x) == SlidFrom(x, next, i)
  <2>1. Mat' = Slid(Mat, next, i) /\ bits' = Slid(bits, next, i)
    BY <1>6 DEF SlideEquality, SlidBits
  <2>2. /\ next \in i + 1 .. m - 1 /\ IsEquality(Mat[next])
        /\ \A d \in i + 1 .. next - 1 : ~IsEquality(Mat[d])
    BY <1>1, <1>2, <1>3, <1>4, <1>6, NextEqualityIs
  <2> HIDE DEF m, E, next
  <2>3. next \in 0 .. m - 1 /\ i < next
    BY <1>2, <1>4, <2>2
  <2>4. ASSUME NEW x \in 0 .. m - 1
        PROVE  from(x) \in 0 .. m - 1 /\ Mat'[x] = Mat[from(x)] /\ bits'[x] = bits[from(x)]
    <3>1. DOMAIN Mat = 0 .. m - 1 /\ DOMAIN bits = 0 .. m - 1
      BY <1>2 DEF MatrixOf
    <3>2. m \in Nat /\ i \in 0 .. m - 1 /\ next \in 0 .. m - 1 /\ i < next
      BY <1>2, <1>4, <2>3
    <3>3. from(x) \in 0 .. m - 1 /\ Slid(Mat, next, i)[x] = Mat[from(x)]
      BY <3>1, <3>2, SlidRows
    <3>4. Slid(bits, next, i)[x] = bits[from(x)]
      BY <3>1, <3>2, SlidRows
    <3> QED BY <2>1, <3>3, <3>4
  <2>5. DOMAIN Mat' = 0 .. m - 1 /\ DOMAIN bits' = 0 .. m - 1 /\ Mat' = [x \in 0 .. m - 1 |-> Mat'[x]]
    <3>1. DOMAIN Mat = 0 .. m - 1 /\ DOMAIN bits = 0 .. m - 1
      BY <1>2 DEF MatrixOf
    <3> QED BY <2>1, <3>1 DEF Slid
  <2>6. Mat' \in MatrixOf(m)
    BY <1>2, <2>4, <2>5 DEF MatrixOf
  <2>7. NbConstraints' = m /\ ConstraintRows' = ConstraintRows /\ AllRays' = AllRays
    <3>1. NbConstraints' = m
      BY <1>2, <2>6, LengthIs DEF NbConstraints, Length
    <3> QED BY <1>1, <3>1 DEF ConstraintRows, AllRays, m
  <2>8. ReduceTyped'
    BY <1>1, <1>2, <2>6, <2>7 DEF ReduceTyped
  <2>9. BitsKnown'
    <3>1. Matched(Ray, NbRay, Mat', m, Sat, bits')
      <4> HIDE DEF from
      <4> QED BY <1>2, <2>4, MatchedMoved
    <3> QED BY <1>1, <1>2, <2>5, <2>7, <3>1 DEF BitsKnown
  <2>10. ASSUME NEW c \in 0 .. m - 1 PROVE \A r : Saturates(r, c)' <=> Saturates(r, from(c))
    <3> HIDE DEF from
    <3> QED BY <1>1, <2>4 DEF Saturates
  <2>11. \A c \in 0 .. m - 1 : c \in E <=> IsEquality(Mat[c])
    BY DEF E, EqualitiesBefore
  <2>12. ASSUME NEW c \in 0 .. m - 1 PROVE c \in (E \ {next}) \cup {i} <=> from(c) \in E
    <3>0. i \notin E /\ next \in E
      BY <1>4, <1>6, <2>2, <2>3, <2>11
    <3>1. CASE c < i
      BY <1>4, <2>3, <3>0, <3>1 DEF SlidFrom
    <3>2. CASE c = i
      BY <1>4, <2>3, <3>0, <3>2 DEF SlidFrom
    <3>3. CASE c \in i + 1 .. next
      <4>1. from(c) = c - 1 /\ c - 1 \in 0 .. m - 1 /\ (c - 1 = i \/ c - 1 \in i + 1 .. next - 1)
        <5>1. c # i /\ c - 1 \in 0 .. m - 1 /\ (c - 1 = i \/ c - 1 \in i + 1 .. next - 1)
          <6>1. m \in Nat
            BY <1>2
          <6> QED BY <1>4, <2>3, <3>3, <6>1
        <5> QED BY <3>3, <5>1 DEF SlidFrom
      <4>2. from(c) \notin E
        BY <1>6, <2>2, <2>11, <4>1
      <4>3. c = next \/ (c \in i + 1 .. next - 1 /\ c # i)
        BY <1>4, <2>3, <3>3
      <4>4. c \notin (E \ {next}) \cup {i}
        BY <1>4, <2>2, <2>3, <2>11, <3>3, <4>3
      <4> QED BY <4>2, <4>4
    <3>4. CASE c > next
      BY <1>4, <2>3, <3>4 DEF SlidFrom
    <3> QED BY <1>4, <2>3, <3>1, <3>2, <3>3, <3>4
  <2>13. EqualitiesKnown(NbConstraints)'
    <3>1. EqualitiesBefore(NbConstraints)' = {c \in 0 .. m - 1 : from(c) \in E}
      <4> HIDE DEF from
      <4>1. ASSUME NEW c \in 0 .. m - 1 PROVE IsEquality(Mat[c])' <=> from(c) \in E
        BY <1>1, <2>4, <2>11 DEF IsEquality
      <4> QED BY <2>7, <4>1 DEF EqualitiesBefore
    <3>2. EqualitiesBefore(NbConstraints)' = (E \ {next}) \cup {i}
      <4> HIDE DEF from
      <4> QED BY <1>3, <1>4, <2>12, <3>1
    <3>3. i \notin E /\ next \in E
      BY <1>4, <1>6, <2>2, <2>3, <2>11
    <3>4. Cardinality((E \ {next}) \cup {i}) = Cardinality(E)
      BY <1>2, <1>3, <3>3, OneMoved
    <3>5. \A c \in E : \A r \in AllRays : Saturates(r, c)
      BY <1>2 DEF EqualitiesKnown, E
    <3>6. \A c \in EqualitiesBefore(NbConstraints)' : \A r \in AllRays : Saturates(r, c)'
      <4> HIDE DEF from
      <4> QED BY <2>10, <3>1, <3>5
    <3> QED BY <1>1, <1>3, <2>7, <3>2, <3>4, <3>6 DEF EqualitiesKnown
  <2>14. LinesKnown'
    <3> HIDE DEF from
    <3>1. Lines' = Lines
      BY <1>1, <2>7 DEF Lines, SaturatesAll, m
    <3>2. \A r \in Lines : \A c \in 0 .. m - 1 : Saturates(r, from(c))
      BY <1>2, <2>4 DEF LinesKnown
    <3>3. \A r \in Lines' : \A c \in ConstraintRows' : Saturates(r, c)'
      BY <1>2, <2>7, <2>10, <3>1, <3>2
    <3>4. NbBid' = Cardinality(Lines') /\ \A r \in Lines' : AtInfinity(Ray'[r])
      BY <1>1, <1>2, <3>1 DEF LinesKnown
    <3> QED BY <3>3, <3>4 DEF LinesKnown, AtInfinity
  <2>15. ASSUME NEW c \in 0 .. i' - 1 PROVE IsEquality(Mat[c])'
    <3>1. c \in 0 .. m - 1 /\ (c = i \/ c \in 0 .. i - 1)
      BY <1>1, <1>2, <1>4
    <3>2. from(c) = next \/ (from(c) = c /\ c \in 0 .. i - 1)
      BY <1>4, <2>3, <3>1 DEF SlidFrom
    <3>3. IsEquality(Mat[from(c)])
      BY <1>2, <2>2, <3>2
    <3> HIDE DEF from
    <3> QED BY <1>1, <2>4, <3>1, <3>3 DEF IsEquality
  <2>16. RowsSlid
    BY <1>4, <2>3, <2>4, <2>7 DEF RowsSlid, m
  <2> QED BY <1>1, <1>4, <2>8, <2>9, <2>13, <2>14, <2>15, <2>16 DEF InStep2
<1> QED BY <1>5, <1>6

-----------------------------------------------------------------------------
(* Steps 2 to 5.                                                           *)

\* After step 2: the first NbEq rows are saturated by all the rays.
InStep3 ==
  /\ ReduceTyped /\ BitsKnown /\ LinesKnown
  /\ NbEq \in 0..NbConstraints
  /\ \A c \in 0 .. NbEq - 1 : \A r \in AllRays : Saturates(r, c)

\* A row that a vector saturates is saturated by it with either sign.
LEMMA LexPositiveIs ==
  ASSUME NEW p \in IntRow, NEW m \in IntRow, InnerProduct(m, p) = 0
  PROVE  /\ LexPositive(p) \in IntRow /\ LexPositive(p)[0] = p[0]
         /\ InnerProduct(m, LexPositive(p)) = 0
<1>1. LexPositive(p) = p \/ LexPositive(p) = Opposite(p)
  BY DEF LexPositive
<1>2. Opposite(p) \in IntRow /\ Opposite(p)[0] = p[0] /\ InnerProduct(Opposite(p), m) = 0
  <2>1. InnerProduct(p, m) = 0
    BY InnerProductSymmetric
  <2> QED BY <2>1, OppositeRow
<1>3. InnerProduct(m, Opposite(p)) = 0
  BY <1>2, InnerProductSymmetric
<1> QED BY <1>1, <1>2, <1>3

\* End of step 2: with a filter equalities change their sign, no other row.
LEMMA FilterEqualitiesStep ==
  ASSUME InStep2, FilterEqualities
  PROVE  pc' = "step3" /\ InStep3' /\ NbConstraints' = NbConstraints
<1> DEFINE m == NbConstraints
           E == EqualitiesBefore(m)
<1>1. /\ i >= NbEq /\ pc' = "step3"
      /\ Mat' = [c \in ConstraintRows |-> IF filtering /\ c < NbEq THEN LexPositive(Mat[c]) ELSE Mat[c]]
      /\ UNCHANGED <<Ray, Sat, NbRay, NbBid, bits, NbEq>>
  BY DEF FilterEqualities, counts
<1>2. /\ m \in Nat /\ Mat \in MatrixOf(m) /\ NbRay \in Nat /\ Ray \in MatrixOf(NbRay)
      /\ Upward(Ray) /\ DOMAIN Sat = AllRays /\ AllRays = 0 .. NbRay - 1
      /\ DOMAIN bits = ConstraintRows /\ ConstraintRows = 0 .. m - 1
      /\ Matched(Ray, NbRay, Mat, m, Sat, bits) /\ EqualitiesKnown(m) /\ LinesKnown
      /\ i \in 0..NbEq /\ \A c \in 0 .. i - 1 : IsEquality(Mat[c])
  BY DEF InStep2, ReduceTyped, BitsKnown, AllRays, ConstraintRows
<1>3. NbEq \in 0..m /\ i = NbEq
  <2>1. E \subseteq 0 .. m - 1 /\ NbEq = Cardinality(E)
    BY <1>2 DEF EqualitiesKnown, EqualitiesBefore
  <2>2. NbEq \in 0..m
    BY <1>2, <2>1, PartOfRange
  <2> QED BY <1>1, <1>2, <2>2
<1> HIDE DEF m, E
<1>4. ASSUME NEW c \in 0 .. NbEq - 1, NEW r \in AllRays PROVE Saturates(r, c)
  <2>1. c \in 0 .. m - 1 /\ IsEquality(Mat[c])
    BY <1>2, <1>3
  <2> QED BY <1>2, <2>1 DEF EqualitiesKnown, EqualitiesBefore
<1>5. ASSUME NEW c \in 0 .. m - 1 PROVE Mat'[c] = IF filtering /\ c < NbEq THEN LexPositive(Mat[c]) ELSE Mat[c]
  BY <1>1, <1>2
<1>6. ASSUME NEW r \in 0 .. NbRay - 1, NEW c \in 0 .. m - 1
      PROVE  /\ InnerProduct(Ray[r], Mat'[c]) >= 0
             /\ bits[c] \notin Sat[r] <=> InnerProduct(Ray[r], Mat'[c]) = 0
  <2>1. /\ InnerProduct(Ray[r], Mat[c]) >= 0
        /\ bits[c] \notin Sat[r] <=> InnerProduct(Ray[r], Mat[c]) = 0
    BY <1>2 DEF Matched
  <2>2. CASE filtering /\ c < NbEq
    <3>1. Saturates(r, c)
      BY <1>2, <1>3, <1>4, <2>2
    <3>2. bits[c] \notin Sat[r] /\ InnerProduct(Ray[r], Mat[c]) = 0
      BY <2>1, <3>1 DEF Saturates
    <3>3. Mat[c] \in IntRow /\ Ray[r] \in IntRow
      BY <1>2 DEF MatrixOf
    <3>4. InnerProduct(Ray[r], LexPositive(Mat[c])) = 0
      BY <3>2, <3>3, LexPositiveIs
    <3> QED BY <1>5, <2>2, <3>2, <3>4
  <2>3. CASE ~(filtering /\ c < NbEq)
    BY <1>5, <2>1, <2>3
  <2> QED BY <2>2, <2>3
<1>7. Mat' \in MatrixOf(m)
  <2>1. ASSUME NEW c \in 0 .. m - 1 PROVE Mat'[c] \in IntRow
    <3>1. Mat[c] \in IntRow
      BY <1>2 DEF MatrixOf
    <3>2. Opposite(Mat[c]) \in IntRow
      BY <3>1, OppositeRow
    <3> QED BY <1>5, <3>1, <3>2 DEF LexPositive
  <2>2. Mat' = [c \in 0 .. m - 1 |-> Mat'[c]]
    BY <1>1, <1>2
  <2> QED BY <2>1, <2>2 DEF MatrixOf
<1>8. NbConstraints' = m /\ ConstraintRows' = ConstraintRows /\ AllRays' = AllRays
  <2>1. NbConstraints' = m
    BY <1>2, <1>7, LengthIs DEF NbConstraints, Length
  <2> QED BY <1>1, <2>1 DEF ConstraintRows, AllRays, m
<1>9. ReduceTyped'
  BY <1>1, <1>2, <1>7, <1>8 DEF ReduceTyped
<1>10. BitsKnown'
  BY <1>1, <1>2, <1>6, <1>8 DEF BitsKnown, Matched
<1>11. LinesKnown'
  <2>1. Lines' = Lines
    BY <1>1, <1>8 DEF Lines, SaturatesAll, m
  <2> QED BY <1>1, <1>2, <1>8, <2>1 DEF LinesKnown, AtInfinity, Saturates
<1>12. \A c \in 0 .. NbEq' - 1 : \A r \in AllRays' : Saturates(r, c)'
  BY <1>1, <1>4, <1>8 DEF Saturates
<1>13. NbConstraints' = NbConstraints
  BY <1>8 DEF m
<1> QED BY <1>1, <1>3, <1>8, <1>9, <1>10, <1>11, <1>12, <1>13 DEF InStep3

\* Gauss4 keeps the sign of what is orthogonal to the equations.
LEMMA ReducedProduct ==
  ASSUME NEW m \in Nat, NEW n \in 0..m, NEW M \in MatrixOf(m), NEW p \in IntRow,
         \A x \in 0 .. n - 1 : InnerProduct(p, M[x]) = 0, NEW c \in 0 .. m - 1
  PROVE  /\ Gauss4(M, n, m).M \in MatrixOf(m) /\ Gauss4(M, n, m).M[c][0] = M[c][0]
         /\ SameSign(InnerProduct(p, Gauss4(M, n, m).M[c]), InnerProduct(p, M[c]))
<1> DEFINE N == Gauss4(M, n, m).M
<1>1. Equivalent(N, M, n, m)
  BY GaussCorrect
<1> HIDE DEF N
<1>2. N \in MatrixOf(m) /\ N[c][0] = M[c][0]
  BY <1>1 DEF Equivalent
<1>3. \A x \in 0 .. m - 1 : N[x] \in IntRow /\ M[x] \in IntRow
  BY <1>2 DEF MatrixOf
<1>4. \A x \in 0 .. n - 1 : x \in 0 .. m - 1
  OBVIOUS
<1>5. Vanishes(M, n, p)
  <2>1. ASSUME NEW x \in 0 .. n - 1 PROVE InnerProduct(M[x], p) = 0
    <3>1. M[x] \in IntRow
      BY <1>3, <1>4
    <3> QED BY <3>1, InnerProductSymmetric
  <2> QED BY <2>1 DEF Vanishes
<1>6. /\ \A x \in 0 .. n - 1 : InnerProduct(N[x], p) = 0
      /\ \A x \in n .. m - 1 : SameSign(InnerProduct(N[x], p), InnerProduct(M[x], p))
  BY <1>1, <1>5 DEF Equivalent, Vanishes
<1>7. SameSign(InnerProduct(N[c], p), InnerProduct(M[c], p))
  <2>1. CASE c \in 0 .. n - 1
    BY <1>5, <1>6, <2>1 DEF Vanishes, SameSign
  <2>2. CASE c \in n .. m - 1
    BY <1>6, <2>2
  <2> QED BY <2>1, <2>2
<1>8. InnerProduct(p, N[c]) = InnerProduct(N[c], p) /\ InnerProduct(p, M[c]) = InnerProduct(M[c], p)
  BY <1>3, InnerProductSymmetric
<1> QED BY <1>2, <1>7, <1>8 DEF N

\* Step 4: lines above row i, none from row k on.
InStep4 ==
  /\ InStep3
  /\ NbEq2 \in 0..NbEq
  /\ i \in 0..NbBid /\ k \in 0..NbRay
  /\ \A r \in 0 .. i - 1 : SaturatesAll(Ray[r])
  /\ \A r \in k .. NbRay - 1 : ~SaturatesAll(Ray[r])

\* The lines are counted by NbBid, which is at most NbRay.
LEMMA NbBidIs ==
  ASSUME ReduceTyped, LinesKnown
  PROVE  Lines \subseteq 0 .. NbRay - 1 /\ NbBid = Cardinality(Lines) /\ NbBid \in 0..NbRay
<1>1. Lines \subseteq 0 .. NbRay - 1 /\ NbRay \in Nat /\ NbBid = Cardinality(Lines)
  BY DEF ReduceTyped, LinesKnown, Lines, AllRays
<1> QED BY <1>1, PartOfRange

\* Step 3: the rays are orthogonal to the equalities, so Gauss4 moves no
\* product of a ray with an inequality across zero and the bits stay right.
LEMMA ReduceEqualitiesStep ==
  ASSUME InStep3, ReduceEqualities
  PROVE  GotoEmpty \/ (pc' = "step4" /\ InStep4' /\ NbConstraints' = NbConstraints)
<1> SUFFICES ASSUME ~GotoEmpty PROVE pc' = "step4" /\ InStep4' /\ NbConstraints' = NbConstraints
  OBVIOUS
<1> DEFINE m == NbConstraints
           g == Gauss4(Mat, NbEq, m)
<1>1. /\ pc' = "step4" /\ Mat' = g.M /\ NbEq2' = g.rank /\ i' = 0 /\ k' = NbRay
      /\ UNCHANGED <<Ray, Sat, NbRay, NbBid, bits, NbEq>>
  BY DEF ReduceEqualities
<1>2. /\ m \in Nat /\ Mat \in MatrixOf(m) /\ NbRay \in Nat /\ Ray \in MatrixOf(NbRay)
      /\ Upward(Ray) /\ DOMAIN Sat = AllRays /\ AllRays = 0 .. NbRay - 1
      /\ DOMAIN bits = ConstraintRows /\ ConstraintRows = 0 .. m - 1
      /\ Matched(Ray, NbRay, Mat, m, Sat, bits) /\ LinesKnown /\ NbEq \in 0..m
      /\ \A c \in 0 .. NbEq - 1 : \A r \in AllRays : Saturates(r, c)
  BY DEF InStep3, ReduceTyped, BitsKnown, AllRays, ConstraintRows
<1>3. NbBid \in 0..NbRay
  BY NbBidIs DEF InStep3
<1> HIDE DEF m
<1>4. Mat' \in MatrixOf(m) /\ NbEq2' \in 0..NbEq
  BY <1>1, <1>2, GaussCorrect DEF Equivalent
<1> HIDE DEF g
<1>5. ASSUME NEW r \in 0 .. NbRay - 1, NEW c \in 0 .. m - 1
      PROVE  /\ InnerProduct(Ray[r], Mat'[c]) >= 0
             /\ bits[c] \notin Sat[r] <=> InnerProduct(Ray[r], Mat'[c]) = 0
  <2>1. Ray[r] \in IntRow /\ Mat[c] \in IntRow /\ Mat'[c] \in IntRow
    BY <1>2, <1>4 DEF MatrixOf
  <2>2. ASSUME NEW x \in 0 .. NbEq - 1 PROVE InnerProduct(Ray[r], Mat[x]) = 0
    <3>1. x \in 0 .. m - 1
      BY <1>2
    <3>2. Saturates(r, x)
      BY <1>2
    <3> QED BY <1>2, <3>1, <3>2 DEF Matched, Saturates
  <2>3. SameSign(InnerProduct(Ray[r], Mat'[c]), InnerProduct(Ray[r], Mat[c]))
    BY <1>1, <1>2, <2>1, <2>2, ReducedProduct DEF g
  <2>4. /\ InnerProduct(Ray[r], Mat[c]) >= 0
        /\ bits[c] \notin Sat[r] <=> InnerProduct(Ray[r], Mat[c]) = 0
    BY <1>2 DEF Matched
  <2>5. InnerProduct(Ray[r], Mat'[c]) \in Int /\ InnerProduct(Ray[r], Mat[c]) \in Int
    BY <2>1, InnerProductInt
  <2> QED BY <2>3, <2>4, <2>5 DEF SameSign
<1>6. NbConstraints' = m /\ ConstraintRows' = ConstraintRows /\ AllRays' = AllRays
  <2>1. NbConstraints' = m
    BY <1>2, <1>4, LengthIs DEF NbConstraints, Length
  <2> QED BY <1>1, <2>1 DEF ConstraintRows, AllRays, m
<1>7. ReduceTyped'
  BY <1>1, <1>2, <1>4, <1>6 DEF ReduceTyped
<1>8. BitsKnown'
  BY <1>1, <1>2, <1>5, <1>6 DEF BitsKnown, Matched
<1>9. LinesKnown'
  <2>1. Lines' = Lines
    BY <1>1, <1>6 DEF Lines, SaturatesAll, m
  <2> QED BY <1>1, <1>2, <1>6, <2>1 DEF LinesKnown, AtInfinity, Saturates
<1>10. \A c \in 0 .. NbEq' - 1 : \A r \in AllRays' : Saturates(r, c)'
  BY <1>1, <1>2, <1>6 DEF Saturates
<1>11. InStep3'
  BY <1>1, <1>2, <1>6, <1>7, <1>8, <1>9, <1>10 DEF InStep3
<1>12. i' \in 0..NbBid' /\ k' \in 0..NbRay'
  BY <1>1, <1>2, <1>3
<1>13. (\A r \in 0 .. i' - 1 : SaturatesAll(Ray[r])') /\ (\A r \in k' .. NbRay' - 1 : ~SaturatesAll(Ray[r])')
  BY <1>1, <1>2
<1>14. NbConstraints' = NbConstraints
  BY <1>6 DEF m
<1> QED BY <1>1, <1>4, <1>11, <1>12, <1>13, <1>14 DEF InStep4

\* Step 4 finds a line between i and k: the search never meets row i.
LEMMA LastLineIs ==
  ASSUME InStep4, i < NbBid, ~SaturatesAll(Ray[i])
  PROVE  /\ LastLine \in i + 1 .. k - 1 /\ SaturatesAll(Ray[LastLine])
         /\ \A r \in LastLine + 1 .. NbRay - 1 : ~SaturatesAll(Ray[r])
<1> DEFINE T == {r \in i + 1 .. k - 1 : SaturatesAll(Ray[r])}
<1>1. /\ Lines \subseteq 0 .. NbRay - 1 /\ NbBid = Cardinality(Lines) /\ NbBid \in 0..NbRay
      /\ NbRay \in Nat /\ i \in 0..NbBid /\ k \in 0..NbRay
      /\ \A r \in k .. NbRay - 1 : ~SaturatesAll(Ray[r])
  BY NbBidIs DEF InStep4, InStep3, ReduceTyped
<1>2. i \in Nat /\ i \notin Lines
  BY <1>1 DEF Lines
<1>3. \E r \in Lines : r > i
  BY <1>1, <1>2, OneAfter
<1>4. PICK z \in Lines : z > i
  BY <1>3
<1>5. z \in 0 .. NbRay - 1 /\ SaturatesAll(Ray[z])
  BY <1>1, <1>4 DEF Lines
<1>6. z \in T
  <2>1. z < k
    BY <1>1, <1>5
  <2> QED BY <1>1, <1>4, <1>5, <2>1
<1>7. T \subseteq Nat /\ T # {} /\ k \in Nat /\ \A r \in T : r <= k
  BY <1>1, <1>6
<1>8. LastLine = CHOOSE r \in T : \A q \in T : q <= r
  BY <1>6 DEF LastLine
<1>9. \E r \in T : \A q \in T : q <= r
  <2> HIDE DEF T
  <2> QED BY <1>7, GreatestElement
<1>10. LastLine \in T /\ \A q \in T : q <= LastLine
  <2> HIDE DEF T
  <2> QED BY <1>8, <1>9
<1>11. LastLine \in i + 1 .. k - 1 /\ SaturatesAll(Ray[LastLine])
  BY <1>10
<1>12. ASSUME NEW r \in LastLine + 1 .. NbRay - 1 PROVE ~SaturatesAll(Ray[r])
  <2>1. CASE r \in k .. NbRay - 1
    BY <1>1, <2>1
  <2>2. CASE r \notin k .. NbRay - 1
    <3>1. r \in i + 1 .. k - 1 /\ ~(r <= LastLine)
      BY <1>1, <1>11, <2>2
    <3> QED BY <1>10, <3>1
  <2> QED BY <2>1, <2>2
<1> QED BY <1>11, <1>12

\* The rows of Ray have moved with their rows of Sat.
RaysSwapped ==
  \/ UNCHANGED <<Ray, Sat>>
  \/ \E a \in 0 .. NbRay - 1, b \in 0 .. NbRay - 1 :
       \A x \in 0 .. NbRay - 1 : Ray'[x] = Ray[Swapped(x, a, b)] /\ Sat'[x] = Sat[Swapped(x, a, b)]

\* Step 4: a line and a ray change places with their rows of Sat.
LEMMA RaiseLineStep ==
  ASSUME pc = "step4", InStep4, RaiseLine
  PROVE  pc' = "step4" /\ InStep4' /\ RaysSwapped
<1> DEFINE m == NbConstraints
           n == NbRay
<1>1. /\ i < NbBid /\ i' = i + 1 /\ pc' = "step4"
      /\ UNCHANGED <<Mat, NbBid, NbRay, bits, NbEq, NbEq2>>
  BY DEF RaiseLine, reduceVars, counts
<1>2. /\ m \in Nat /\ Mat \in MatrixOf(m) /\ n \in Nat /\ Ray \in MatrixOf(n)
      /\ Upward(Ray) /\ DOMAIN Sat = 0 .. n - 1 /\ AllRays = 0 .. n - 1
      /\ DOMAIN bits = ConstraintRows /\ ConstraintRows = 0 .. m - 1
      /\ Matched(Ray, n, Mat, m, Sat, bits) /\ LinesKnown /\ NbEq \in 0..m
      /\ \A c \in 0 .. NbEq - 1 : \A r \in AllRays : Saturates(r, c)
      /\ NbEq2 \in 0..NbEq /\ i \in 0..NbBid /\ k \in 0..n
      /\ \A r \in 0 .. i - 1 : SaturatesAll(Ray[r])
      /\ \A r \in k .. n - 1 : ~SaturatesAll(Ray[r])
  BY DEF InStep4, InStep3, ReduceTyped, BitsKnown, AllRays, ConstraintRows
<1>3. NbBid \in 0..n /\ Lines \subseteq 0 .. n - 1 /\ NbBid = Cardinality(Lines)
  BY NbBidIs DEF InStep4, InStep3
<1>4. /\ NbConstraints' = m /\ ConstraintRows' = ConstraintRows /\ AllRays' = AllRays /\ NbRay' = n
      /\ \A p : SaturatesAll(p)' <=> SaturatesAll(p)
  BY <1>1 DEF NbConstraints, ConstraintRows, AllRays, SaturatesAll
<1> HIDE DEF m, n
<1>5. i \in Nat /\ i + 1 \in 0..NbBid /\ i \in 0 .. n - 1
  BY <1>1, <1>2, <1>3
<1>6. CASE SaturatesAll(Ray[i])
  <2>1. UNCHANGED <<Ray, Sat, k>>
    BY <1>6 DEF RaiseLine
  <2>2. InStep3'
    BY <1>1, <1>4, <2>1 DEF InStep4, InStep3, ReduceTyped, BitsKnown, LinesKnown, Lines, Saturates,
         AtInfinity, AllRays, m, n
  <2>3. \A r \in 0 .. i' - 1 : SaturatesAll(Ray'[r])
    <3>1. \A r \in 0 .. i' - 1 : r = i \/ r \in 0 .. i - 1
      BY <1>1, <1>5
    <3> QED BY <1>2, <1>6, <2>1, <3>1
  <2> QED BY <1>1, <1>2, <1>4, <1>5, <2>1, <2>2, <2>3 DEF InStep4, RaysSwapped
<1>7. CASE ~SaturatesAll(Ray[i])
  <2> DEFINE q == LastLine
             from(x) == Swapped(x, i, q)
  <2>1. k' = q /\ Ray' = Exchange(Ray, i, q) /\ Sat' = Exchange(Sat, i, q)
    BY <1>7 DEF RaiseLine, BExchange, Exchange
  <2>2. /\ q \in i + 1 .. k - 1 /\ SaturatesAll(Ray[q])
        /\ \A r \in q + 1 .. n - 1 : ~SaturatesAll(Ray[r])
    BY <1>1, <1>7, LastLineIs DEF n
  <2> HIDE DEF q
  <2>3. q \in 0 .. n - 1 /\ i < q
    BY <1>2, <1>5, <2>2
  <2>4. ASSUME NEW x \in 0 .. n - 1
        PROVE  from(x) \in 0 .. n - 1 /\ Ray'[x] = Ray[from(x)] /\ Sat'[x] = Sat[from(x)]
    <3>1. DOMAIN Ray = 0 .. n - 1 /\ DOMAIN Sat = 0 .. n - 1
      BY <1>2 DEF MatrixOf
    <3> QED BY <1>5, <2>1, <2>3, <3>1 DEF Exchange, Swapped
  <2>5. DOMAIN Sat' = 0 .. n - 1 /\ Ray' = [x \in 0 .. n - 1 |-> Ray'[x]] /\ DOMAIN Ray' = 0 .. n - 1
    <3>1. DOMAIN Ray = 0 .. n - 1 /\ DOMAIN Sat = 0 .. n - 1
      BY <1>2 DEF MatrixOf
    <3> QED BY <2>1, <3>1 DEF Exchange
  <2>6. Ray' \in MatrixOf(n) /\ Upward(Ray')
    <3>1. \A x \in 0 .. n - 1 : Ray[x] \in IntRow /\ Ray[x][Dimension] >= 0
      BY <1>2 DEF MatrixOf, Upward
    <3> HIDE DEF from
    <3> QED BY <2>4, <2>5, <3>1 DEF MatrixOf, Upward
  <2>7. ReduceTyped'
    BY <1>1, <1>2, <1>4, <2>5, <2>6 DEF ReduceTyped
  <2>8. BitsKnown'
    <3>1. Matched(Ray', n, Mat, m, Sat', bits)
      <4> HIDE DEF from
      <4> QED BY <1>2, <2>4, MatchedRaysMoved
    <3> QED BY <1>1, <1>2, <1>4, <3>1 DEF BitsKnown
  <2>9. ASSUME NEW r \in 0 .. n - 1 PROVE \A c : Saturates(r, c)' <=> Saturates(from(r), c)
    <3> HIDE DEF from
    <3> QED BY <1>1, <2>4 DEF Saturates
  <2>10. \A r \in 0 .. n - 1 : r \in Lines <=> SaturatesAll(Ray[r])
    BY <1>2 DEF Lines
  <2>11. i \notin Lines /\ q \in Lines
    BY <1>5, <1>7, <2>2, <2>3, <2>10
  <2>12. Lines' = (Lines \ {q}) \cup {i}
    <3>1. ASSUME NEW r \in 0 .. n - 1 PROVE SaturatesAll(Ray[r])' <=> from(r) \in Lines
      <4> HIDE DEF from
      <4> QED BY <1>4, <2>4, <2>10
    <3>2. Lines' = {r \in 0 .. n - 1 : from(r) \in Lines}
      <4> HIDE DEF from
      <4> QED BY <1>2, <1>4, <3>1 DEF Lines
    <3>3. ASSUME NEW r \in 0 .. n - 1 PROVE r \in (Lines \ {q}) \cup {i} <=> from(r) \in Lines
      BY <2>3, <2>11 DEF Swapped
    <3> HIDE DEF from
    <3> QED BY <1>3, <1>5, <3>2, <3>3
  <2>13. LinesKnown'
    <3> HIDE DEF from
    <3>1. Cardinality(Lines') = Cardinality(Lines)
      BY <1>2, <1>3, <2>11, <2>12, OneMoved
    <3>2. ASSUME NEW r \in Lines'
          PROVE  AtInfinity(Ray'[r]) /\ \A c \in ConstraintRows : Saturates(r, c)'
      <4>1. r \in 0 .. n - 1 /\ from(r) \in Lines
        <5>1. r \in 0 .. n - 1
          BY <1>3, <1>5, <2>12
        <5> QED BY <2>3, <2>11, <2>12, <5>1 DEF from, Swapped
      <4> QED BY <1>2, <2>4, <2>9, <4>1 DEF LinesKnown, AtInfinity
    <3> QED BY <1>1, <1>3, <1>4, <3>1, <3>2 DEF LinesKnown, AtInfinity
  <2>14. ASSUME NEW c \in 0 .. NbEq - 1, NEW r \in 0 .. n - 1 PROVE Saturates(r, c)'
    <3>1. from(r) \in AllRays
      BY <1>2, <2>4
    <3> HIDE DEF from
    <3>2. Saturates(from(r), c)
      BY <1>2, <3>1
    <3> QED BY <2>9, <3>2
  <2>15. InStep3'
    BY <1>1, <1>2, <1>4, <2>7, <2>8, <2>13, <2>14 DEF InStep3
  <2>16. ASSUME NEW r \in 0 .. i' - 1 PROVE SaturatesAll(Ray[r])'
    <3>1. r \in 0 .. n - 1 /\ (r = i \/ (r \in 0 .. i - 1 /\ r # i /\ r # q))
      BY <1>1, <1>2, <1>5, <2>3
    <3>2. SaturatesAll(Ray[from(r)])
      BY <1>2, <2>2, <3>1 DEF Swapped
    <3> HIDE DEF from
    <3> QED BY <1>4, <2>4, <3>1, <3>2
  <2>17. ASSUME NEW r \in k' .. NbRay' - 1 PROVE ~SaturatesAll(Ray[r])'
    <3>1. r \in 0 .. n - 1 /\ (r = q \/ (r \in q + 1 .. n - 1 /\ r # i /\ r # q))
      BY <1>4, <1>5, <2>1, <2>3
    <3>2. ~SaturatesAll(Ray[from(r)])
      BY <1>7, <2>2, <3>1 DEF Swapped
    <3> HIDE DEF from
    <3> QED BY <1>4, <2>4, <3>1, <3>2
  <2>18. k' \in 0..NbRay' /\ i' \in 0..NbBid'
    BY <1>1, <1>2, <1>4, <1>5, <2>1, <2>3
  <2>19. RaysSwapped
    BY <1>5, <2>3, <2>4 DEF RaysSwapped, n
  <2> QED BY <1>1, <1>2, <2>15, <2>16, <2>17, <2>18, <2>19 DEF InStep4
<1> QED BY <1>6, <1>7

\* After step 5: equalities and lines are the first rows, and every ray
\* verifies every constraint, with equality where one of them comes first.
Separated ==
  /\ ReduceTyped /\ BitsKnown
  /\ NbEq \in 0..NbConstraints /\ NbEq2 \in 0..NbEq
  /\ NbBid \in 0..NbRay /\ NbBid2 \in 0..NbBid
  /\ \A r \in AllRays :
       /\ Inside(Ray[r], r < NbBid)
       /\ \A c \in ConstraintRows : Agree(Ray[r], Mat[c], c < NbEq \/ r < NbBid)

\* When step 4 stops the first NbBid rays are the lines.
LEMMA LinesFirst ==
  ASSUME InStep4, ~(i < NbBid /\ k > i), NEW r \in 0 .. NbBid - 1
  PROVE  r \in Lines
<1>1. /\ Lines \subseteq 0 .. NbRay - 1 /\ NbBid = Cardinality(Lines) /\ NbBid \in 0..NbRay
      /\ NbRay \in Nat /\ i \in 0..NbBid /\ k \in 0..NbRay
      /\ \A x \in 0 .. i - 1 : SaturatesAll(Ray[x])
      /\ \A x \in k .. NbRay - 1 : ~SaturatesAll(Ray[x])
  BY NbBidIs DEF InStep4, InStep3, ReduceTyped
<1>2. i = NbBid
  <2>1. SUFFICES ASSUME i < NbBid, k <= i PROVE FALSE
    BY <1>1
  <2>2. Lines \subseteq 0 .. i - 1
    <3>1. ASSUME NEW x \in Lines PROVE x \in 0 .. i - 1
      <4>1. x \in 0 .. NbRay - 1 /\ SaturatesAll(Ray[x])
        BY <1>1 DEF Lines
      <4>2. x \notin k .. NbRay - 1
        BY <1>1, <4>1
      <4> QED BY <1>1, <2>1, <4>1, <4>2
    <3> QED BY <3>1
  <2>3. i \in Nat
    BY <1>1
  <2>4. Cardinality(Lines) \in 0..i
    BY <2>2, <2>3, PartOfRange
  <2> QED BY <1>1, <2>1, <2>4
<1>3. r \in 0 .. NbRay - 1 /\ SaturatesAll(Ray[r])
  BY <1>1, <1>2
<1> QED BY <1>3 DEF Lines, AllRays

\* Step 5: the constraints are orthogonal to the lines, so Gauss4 moves no
\* product of a constraint with a ray across zero; lines are at infinity, so
\* the last coordinates keep their signs as well.
LEMMA ReduceLinesStep ==
  ASSUME InStep4, ReduceLines
  PROVE  GotoEmpty \/ (pc' = "step6" /\ Separated')
<1> SUFFICES ASSUME ~GotoEmpty PROVE pc' = "step6" /\ Separated'
  OBVIOUS
<1> DEFINE m == NbConstraints
           n == NbRay
           g == Gauss4(Ray, NbBid, n)
<1>1. /\ pc' = "step6" /\ Ray' = g.M /\ NbBid2' = g.rank /\ ~(i < NbBid /\ k > i)
      /\ UNCHANGED <<Mat, Sat, NbRay, NbBid, NbEq, NbEq2, bits>>
  BY DEF ReduceLines
<1>2. /\ m \in Nat /\ Mat \in MatrixOf(m) /\ n \in Nat /\ Ray \in MatrixOf(n)
      /\ Upward(Ray) /\ DOMAIN Sat = 0 .. n - 1 /\ AllRays = 0 .. n - 1 /\ ConstraintRows = 0 .. m - 1
      /\ Matched(Ray, n, Mat, m, Sat, bits) /\ LinesKnown /\ NbEq \in 0..m /\ NbEq2 \in 0..NbEq
      /\ \A c \in 0 .. NbEq - 1 : \A r \in AllRays : Saturates(r, c)
      /\ DOMAIN bits = ConstraintRows
  BY DEF InStep4, InStep3, ReduceTyped, BitsKnown, AllRays, ConstraintRows
<1>3. NbBid \in 0..n
  BY NbBidIs DEF InStep4, InStep3
<1>4. NbConstraints' = m /\ ConstraintRows' = 0 .. m - 1 /\ AllRays' = 0 .. n - 1 /\ NbRay' = n
  BY <1>1 DEF NbConstraints, ConstraintRows, AllRays
<1> HIDE DEF m, n
<1>5. Ray' \in MatrixOf(n) /\ NbBid2' \in 0..NbBid
  BY <1>1, <1>2, <1>3, GaussCorrect DEF Equivalent
<1> HIDE DEF g
<1>6. \A r \in 0 .. NbBid - 1 : r \in 0 .. n - 1 /\ r \in Lines
  BY <1>1, <1>2, <1>3, LinesFirst
<1>7. ASSUME NEW r \in 0 .. n - 1, NEW p \in IntRow, \A x \in 0 .. NbBid - 1 : InnerProduct(p, Ray[x]) = 0
      PROVE  /\ SameSign(InnerProduct(Ray'[r], p), InnerProduct(Ray[r], p))
             /\ InnerProduct(Ray'[r], p) \in Int /\ InnerProduct(Ray[r], p) \in Int
  <2>1. SameSign(InnerProduct(p, Ray'[r]), InnerProduct(p, Ray[r]))
    BY <1>1, <1>2, <1>3, <1>7, ReducedProduct DEF g
  <2>2. Ray[r] \in IntRow /\ Ray'[r] \in IntRow
    BY <1>2, <1>5 DEF MatrixOf
  <2>3. InnerProduct(p, Ray'[r]) = InnerProduct(Ray'[r], p) /\ InnerProduct(p, Ray[r]) = InnerProduct(Ray[r], p)
    BY <2>2, InnerProductSymmetric
  <2> QED BY <2>1, <2>2, <2>3, InnerProductInt
<1>8. ASSUME NEW r \in 0 .. n - 1 PROVE Inside(Ray'[r], r < NbBid) /\ Ray'[r][Dimension] >= 0
  <2> DEFINE e == Axis(Dimension)
  <2>1. ASSUME NEW q \in IntRow PROVE e \in IntRow /\ InnerProduct(q, e) = q[Dimension] /\ InnerProduct(e, q) = q[Dimension]
    <3>1. Dimension \in Coordinates
      BY DimensionAssumption DEF Coordinates
    <3>2. e \in IntRow /\ InnerProduct(q, e) = q[Dimension]
      BY <3>1, AxisProduct
    <3> HIDE DEF e
    <3> QED BY <3>2, InnerProductSymmetric
  <2>2. Ray[r] \in IntRow /\ Ray'[r] \in IntRow /\ \A x \in 0 .. NbBid - 1 : Ray[x] \in IntRow
    BY <1>2, <1>5, <1>6 DEF MatrixOf
  <2> HIDE DEF e
  <2>3. \A x \in 0 .. NbBid - 1 : Ray[x][Dimension] = 0
    BY <1>2, <1>6 DEF LinesKnown, AtInfinity
  <2>4. \A x \in 0 .. NbBid - 1 : InnerProduct(e, Ray[x]) = 0
    BY <2>1, <2>2, <2>3
  <2>5. SameSign(Ray'[r][Dimension], Ray[r][Dimension]) /\ Ray'[r][Dimension] \in Int /\ Ray[r][Dimension] \in Int
    BY <1>7, <2>1, <2>2, <2>4
  <2>6. Ray[r][Dimension] >= 0
    BY <1>2 DEF Upward, MatrixOf
  <2>7. r < NbBid => Ray[r][Dimension] = 0
    BY <1>3, <2>3
  <2> QED BY <2>5, <2>6, <2>7 DEF SameSign, Inside
<1>9. ASSUME NEW r \in 0 .. n - 1, NEW c \in 0 .. m - 1
      PROVE  /\ Agree(Ray'[r], Mat[c], c < NbEq \/ r < NbBid)
             /\ InnerProduct(Ray'[r], Mat[c]) >= 0
             /\ bits[c] \notin Sat[r] <=> InnerProduct(Ray'[r], Mat[c]) = 0
  <2>1. Mat[c] \in IntRow
    BY <1>2 DEF MatrixOf
  <2>2. ASSUME NEW x \in 0 .. n - 1
        PROVE  /\ InnerProduct(Ray[x], Mat[c]) >= 0
               /\ Saturates(x, c) <=> InnerProduct(Ray[x], Mat[c]) = 0
    BY <1>2 DEF Matched, Saturates
  <2>3. ASSUME NEW x \in 0 .. NbBid - 1 PROVE InnerProduct(Ray[x], Mat[c]) = 0
    <3>1. x \in 0 .. n - 1 /\ Saturates(x, c)
      BY <1>2, <1>6 DEF LinesKnown
    <3> QED BY <2>2, <3>1
  <2>4. \A x \in 0 .. NbBid - 1 : InnerProduct(Mat[c], Ray[x]) = 0
    <3>1. \A x \in 0 .. NbBid - 1 : Ray[x] \in IntRow
      BY <1>2, <1>6 DEF MatrixOf
    <3> QED BY <2>1, <2>3, <3>1, InnerProductSymmetric
  <2>5. /\ SameSign(InnerProduct(Ray'[r], Mat[c]), InnerProduct(Ray[r], Mat[c]))
        /\ InnerProduct(Ray'[r], Mat[c]) \in Int /\ InnerProduct(Ray[r], Mat[c]) \in Int
    BY <1>7, <2>1, <2>4
  <2>6. c < NbEq \/ r < NbBid => InnerProduct(Ray[r], Mat[c]) = 0
    <3>1. CASE c < NbEq
      <4>1. c \in 0 .. NbEq - 1
        BY <1>2, <3>1
      <4> QED BY <1>2, <2>2, <4>1
    <3>2. CASE r < NbBid
      <4>1. r \in 0 .. NbBid - 1
        BY <1>3, <3>2
      <4> QED BY <2>3, <4>1
    <3> QED BY <3>1, <3>2
  <2>7. InnerProduct(Ray[r], Mat[c]) >= 0 /\ (bits[c] \notin Sat[r] <=> InnerProduct(Ray[r], Mat[c]) = 0)
    BY <2>2 DEF Saturates
  <2> QED BY <2>5, <2>6, <2>7 DEF SameSign, Agree
<1>10. ReduceTyped'
  <2>1. Upward(Ray')
    BY <1>5, <1>8 DEF Upward, MatrixOf
  <2> QED BY <1>1, <1>2, <1>4, <1>5, <2>1 DEF ReduceTyped
<1>11. BitsKnown'
  BY <1>1, <1>2, <1>4, <1>9 DEF BitsKnown, Matched
<1> QED BY <1>1, <1>2, <1>3, <1>4, <1>5, <1>8, <1>9, <1>10, <1>11 DEF Separated

-----------------------------------------------------------------------------
(* Steps 6 to 10.                                                          *)

\* Status words do not matter to what a ray and a constraint agree on, ...
LEMMA AgreeSame ==
  ASSUME NEW r \in IntRow, NEW s \in IntRow, SameCoordinates(r, s), NEW p \in IntRow, NEW q \in IntRow,
         SameCoordinates(p, q), NEW saturated \in BOOLEAN
  PROVE  Agree(r, p, saturated) => Agree(s, q, saturated)
<1>1. \A e \in Coordinates : s[e] = r[e] /\ q[e] = p[e]
  BY DEF SameCoordinates
<1>2. InnerProduct(s, q) = InnerProduct(r, q) /\ InnerProduct(q, r) = InnerProduct(p, r)
  BY <1>1, InnerProductSame
<1>3. InnerProduct(s, q) = InnerProduct(r, p)
  BY <1>2, InnerProductSymmetric
<1> QED BY <1>3 DEF Agree

\* ... nor to where a ray lies, ...
LEMMA InsideSame ==
  ASSUME NEW r, NEW s, SameCoordinates(r, s), NEW line \in BOOLEAN, Inside(r, line)
  PROVE  Inside(s, line)
<1>1. Dimension \in Coordinates
  BY DimensionAssumption DEF Coordinates
<1>2. s[Dimension] = r[Dimension]
  BY <1>1 DEF SameCoordinates
<1> QED BY <1>2 DEF Inside

\* ... nor to the rows after step 5.
LEMMA SeparatedSame ==
  ASSUME Separated, Same(Ray, Ray', NbRay), Same(Mat, Mat', NbConstraints),
         UNCHANGED <<Sat, bits, NbRay, NbBid, NbBid2, NbEq, NbEq2>>
  PROVE  Separated' /\ NbConstraints' = NbConstraints
<1> DEFINE m == NbConstraints
           n == NbRay
<1>1. /\ ReduceTyped /\ m \in Nat /\ Mat \in MatrixOf(m) /\ n \in Nat /\ Ray \in MatrixOf(n) /\ Upward(Ray)
      /\ NbEq \in 0..m /\ NbEq2 \in 0..NbEq /\ NbBid \in 0..n /\ NbBid2 \in 0..NbBid
      /\ DOMAIN Sat = 0 .. n - 1 /\ AllRays = 0 .. n - 1 /\ ConstraintRows = 0 .. m - 1
      /\ \A r \in AllRays :
           /\ Inside(Ray[r], r < NbBid)
           /\ \A c \in ConstraintRows : Agree(Ray[r], Mat[c], c < NbEq \/ r < NbBid)
      /\ DOMAIN bits = ConstraintRows /\ Matched(Ray, n, Mat, m, Sat, bits)
  BY DEF Separated, ReduceTyped, AllRays, ConstraintRows, BitsKnown
<1>2. Same(Ray, Ray', n) /\ Same(Mat, Mat', m) /\ Ray' \in MatrixOf(n) /\ Mat' \in MatrixOf(m) /\ NbRay' = n
  BY DEF Same
<1>3. NbConstraints' = m
  BY <1>1, <1>2, LengthIs DEF NbConstraints, Length
<1> HIDE DEF m, n
<1>4. AllRays' = 0 .. n - 1 /\ ConstraintRows' = 0 .. m - 1
  BY <1>2, <1>3 DEF AllRays, ConstraintRows
<1>5. ReduceTyped'
  BY <1>1, <1>2, <1>3, <1>4, UpwardSame DEF ReduceTyped
<1>6. ASSUME NEW r \in 0 .. n - 1 PROVE Ray[r] \in IntRow /\ Ray'[r] \in IntRow /\ SameCoordinates(Ray[r], Ray'[r])
  BY <1>2 DEF Same, MatrixOf
<1>7. ASSUME NEW c \in 0 .. m - 1 PROVE Mat[c] \in IntRow /\ Mat'[c] \in IntRow /\ SameCoordinates(Mat[c], Mat'[c])
  BY <1>2 DEF Same, MatrixOf
<1>8. ASSUME NEW r \in 0 .. n - 1 PROVE Inside(Ray'[r], r < NbBid)
  <2>1. Inside(Ray[r], r < NbBid)
    BY <1>1
  <2>2. (r < NbBid) \in BOOLEAN
    OBVIOUS
  <2> QED BY <1>6, <2>1, <2>2, InsideSame
<1>9. ASSUME NEW r \in 0 .. n - 1, NEW c \in 0 .. m - 1 PROVE Agree(Ray'[r], Mat'[c], c < NbEq \/ r < NbBid)
  <2>1. Agree(Ray[r], Mat[c], c < NbEq \/ r < NbBid)
    BY <1>1
  <2>2. (c < NbEq \/ r < NbBid) \in BOOLEAN
    OBVIOUS
  <2> QED BY <1>6, <1>7, <2>1, <2>2, AgreeSame
<1>10. BitsKnown'
  <2>1. Matched(Ray', n, Mat', m, Sat, bits)
    BY <1>1, <1>2, MatchedSame
  <2> QED BY <1>1, <1>2, <1>3, <1>4, <2>1 DEF BitsKnown
<1>11. Separated'
  BY <1>1, <1>3, <1>4, <1>5, <1>8, <1>9, <1>2, <1>10 DEF Separated
<1> QED BY <1>3, <1>11 DEF m

\* Step 6 writes status words only.
LEMMA ClassifyConstraintsStep ==
  ASSUME Separated, ClassifyConstraints
  PROVE  GotoEmpty \/ (pc' = "step7" /\ Separated' /\ Same(Mat, Mat', NbConstraints) /\ NbConstraints' = NbConstraints)
<1> SUFFICES ASSUME ~GotoEmpty
             PROVE  pc' = "step7" /\ Separated' /\ Same(Mat, Mat', NbConstraints) /\ NbConstraints' = NbConstraints
  OBVIOUS
<1>1. /\ pc' = "step7" /\ Mat' = [c \in ConstraintRows |-> WithStatus(Mat[c], ConstraintStatus(Mat[c]))]
      /\ UNCHANGED <<Ray, Sat, bits, NbRay, NbBid, NbBid2, NbEq, NbEq2>>
  BY DEF ClassifyConstraints, reduceVars, counts
<1>2. NbConstraints \in Nat /\ Mat \in MatrixOf(NbConstraints) /\ Ray \in MatrixOf(NbRay)
        /\ ConstraintRows = 0 .. NbConstraints - 1
  BY DEF Separated, ReduceTyped, ConstraintRows
<1>4. \A c \in ConstraintRows : ConstraintStatus(Mat[c]) \in Int
  BY DEF ConstraintStatus
<1>5. Same(Mat, Mat', NbConstraints)
  <2>1. Mat' = [c \in 0 .. NbConstraints - 1 |-> Mat'[c]]
    BY <1>1, <1>2
  <2>2. \A c \in 0 .. NbConstraints - 1 : Mat'[c] = WithStatus(Mat[c], ConstraintStatus(Mat[c]))
    BY <1>1, <1>2
  <2> QED BY <1>2, <1>4, <2>1, <2>2, SameRows
<1>6. Same(Ray, Ray', NbRay)
  BY <1>1, <1>2, SameItself
<1> QED BY <1>1, <1>5, <1>6, SeparatedSame

\* The polyhedron under construction, and the rays still to be examined.
IsRecord(P) == DOMAIN P = {"NbEq", "NbBid", "Constraint", "Ray"}

\* Pol under construction: sound so far, and all the rays still to come
\* verify the constraints it has.
Building ==
  /\ Separated
  /\ IsRecord(Pol) /\ IsPolyhedron(Pol) /\ PolSound(Pol)
  /\ Pol.NbEq = NbEq2 /\ Pol.NbBid = NbBid2
  /\ \A c \in DOMAIN Pol.Constraint : \A r \in AllRays :
       Agree(Ray[r], Pol.Constraint[c], c < NbEq2 \/ r < NbBid)

\* Step 9, at inequality j: the rays of Pol are its lines.
InStep9 ==
  /\ Building
  /\ j \in NbEq..NbConstraints
  /\ DOMAIN Pol.Ray = 0 .. NbBid2 - 1
  /\ \A r \in 0 .. NbBid2 - 1 : Pol.Ray[r] = Ray[r]

\* Step 10, at ray i.
InStep10 == Building /\ i \in NbBid..NbRay

\* Steps 7 and 8: Pol gets the first rows, its equalities and its lines.
LEMMA ClassifyRaysStep ==
  ASSUME Separated, ClassifyRays
  PROVE  pc' = "step9" /\ InStep9' /\ Same(Ray, Ray', NbRay)
<1> DEFINE m == NbConstraints
           n == NbRay
<1>1. /\ pc' = "step9" /\ Ray' = [r \in AllRays |-> WithStatus(Ray[r], RayStatus(Ray[r]))]
      /\ Pol' = [NbEq |-> NbEq2, NbBid |-> NbBid2, Constraint |-> Rows(Mat, NbEq2), Ray |-> Rows(Ray', NbBid2)]
      /\ j' = NbEq
      /\ UNCHANGED <<Mat, Sat, bits, NbRay, NbBid, NbBid2, NbEq, NbEq2>>
  BY DEF ClassifyRays, counts
<1>2. /\ m \in Nat /\ Mat \in MatrixOf(m) /\ n \in Nat /\ Ray \in MatrixOf(n) /\ AllRays = 0 .. n - 1
      /\ NbEq \in 0..m /\ NbEq2 \in 0..NbEq /\ NbBid \in 0..n /\ NbBid2 \in 0..NbBid
  BY DEF Separated, ReduceTyped, AllRays
<1>3. \A r \in AllRays : RayStatus(Ray[r]) \in Int
  BY DEF RayStatus
<1>4. Same(Ray, Ray', n)
  <2>1. Ray' = [r \in 0 .. n - 1 |-> Ray'[r]]
    BY <1>1, <1>2
  <2>2. \A r \in 0 .. n - 1 : Ray'[r] = WithStatus(Ray[r], RayStatus(Ray[r]))
    BY <1>1, <1>2
  <2> QED BY <1>2, <1>3, <2>1, <2>2, SameRows
<1>5. Same(Mat, Mat', m)
  BY <1>1, <1>2, SameItself
<1>6. Separated' /\ NbConstraints' = m
  BY <1>1, <1>4, <1>5, SeparatedSame
<1> HIDE DEF m, n
<1>7. /\ \A r \in 0 .. n - 1 : Inside(Ray'[r], r < NbBid)
      /\ \A r \in 0 .. n - 1 : \A c \in 0 .. m - 1 : Agree(Ray'[r], Mat[c], c < NbEq \/ r < NbBid)
  <2>1. AllRays' = 0 .. n - 1 /\ ConstraintRows' = 0 .. m - 1 /\ NbBid' = NbBid /\ NbEq' = NbEq /\ Mat' = Mat
    BY <1>1, <1>6 DEF AllRays, ConstraintRows, n
  <2> QED BY <1>6, <2>1 DEF Separated
<1> DEFINE C == Rows(Mat, NbEq2)
           R == Rows(Ray', NbBid2)
<1>8. C \in MatrixOf(NbEq2) /\ \A c \in 0 .. NbEq2 - 1 : C[c] = Mat[c] /\ c \in 0 .. m - 1 /\ c < NbEq
  <2>1. \A c \in 0 .. NbEq2 - 1 : C[c] = Mat[c] /\ c \in 0 .. m - 1 /\ c < NbEq
    BY <1>2 DEF Rows
  <2>2. C = [c \in 0 .. NbEq2 - 1 |-> C[c]]
    BY DEF Rows
  <2> HIDE DEF C
  <2> QED BY <1>2, <2>1, <2>2 DEF MatrixOf
<1>9. R \in MatrixOf(NbBid2) /\ \A r \in 0 .. NbBid2 - 1 : R[r] = Ray'[r] /\ r \in 0 .. n - 1 /\ r < NbBid
  <2>1. \A r \in 0 .. NbBid2 - 1 : R[r] = Ray'[r] /\ r \in 0 .. n - 1 /\ r < NbBid
    BY <1>2 DEF Rows
  <2>2. R = [r \in 0 .. NbBid2 - 1 |-> R[r]]
    BY DEF Rows
  <2>3. Ray' \in MatrixOf(n)
    BY <1>4 DEF Same
  <2> HIDE DEF R
  <2> QED BY <1>2, <2>1, <2>2, <2>3 DEF MatrixOf
<1>10. Pol'.NbEq = NbEq2 /\ Pol'.NbBid = NbBid2 /\ Pol'.Constraint = C /\ Pol'.Ray = R /\ IsRecord(Pol')
  BY <1>1 DEF IsRecord
<1> HIDE DEF C, R
<1>11. NbEq2 \in Nat /\ NbBid2 \in Nat
  BY <1>2
<1>12. /\ Length(C) = NbEq2 /\ IsMatrix(C) /\ DOMAIN C = 0 .. NbEq2 - 1
       /\ Length(R) = NbBid2 /\ IsMatrix(R) /\ DOMAIN R = 0 .. NbBid2 - 1
  BY <1>8, <1>9, <1>11, LengthIs DEF MatrixOf
<1>13. IsPolyhedron(Pol')
  <2>1. NbEq2 \in 0..NbEq2 /\ NbBid2 \in 0..NbBid2 /\ NbEq2 .. NbEq2 - 1 = {} /\ NbBid2 .. NbBid2 - 1 = {}
    BY <1>11
  <2> QED BY <1>10, <1>12, <2>1 DEF IsPolyhedron
<1>14. PolSound(Pol')
  <2>1. ASSUME NEW r \in 0 .. NbBid2 - 1 PROVE Inside(R[r], r < NbBid2)
    <3>1. Inside(Ray'[r], r < NbBid) /\ R[r] = Ray'[r] /\ r < NbBid /\ r < NbBid2
      BY <1>7, <1>9, <1>11
    <3> QED BY <3>1 DEF Inside
  <2>2. ASSUME NEW r \in 0 .. NbBid2 - 1, NEW c \in 0 .. NbEq2 - 1
        PROVE  Agree(R[r], C[c], c < NbEq2 \/ r < NbBid2)
    <3>1. R[r] = Ray'[r] /\ r \in 0 .. n - 1 /\ r < NbBid /\ r < NbBid2
            /\ C[c] = Mat[c] /\ c \in 0 .. m - 1
      BY <1>8, <1>9, <1>11
    <3>2. Agree(Ray'[r], Mat[c], c < NbEq \/ r < NbBid)
      BY <1>7, <3>1
    <3> QED BY <3>1, <3>2 DEF Agree
  <2> QED BY <1>10, <1>12, <2>1, <2>2 DEF PolSound
<1>15. ASSUME NEW c \in 0 .. NbEq2 - 1, NEW r \in 0 .. n - 1
       PROVE  Agree(Ray'[r], C[c], c < NbEq2 \/ r < NbBid)
  <2>1. C[c] = Mat[c] /\ c \in 0 .. m - 1 /\ c < NbEq /\ c < NbEq2
    BY <1>8, <1>11
  <2>2. Agree(Ray'[r], Mat[c], c < NbEq \/ r < NbBid)
    BY <1>7, <2>1
  <2> QED BY <2>1, <2>2 DEF Agree
<1>16. Building'
  <2>1. AllRays' = 0 .. n - 1
    BY <1>1 DEF AllRays, n
  <2> QED BY <1>1, <1>6, <1>10, <1>12, <1>13, <1>14, <1>15, <2>1 DEF Building
<1>17. j' \in NbEq'..NbConstraints'
  BY <1>1, <1>2, <1>6
<1>18. Same(Ray, Ray', NbRay)
  BY <1>4 DEF n
<1> QED BY <1>1, <1>9, <1>10, <1>12, <1>16, <1>17, <1>18 DEF InStep9

\* One more inequality that all the rays verify, one more ray that verifies
\* all the constraints.
LEMMA RowAdded ==
  ASSUME NEW M, IsMatrix(M), NEW p \in IntRow, NEW x \in DOMAIN Appended(M, p), NEW n \in 0..Length(M)
  PROVE  \/ x \in DOMAIN M /\ Appended(M, p)[x] = M[x]
         \/ ~(x < n) /\ Appended(M, p)[x] = p
<1> DEFINE A == Appended(M, p)
           m == Length(M)
<1>1. m \in Nat /\ DOMAIN M = 0 .. m - 1
  BY MatrixIs DEF MatrixOf
<1>2. IsMatrix(A) /\ Length(A) = m + 1 /\ A[m] = p /\ \A y \in 0 .. m - 1 : A[y] = M[y]
  BY AppendedIs
<1>3. DOMAIN A = 0 .. (m + 1) - 1
  BY <1>2, MatrixIs DEF MatrixOf
<1> HIDE DEF A, m
<1>4. x \in 0 .. m - 1 \/ x = m
  BY <1>1, <1>3 DEF A
<1>5. n \in 0..m
  BY DEF m
<1>6. CASE x \in 0 .. m - 1
  BY <1>1, <1>2, <1>6 DEF A
<1>7. CASE x = m
  BY <1>1, <1>2, <1>5, <1>7 DEF A
<1> QED BY <1>4, <1>6, <1>7

\* A sound polyhedron stays so with one more inequality its rays verify, ...
LEMMA ConstraintAdded ==
  ASSUME NEW P, NEW Q, NEW p \in IntRow, IsRecord(P), IsPolyhedron(P), PolSound(P),
         Q = [P EXCEPT !.Constraint = Appended(@, p)], p[0] = 1,
         \A r \in DOMAIN P.Ray : Agree(P.Ray[r], p, r < P.NbBid)
  PROVE  /\ IsRecord(Q) /\ IsPolyhedron(Q) /\ PolSound(Q)
         /\ Q.NbEq = P.NbEq /\ Q.NbBid = P.NbBid /\ Q.Ray = P.Ray /\ Q.Constraint = Appended(P.Constraint, p)
<1> DEFINE A == Appended(P.Constraint, p)
           m == Length(P.Constraint)
<1>1. IsRecord(Q) /\ Q.NbEq = P.NbEq /\ Q.NbBid = P.NbBid /\ Q.Ray = P.Ray /\ Q.Constraint = A
  BY DEF IsRecord
<1>2. IsMatrix(P.Constraint) /\ IsMatrix(P.Ray) /\ P.NbEq \in 0..m /\ P.NbBid \in 0..Length(P.Ray) /\ m \in Nat
  BY MatrixIs DEF IsPolyhedron
<1>3. IsMatrix(A) /\ Length(A) = m + 1 /\ A[m] = p /\ \A y \in 0 .. m - 1 : A[y] = P.Constraint[y]
  BY <1>2, AppendedIs
<1> HIDE DEF m
<1>4. \A c \in P.NbEq .. (m + 1) - 1 : A[c][0] = 1
  <2>1. \A c \in P.NbEq .. (m + 1) - 1 : c = m \/ (c \in P.NbEq .. m - 1 /\ c \in 0 .. m - 1)
    BY <1>2
  <2>2. \A c \in P.NbEq .. m - 1 : P.Constraint[c][0] = 1
    BY DEF IsPolyhedron, m
  <2> HIDE DEF A
  <2> QED BY <1>3, <2>1, <2>2
<1>5. IsPolyhedron(Q)
  <2>1. P.NbEq \in 0 .. m + 1
    BY <1>2
  <2>2. \A r \in P.NbBid .. Length(P.Ray) - 1 : P.Ray[r][0] = 1
    BY DEF IsPolyhedron
  <2> HIDE DEF A
  <2> QED BY <1>1, <1>2, <1>3, <1>4, <2>1, <2>2 DEF IsPolyhedron
<1>6. ASSUME NEW r \in DOMAIN P.Ray, NEW c \in DOMAIN A PROVE Agree(P.Ray[r], A[c], c < P.NbEq \/ r < P.NbBid)
  <2>1. \/ c \in DOMAIN P.Constraint /\ A[c] = P.Constraint[c]
        \/ ~(c < P.NbEq) /\ A[c] = p
    BY <1>2, RowAdded DEF m
  <2> HIDE DEF A
  <2>2. CASE c \in DOMAIN P.Constraint /\ A[c] = P.Constraint[c]
    BY <2>2 DEF PolSound
  <2>3. CASE ~(c < P.NbEq) /\ A[c] = p
    <3>1. Agree(P.Ray[r], p, r < P.NbBid)
      OBVIOUS
    <3> QED BY <2>3, <3>1 DEF Agree
  <2> QED BY <2>1, <2>2, <2>3
<1>7. PolSound(Q)
  <2>1. \A r \in DOMAIN P.Ray : Inside(P.Ray[r], r < P.NbBid)
    BY DEF PolSound
  <2> HIDE DEF A
  <2> QED BY <1>1, <1>6, <2>1 DEF PolSound
<1> QED BY <1>1, <1>5, <1>7

\* ... and with one more ray that verifies its constraints.
LEMMA RayAdded ==
  ASSUME NEW P, NEW Q, NEW p \in IntRow, IsRecord(P), IsPolyhedron(P), PolSound(P),
         Q = [P EXCEPT !.Ray = Appended(@, p)], p[0] = 1, p[Dimension] >= 0,
         \A c \in DOMAIN P.Constraint : Agree(p, P.Constraint[c], c < P.NbEq)
  PROVE  /\ IsRecord(Q) /\ IsPolyhedron(Q) /\ PolSound(Q)
         /\ Q.NbEq = P.NbEq /\ Q.NbBid = P.NbBid /\ Q.Constraint = P.Constraint
<1> DEFINE A == Appended(P.Ray, p)
           n == Length(P.Ray)
<1>1. IsRecord(Q) /\ Q.NbEq = P.NbEq /\ Q.NbBid = P.NbBid /\ Q.Constraint = P.Constraint /\ Q.Ray = A
  BY DEF IsRecord
<1>2. IsMatrix(P.Constraint) /\ IsMatrix(P.Ray) /\ P.NbEq \in 0..Length(P.Constraint) /\ P.NbBid \in 0..n /\ n \in Nat
  BY MatrixIs DEF IsPolyhedron
<1>3. IsMatrix(A) /\ Length(A) = n + 1 /\ A[n] = p /\ \A y \in 0 .. n - 1 : A[y] = P.Ray[y]
  BY <1>2, AppendedIs
<1> HIDE DEF n
<1>4. \A r \in P.NbBid .. (n + 1) - 1 : A[r][0] = 1
  <2>1. \A r \in P.NbBid .. (n + 1) - 1 : r = n \/ (r \in P.NbBid .. n - 1 /\ r \in 0 .. n - 1)
    BY <1>2
  <2>2. \A r \in P.NbBid .. n - 1 : P.Ray[r][0] = 1
    BY DEF IsPolyhedron, n
  <2> HIDE DEF A
  <2> QED BY <1>3, <2>1, <2>2
<1>5. IsPolyhedron(Q)
  <2>1. P.NbBid \in 0 .. n + 1
    BY <1>2
  <2>2. \A c \in P.NbEq .. Length(P.Constraint) - 1 : P.Constraint[c][0] = 1
    BY DEF IsPolyhedron
  <2> HIDE DEF A
  <2> QED BY <1>1, <1>2, <1>3, <1>4, <2>1, <2>2 DEF IsPolyhedron
<1>6. ASSUME NEW r \in DOMAIN A
      PROVE  /\ Inside(A[r], r < P.NbBid)
             /\ \A c \in DOMAIN P.Constraint : Agree(A[r], P.Constraint[c], c < P.NbEq \/ r < P.NbBid)
  <2>1. \/ r \in DOMAIN P.Ray /\ A[r] = P.Ray[r]
        \/ ~(r < P.NbBid) /\ A[r] = p
    BY <1>2, RowAdded DEF n
  <2> HIDE DEF A
  <2>2. CASE r \in DOMAIN P.Ray /\ A[r] = P.Ray[r]
    BY <2>2 DEF PolSound
  <2>3. CASE ~(r < P.NbBid) /\ A[r] = p
    <3>1. \A c \in DOMAIN P.Constraint : Agree(p, P.Constraint[c], c < P.NbEq)
      OBVIOUS
    <3> QED BY <2>3, <3>1 DEF Agree, Inside
  <2> QED BY <2>1, <2>2, <2>3
<1>7. PolSound(Q)
  <2> HIDE DEF A
  <2> QED BY <1>1, <1>6 DEF PolSound
<1> QED BY <1>1, <1>5, <1>7

\* Marking a row redundant, status 2, disturbs nothing.
LEMMA BuildingSame ==
  ASSUME Building, Same(Ray, Ray', NbRay), Same(Mat, Mat', NbConstraints),
         UNCHANGED <<Sat, bits, NbRay, NbBid, NbBid2, NbEq, NbEq2, Pol>>
  PROVE  Building' /\ NbConstraints' = NbConstraints
<1>1. Separated' /\ NbConstraints' = NbConstraints
  BY SeparatedSame DEF Building
<1>2. ASSUME NEW c \in DOMAIN Pol.Constraint, NEW r \in AllRays
      PROVE  Agree(Ray'[r], Pol.Constraint[c], c < NbEq2 \/ r < NbBid)
  <2>1. Agree(Ray[r], Pol.Constraint[c], c < NbEq2 \/ r < NbBid)
    BY DEF Building
  <2>2. Ray[r] \in IntRow /\ Ray'[r] \in IntRow /\ SameCoordinates(Ray[r], Ray'[r])
    BY DEF Same, MatrixOf, AllRays
  <2>3. Pol.Constraint[c] \in IntRow
    BY MatrixIs DEF Building, IsPolyhedron, MatrixOf
  <2>4. SameCoordinates(Pol.Constraint[c], Pol.Constraint[c]) /\ (c < NbEq2 \/ r < NbBid) \in BOOLEAN
    BY DEF SameCoordinates
  <2> QED BY <2>1, <2>2, <2>3, <2>4, AgreeSame
<1>3. AllRays' = AllRays
  BY DEF AllRays
<1> QED BY <1>1, <1>2, <1>3 DEF Building

\* Step 9: a row kept has status 1, and all the rays verify it.
LEMMA KeepConstraintStep ==
  ASSUME pc = "step9", InStep9, KeepConstraint
  PROVE  pc' = "step9" /\ InStep9' /\ Same(Mat, Mat', NbConstraints) /\ NbConstraints' = NbConstraints
<1> DEFINE m == NbConstraints
           n == NbRay
<1>1. /\ j < m /\ j' = j + 1 /\ pc' = "step9"
      /\ UNCHANGED <<Ray, Sat, bits, NbRay, NbBid, NbBid2, NbEq, NbEq2>>
  BY DEF KeepConstraint, counts
<1>2. /\ Building /\ Separated /\ j \in NbEq..m /\ DOMAIN Pol.Ray = 0 .. NbBid2 - 1
      /\ \A r \in 0 .. NbBid2 - 1 : Pol.Ray[r] = Ray[r]
      /\ m \in Nat /\ Mat \in MatrixOf(m) /\ n \in Nat /\ Ray \in MatrixOf(n)
      /\ NbEq \in 0..m /\ NbEq2 \in 0..NbEq /\ NbBid \in 0..n /\ NbBid2 \in 0..NbBid
      /\ AllRays = 0 .. n - 1 /\ ConstraintRows = 0 .. m - 1
  BY DEF InStep9, Building, Separated, ReduceTyped, AllRays, ConstraintRows
<1>3. j \in 0 .. m - 1 /\ j + 1 \in NbEq..m
  <2>1. m \in Nat /\ NbEq \in 0..m /\ j \in NbEq..m /\ j < m
    BY <1>1, <1>2
  <2> HIDE DEF m
  <2> QED BY <2>1
<1>4. Same(Ray, Ray', n)
  BY <1>1, <1>2, SameItself
<1>5. CASE Pol' = Pol /\ (Mat' = Mat \/ Mat' = [Mat EXCEPT ![j][0] = 2])
  <2>1. Same(Mat, Mat', m)
    <3>1. CASE Mat' = Mat
      BY <1>2, <3>1, SameItself
    <3>2. CASE Mat' = [Mat EXCEPT ![j][0] = 2]
      <4>1. Mat' = [c \in 0 .. m - 1 |-> IF c = j THEN WithStatus(Mat[c], 2) ELSE Mat[c]]
        BY <1>2, <3>2 DEF MatrixOf, WithStatus
      <4>2. Mat' = [c \in 0 .. m - 1 |-> Mat'[c]]
        BY <4>1
      <4>3. \A c \in 0 .. m - 1 : Mat'[c] = Mat[c] \/ \E s \in Int : Mat'[c] = WithStatus(Mat[c], s)
        BY <4>1
      <4> QED BY <1>2, <4>2, <4>3, SameRows
    <3> QED BY <1>5, <3>1, <3>2
  <2>2. Building' /\ NbConstraints' = m
    BY <1>1, <1>2, <1>4, <1>5, <2>1, BuildingSame
  <2> QED BY <1>1, <1>2, <1>3, <1>5, <2>1, <2>2 DEF InStep9
<1>6. CASE /\ j \in Irredundants /\ Mat' = Mat
           /\ Pol' = [Pol EXCEPT !.Constraint = Appended(@, Mat[j])]
  <2> DEFINE p == Mat[j]
  <2>1. p \in IntRow /\ p[0] = 1 /\ ~(j < NbEq)
    BY <1>2, <1>3, <1>6 DEF MatrixOf, Irredundants
  <2>2. ASSUME NEW r \in 0 .. n - 1 PROVE Agree(Ray[r], p, r < NbBid)
    <3>1. Agree(Ray[r], Mat[j], j < NbEq \/ r < NbBid)
      BY <1>2, <1>3 DEF Separated
    <3> QED BY <2>1, <3>1 DEF Agree
  <2> HIDE DEF m, n, p
  <2>3. ASSUME NEW r \in DOMAIN Pol.Ray PROVE Agree(Pol.Ray[r], p, r < Pol.NbBid)
    <3>1. r \in 0 .. n - 1 /\ r < NbBid /\ r < NbBid2 /\ Pol.Ray[r] = Ray[r] /\ Pol.NbBid = NbBid2
      BY <1>2 DEF Building
    <3>2. Agree(Ray[r], p, r < NbBid)
      BY <2>2, <3>1
    <3> QED BY <3>1, <3>2 DEF Agree
  <2>4. /\ IsRecord(Pol') /\ IsPolyhedron(Pol') /\ PolSound(Pol')
        /\ Pol'.NbEq = NbEq2 /\ Pol'.NbBid = NbBid2 /\ Pol'.Ray = Pol.Ray /\ Pol'.Constraint = Appended(Pol.Constraint, p)
    <3>1. /\ IsRecord(Pol) /\ IsPolyhedron(Pol) /\ PolSound(Pol) /\ Pol.NbEq = NbEq2 /\ Pol.NbBid = NbBid2
          /\ Pol' = [Pol EXCEPT !.Constraint = Appended(@, p)]
      BY <1>2, <1>6 DEF Building, p
    <3> QED BY <2>1, <2>3, <3>1, ConstraintAdded
  <2>5. ASSUME NEW c \in DOMAIN Pol'.Constraint, NEW r \in 0 .. n - 1
        PROVE  Agree(Ray[r], Pol'.Constraint[c], c < NbEq2 \/ r < NbBid)
    <3>1. IsMatrix(Pol.Constraint) /\ NbEq2 \in 0..Length(Pol.Constraint)
      BY <1>2 DEF Building, IsPolyhedron
    <3>2. \/ c \in DOMAIN Pol.Constraint /\ Pol'.Constraint[c] = Pol.Constraint[c]
          \/ ~(c < NbEq2) /\ Pol'.Constraint[c] = p
      BY <2>1, <2>4, <3>1, RowAdded
    <3>3. CASE c \in DOMAIN Pol.Constraint /\ Pol'.Constraint[c] = Pol.Constraint[c]
      BY <1>2, <3>3 DEF Building
    <3>4. CASE ~(c < NbEq2) /\ Pol'.Constraint[c] = p
      <4>1. Agree(Ray[r], p, r < NbBid)
        BY <2>2
      <4> QED BY <3>4, <4>1 DEF Agree
    <3> QED BY <3>2, <3>3, <3>4
  <2>6. NbConstraints' = m /\ NbRay' = n /\ AllRays' = AllRays
    BY <1>1, <1>6 DEF NbConstraints, m, n, AllRays
  <2>7. Same(Mat, Mat', m)
    BY <1>2, <1>6, SameItself
  <2>8. Separated'
    BY <1>1, <1>2, <1>4, <2>7, SeparatedSame DEF m, n
  <2>9. Building'
    BY <1>1, <1>2, <2>4, <2>5, <2>6, <2>8 DEF Building
  <2>10. Same(Mat, Mat', NbConstraints) /\ NbConstraints' = NbConstraints
    BY <2>6, <2>7 DEF m
  <2> QED BY <1>1, <1>2, <1>3, <2>4, <2>6, <2>9, <2>10 DEF InStep9
<1> QED BY <1>5, <1>6 DEF KeepConstraint

\* Between steps 9 and 10.
LEMMA StartRaysStep ==
  ASSUME InStep9, StartRays
  PROVE  pc' = "step10" /\ InStep10'
<1>1. /\ pc' = "step10" /\ i' = NbBid
      /\ UNCHANGED <<Mat, Ray, Sat, bits, NbRay, NbBid, NbBid2, NbEq, NbEq2, Pol>>
  BY DEF StartRays, reduceVars, counts
<1>2. /\ Building /\ NbConstraints \in Nat /\ Mat \in MatrixOf(NbConstraints)
      /\ NbRay \in Nat /\ Ray \in MatrixOf(NbRay) /\ NbBid \in 0..NbRay
  BY DEF InStep9, Building, Separated, ReduceTyped
<1>3. Building'
  BY <1>1, <1>2, SameItself, BuildingSame
<1>4. i' \in NbBid'..NbRay'
  BY <1>1, <1>2
<1> QED BY <1>1, <1>3, <1>4 DEF InStep10

\* Step 10: a ray kept verifies the constraints Pol has.
LEMMA KeepRayStep ==
  ASSUME pc = "step10", InStep10, KeepRay
  PROVE  pc' = "step10" /\ InStep10' /\ Same(Ray, Ray', NbRay)
<1> DEFINE m == NbConstraints
           n == NbRay
<1>1. /\ i < n /\ i' = i + 1 /\ pc' = "step10"
      /\ UNCHANGED <<Mat, Sat, bits, NbRay, NbBid, NbBid2, NbEq, NbEq2>>
  BY DEF KeepRay, counts
<1>2. /\ Building /\ Separated /\ i \in NbBid..n
      /\ m \in Nat /\ Mat \in MatrixOf(m) /\ n \in Nat /\ Ray \in MatrixOf(n)
      /\ NbBid \in 0..n /\ NbBid2 \in 0..NbBid /\ AllRays = 0 .. n - 1
  BY DEF InStep10, Building, Separated, ReduceTyped, AllRays
<1>3. i \in 0 .. n - 1 /\ i + 1 \in NbBid..n
  BY <1>1, <1>2
<1>4. Same(Mat, Mat', m)
  BY <1>1, <1>2, SameItself
<1>5. CASE Pol' = Pol /\ (Ray' = Ray \/ Ray' = [Ray EXCEPT ![i][0] = 2])
  <2>1. Same(Ray, Ray', n)
    <3>1. CASE Ray' = Ray
      BY <1>2, <3>1, SameItself
    <3>2. CASE Ray' = [Ray EXCEPT ![i][0] = 2]
      <4>1. Ray' = [r \in 0 .. n - 1 |-> IF r = i THEN WithStatus(Ray[r], 2) ELSE Ray[r]]
        BY <1>2, <3>2 DEF MatrixOf, WithStatus
      <4>2. Ray' = [r \in 0 .. n - 1 |-> Ray'[r]]
        BY <4>1
      <4>3. \A r \in 0 .. n - 1 : Ray'[r] = Ray[r] \/ \E s \in Int : Ray'[r] = WithStatus(Ray[r], s)
        BY <4>1
      <4> QED BY <1>2, <4>2, <4>3, SameRows
    <3> QED BY <1>5, <3>1, <3>2
  <2>2. Building'
    BY <1>1, <1>2, <1>4, <1>5, <2>1, BuildingSame
  <2> QED BY <1>1, <1>3, <2>1, <2>2 DEF InStep10
<1>6. CASE /\ i \in Generators /\ Ray' = Ray
           /\ Pol' = [Pol EXCEPT !.Ray = Appended(@, Ray[i])]
  <2> DEFINE p == Ray[i]
  <2>1. p \in IntRow /\ p[0] = 1 /\ ~(i < NbBid)
    BY <1>2, <1>3, <1>6 DEF MatrixOf, Generators
  <2>2. p[Dimension] >= 0
    <3>1. Inside(Ray[i], i < NbBid)
      BY <1>2, <1>3 DEF Separated
    <3> QED BY <2>1, <3>1 DEF Inside
  <2>3. ASSUME NEW c \in DOMAIN Pol.Constraint PROVE Agree(p, Pol.Constraint[c], c < Pol.NbEq)
    <3>1. Agree(Ray[i], Pol.Constraint[c], c < NbEq2 \/ i < NbBid) /\ Pol.NbEq = NbEq2
      BY <1>2, <1>3 DEF Building
    <3> QED BY <2>1, <3>1 DEF Agree
  <2> HIDE DEF m, n, p
  <2>4. /\ IsRecord(Pol') /\ IsPolyhedron(Pol') /\ PolSound(Pol')
        /\ Pol'.NbEq = NbEq2 /\ Pol'.NbBid = NbBid2 /\ Pol'.Constraint = Pol.Constraint
    <3>1. /\ IsRecord(Pol) /\ IsPolyhedron(Pol) /\ PolSound(Pol) /\ Pol.NbEq = NbEq2 /\ Pol.NbBid = NbBid2
          /\ Pol' = [Pol EXCEPT !.Ray = Appended(@, p)]
      BY <1>2, <1>6 DEF Building, p
    <3> QED BY <2>1, <2>2, <2>3, <3>1, RayAdded
  <2>5. Same(Ray, Ray', n) /\ AllRays' = AllRays
    BY <1>1, <1>2, <1>6, SameItself DEF AllRays
  <2>6. Separated'
    BY <1>1, <1>2, <1>4, <2>5, SeparatedSame DEF m, n
  <2>7. Building'
    BY <1>1, <1>2, <1>6, <2>4, <2>5, <2>6 DEF Building
  <2> QED BY <1>1, <1>3, <2>5, <2>7 DEF InStep10, n
<1> QED BY <1>5, <1>6 DEF KeepRay

\* The positivity constraint is verified by every ray, the last coordinates
\* not being negative, and by the lines with equality.
LEMMA IncludePositivityStep ==
  ASSUME InStep10, IncludePositivity
  PROVE  pc' = "reduced" /\ IsPolyhedron(Pol') /\ PolSound(Pol')
<1> DEFINE p == UnitRow(1, Dimension - 1)
<1>1. pc' = "reduced" /\ (Pol' = Pol \/ Pol' = [Pol EXCEPT !.Constraint = Appended(@, p)])
  BY DEF IncludePositivity
<1>2. IsRecord(Pol) /\ IsPolyhedron(Pol) /\ PolSound(Pol)
  BY DEF InStep10, Building
<1>3. p \in IntRow /\ p[0] = 1 /\ \A q \in IntRow : InnerProduct(q, p) = q[Dimension]
  <2>1. Dimension - 1 \in 0 .. Dimension - 1 /\ (Dimension - 1) + 1 = Dimension /\ 1 \in Int
    BY DimensionAssumption
  <2> QED BY <2>1, UnitRowIs
<1> HIDE DEF p
<1>4. ASSUME NEW r \in DOMAIN Pol.Ray PROVE Agree(Pol.Ray[r], p, r < Pol.NbBid)
  <2>1. Inside(Pol.Ray[r], r < Pol.NbBid)
    BY <1>2 DEF PolSound
  <2>2. Pol.Ray[r] \in IntRow
    BY <1>2, MatrixIs DEF IsPolyhedron, MatrixOf
  <2> QED BY <1>3, <2>1, <2>2 DEF Agree, Inside
<1>5. CASE Pol' = Pol
  BY <1>1, <1>2, <1>5
<1>6. CASE Pol' = [Pol EXCEPT !.Constraint = Appended(@, p)]
  BY <1>1, <1>2, <1>3, <1>4, <1>6, ConstraintAdded
<1> QED BY <1>1, <1>5, <1>6

-----------------------------------------------------------------------------
(* The invariant and the theorems.                                         *)

\* Where the program is, and what it knows there.
Phase ==
  \/ Computing
  \/ pc = "step0" /\ InStep0
  \/ pc = "step1" /\ InStep1
  \/ pc = "step2" /\ InStep2
  \/ pc = "step3" /\ InStep3
  \/ pc = "step4" /\ InStep4
  \/ pc \in {"step6", "step7"} /\ Separated
  \/ pc = "step9" /\ InStep9
  \/ pc = "step10" /\ InStep10
  \/ pc = "reduced" /\ IsPolyhedron(Pol) /\ PolSound(Pol)

\* The inductive invariant.  The polyhedron of the last call is an argument
\* of SimplifyConstraints.
CallsInv == Phase /\ IsMatrix(Arg.Constraint)

\* The universe polyhedron: one line per axis, the origin, and 1 >= 0.
LEMMA InitCalls == Init => CallsInv
<1> SUFFICES ASSUME Init PROVE CallsInv
  OBVIOUS
<1> DEFINE C == [x \in {0} |-> UnitRow(1, Dimension - 1)]
<1>1. /\ pc = "reduced" /\ Pol = UniversePolyhedron /\ Arg = UniversePolyhedron
      /\ Pol.NbEq = 0 /\ Pol.NbBid = Dimension - 1 /\ Pol.Constraint = C /\ Pol.Ray = UnitRays
      /\ Arg.Constraint = C
  BY DEF Init, UniversePolyhedron, UnitRays
<1>2. Dimension \in Nat /\ Dimension >= 2 /\ Dimension - 1 \in 0 .. Dimension - 1 /\ (Dimension - 1) + 1 = Dimension
  BY DimensionAssumption
<1>3. /\ C[0] \in IntRow /\ C[0][0] = 1 /\ DOMAIN C = {0}
      /\ \A p \in IntRow : InnerProduct(p, C[0]) = p[Dimension]
  BY <1>2, UnitRowIs
<1> HIDE DEF C
<1>4. IsMatrix(C) /\ Length(C) = 1
  <2>1. 0 .. 1 - 1 = {0}
    OBVIOUS
  <2>2. C = [x \in {0} |-> C[0]]
    BY DEF C
  <2>3. C \in MatrixOf(1)
    BY <1>3, <2>1, <2>2 DEF MatrixOf
  <2> QED BY <2>3, LengthIs
<1>5. /\ IsMatrix(UnitRays) /\ Length(UnitRays) = Dimension /\ DOMAIN UnitRays = 0 .. Dimension - 1
      /\ \A x \in 0 .. Dimension - 1 : UnitRays[x] = UnitRow(IF x = Dimension - 1 THEN 1 ELSE 0, x)
  BY UnitMatrices DEF UnitRays
<1>6. ASSUME NEW r \in 0 .. Dimension - 1
      PROVE  /\ UnitRays[r] \in IntRow /\ UnitRays[r][0] = IF r = Dimension - 1 THEN 1 ELSE 0
             /\ UnitRays[r][Dimension] = IF r = Dimension - 1 THEN 1 ELSE 0
  BY <1>5, UnitRowIs
<1>7. IsPolyhedron(Pol)
  <2>1. \A r \in Dimension - 1 .. Dimension - 1 : UnitRays[r][0] = 1
    BY <1>2, <1>6
  <2>2. \A c \in 0 .. 1 - 1 : C[c][0] = 1
    BY <1>3
  <2> QED BY <1>1, <1>2, <1>4, <1>5, <2>1, <2>2 DEF IsPolyhedron
<1>8. PolSound(Pol)
  <2>1. ASSUME NEW r \in 0 .. Dimension - 1
        PROVE  Inside(UnitRays[r], r < Dimension - 1) /\ Agree(UnitRays[r], C[0], 0 < 0 \/ r < Dimension - 1)
    <3>1. UnitRays[r] \in IntRow /\ InnerProduct(UnitRays[r], C[0]) = UnitRays[r][Dimension]
      BY <1>3, <1>6
    <3>2. r < Dimension - 1 \/ r = Dimension - 1
      BY <1>2
    <3> QED BY <1>2, <1>6, <3>1, <3>2 DEF Inside, Agree
  <2> QED BY <1>1, <1>3, <1>5, <2>1 DEF PolSound
<1> QED BY <1>1, <1>4, <1>7, <1>8 DEF CallsInv, Phase

\* Inside Chernikova its own invariant holds, whose matrix nothing changes.
LEMMA InChernikovaStep ==
  ASSUME Computing, InChernikova
  PROVE  Computing'
<1>1. ProcessConstraint /\ ChernikovaInv'
  BY ProcessConstraintStep DEF InChernikova, Computing
<1>2. pc' \in {"head", "line", "sort", "pairs"} /\ UNCHANGED <<Mat, dual>>
  <2>1. CASE Evaluate
    BY <2>1 DEF Evaluate
  <2>2. CASE LineToRay \/ DiscardLine
    BY <2>2 DEF LineToRay, DiscardLine, NextConstraint
  <2>3. CASE Sort \/ StartPairs
    BY <2>3 DEF Sort, StartPairs
  <2>4. CASE AddRay \/ SkipPair
    BY <2>4 DEF AddRay, SkipPair, InPairs
  <2>5. CASE Eliminate
    BY <2>5 DEF Eliminate, NextConstraint
  <2> QED BY <1>1, <2>1, <2>2, <2>3, <2>4, <2>5 DEF ProcessConstraint
<1> QED BY <1>1, <1>2 DEF Computing

\* The phase in which each step of Remove_Redundants runs.
LEMMA RemovePhase ==
  ASSUME RemoveStep, Phase
  PROVE  Phase'
<1>1. ASSUME GotoEmpty PROVE Phase'
  BY <1>1, EmptyStep DEF Phase
<1>2. CASE ResetRays
  <2>1. InStep0
    BY <1>2 DEF Phase, Computing, ResetRays
  <2> QED BY <1>1, <1>2, <2>1, ResetRaysStep DEF Phase
<1>3. CASE RemovePositivity
  <2>1. pc = "step1" /\ InStep1
    BY <1>3 DEF Phase, Computing, RemovePositivity
  <2> QED BY <1>1, <1>3, <2>1, RemovePositivityStep DEF Phase
<1>4. CASE CountConstraint
  <2>1. pc = "step1" /\ InStep1
    BY <1>4 DEF Phase, Computing, CountConstraint
  <2> QED BY <1>4, <2>1, CountConstraintStep DEF Phase
<1>5. CASE CountLines
  <2>1. InStep1
    BY <1>5 DEF Phase, Computing, CountLines
  <2> QED BY <1>5, <2>1, CountLinesStep DEF Phase
<1>6. CASE SlideEquality
  <2>1. pc = "step2" /\ InStep2
    BY <1>6 DEF Phase, Computing, SlideEquality
  <2> QED BY <1>6, <2>1, SlideEqualityStep DEF Phase
<1>7. CASE FilterEqualities
  <2>1. InStep2
    BY <1>7 DEF Phase, Computing, FilterEqualities
  <2> QED BY <1>7, <2>1, FilterEqualitiesStep DEF Phase
<1>8. CASE ReduceEqualities
  <2>1. InStep3
    BY <1>8 DEF Phase, Computing, ReduceEqualities
  <2> QED BY <1>1, <1>8, <2>1, ReduceEqualitiesStep DEF Phase
<1>9. CASE RaiseLine
  <2>1. pc = "step4" /\ InStep4
    BY <1>9 DEF Phase, Computing, RaiseLine
  <2> QED BY <1>9, <2>1, RaiseLineStep DEF Phase
<1>10. CASE ReduceLines
  <2>1. InStep4
    BY <1>10 DEF Phase, Computing, ReduceLines
  <2> QED BY <1>1, <1>10, <2>1, ReduceLinesStep DEF Phase
<1>11. CASE ClassifyConstraints
  <2>1. Separated
    BY <1>11 DEF Phase, Computing, ClassifyConstraints
  <2> QED BY <1>1, <1>11, <2>1, ClassifyConstraintsStep DEF Phase
<1>12. CASE ClassifyRays
  <2>1. Separated
    BY <1>12 DEF Phase, Computing, ClassifyRays
  <2> QED BY <1>12, <2>1, ClassifyRaysStep DEF Phase
<1>13. CASE KeepConstraint
  <2>1. pc = "step9" /\ InStep9
    BY <1>13 DEF Phase, Computing, KeepConstraint
  <2> QED BY <1>13, <2>1, KeepConstraintStep DEF Phase
<1>14. CASE StartRays
  <2>1. InStep9
    BY <1>14 DEF Phase, Computing, StartRays
  <2> QED BY <1>14, <2>1, StartRaysStep DEF Phase
<1>15. CASE KeepRay
  <2>1. pc = "step10" /\ InStep10
    BY <1>15 DEF Phase, Computing, KeepRay
  <2> QED BY <1>15, <2>1, KeepRayStep DEF Phase
<1>16. CASE IncludePositivity
  <2>1. InStep10
    BY <1>16 DEF Phase, Computing, IncludePositivity
  <2> QED BY <1>16, <2>1, IncludePositivityStep DEF Phase
<1> QED BY <1>2, <1>3, <1>4, <1>5, <1>6, <1>7, <1>8, <1>9, <1>10, <1>11, <1>12,
           <1>13, <1>14, <1>15, <1>16 DEF RemoveStep

\* Nothing happens.
LEMMA StutterStep ==
  ASSUME CallsInv, UNCHANGED vars
  PROVE  CallsInv'
<1>1. UNCHANGED <<pc, Mat, k, dual, Ray, Sat, NbBid, NbRay, NbMaxRays, jx, bx,
                  equal_bound, sup_bound, inf_bound, i, j, bound, bits, NbEq, NbEq2, NbBid2, Pol, Arg>>
  BY DEF vars, chernikovaVars, bounds, pair, reduceVars, counts, callVars
<1>2. \A x : Marks(x)' = Marks(x)
  BY <1>1 DEF Marks
<1>3. Computing => Computing'
  BY <1>1, <1>2 DEF Computing, ChernikovaInv, ChernikovaTyped, Verified, StatusExact, BitsExact, InPhase,
     NbConstraints, Before, Upward
<1>4. ReduceTyped => ReduceTyped'
  BY <1>1 DEF ReduceTyped, NbConstraints, AllRays, Upward
<1>5. BitsKnown => BitsKnown'
  BY <1>1 DEF BitsKnown, NbConstraints, ConstraintRows
<1>6. EqualitiesKnown(j) => EqualitiesKnown(j)'
  BY <1>1 DEF EqualitiesKnown, EqualitiesBefore, IsEquality, AllRays, Saturates
<1>7. EqualitiesKnown(NbConstraints) => EqualitiesKnown(NbConstraints)'
  BY <1>1 DEF EqualitiesKnown, EqualitiesBefore, IsEquality, AllRays, Saturates, NbConstraints
<1>8. LinesKnown => LinesKnown'
  BY <1>1 DEF LinesKnown, Lines, SaturatesAll, AllRays, ConstraintRows, Saturates, NbConstraints
<1>9. InStep0 => InStep0'
  BY <1>1, <1>4 DEF InStep0, NbConstraints, FirstBits, ConstraintRows
<1>10. InStep1 => InStep1'
  BY <1>1, <1>4, <1>5, <1>6 DEF InStep1, NbConstraints, AllRays, SaturatedBefore, Saturates
<1>11. InStep2 => InStep2'
  BY <1>1, <1>4, <1>5, <1>7, <1>8 DEF InStep2, IsEquality
<1>12. InStep3 => InStep3'
  BY <1>1, <1>4, <1>5, <1>8 DEF InStep3, NbConstraints, AllRays, Saturates
<1>13. InStep4 => InStep4'
  BY <1>1, <1>12 DEF InStep4, SaturatesAll, NbConstraints
<1>14. Separated => Separated'
  BY <1>1, <1>4, <1>5 DEF Separated, NbConstraints, AllRays, ConstraintRows
<1>15. Building => Building'
  BY <1>1, <1>14 DEF Building, AllRays
<1>16. (InStep9 => InStep9') /\ (InStep10 => InStep10')
  BY <1>1, <1>15 DEF InStep9, InStep10, NbConstraints
<1> QED BY <1>1, <1>3, <1>9, <1>10, <1>11, <1>12, <1>13, <1>14, <1>16 DEF CallsInv, Phase

(***************************************************************************)
(* In every state of every sequence of calls the invariant of the phase    *)
(* the program is in holds: Chernikova's own while it runs, what each      *)
(* numbered step of Remove_Redundants leaves to the next, and a sound      *)
(* polyhedron between calls.                                               *)
(***************************************************************************)
THEOREM Invariance == Spec => []CallsInv
<1>1. CallsInv /\ [Next]_vars => CallsInv'
  <2> SUFFICES ASSUME CallsInv, [Next]_vars PROVE CallsInv'
    OBVIOUS
  <2>0. Phase /\ IsMatrix(Arg.Constraint)
    BY DEF CallsInv
  <2>1. CASE \/ Constraints2Polyhedron \/ Rays2Polyhedron \/ AddConstraints
             \/ SimplifyConstraints \/ SubConstraint \/ AddRays
    <3>1. pc = "reduced"
      BY <2>1 DEF Constraints2Polyhedron, Rays2Polyhedron, AddConstraints, SimplifyConstraints,
         SubConstraint, AddRays, Call
    <3>2. IsPolyhedron(Pol) /\ PolSound(Pol)
      BY <2>0, <3>1 DEF Phase, Computing
    <3> QED BY <2>0, <2>1, <3>1, <3>2, CallStep DEF CallsInv, Phase
  <2>2. CASE InChernikova
    <3>1. Computing
      <4>1. pc \in {"head", "line", "sort", "pairs"}
        BY <2>2 DEF InChernikova, ProcessConstraint, Evaluate, LineToRay, DiscardLine, Sort, StartPairs,
           AddRay, SkipPair, InPairs, Eliminate
      <4> QED BY <2>0, <4>1 DEF Phase
    <3>2. Arg' = Arg
      BY <2>2 DEF InChernikova, callVars
    <3> QED BY <2>0, <2>2, <3>1, <3>2, InChernikovaStep DEF CallsInv, Phase
  <2>3. CASE ReducePrimal \/ ReduceDual
    <3>1. Computing
      BY <2>0, <2>3 DEF Phase, ReducePrimal, ReduceDual, Returned
    <3>2. ReduceDual => dual
      BY DEF ReduceDual
    <3> QED BY <2>0, <2>3, <3>1, <3>2, ReducePrimalStep, ReduceDualStep DEF CallsInv, Phase, Computing
  <2>4. CASE InRemove
    <3>1. RemoveStep /\ Arg' = Arg
      BY <2>4 DEF InRemove, callVars
    <3> QED BY <2>0, <3>1, RemovePhase DEF CallsInv
  <2>5. CASE UNCHANGED vars
    BY <2>5, StutterStep
  <2> QED BY <2>1, <2>2, <2>3, <2>4, <2>5 DEF Next
<1> QED BY <1>1, InitCalls, PTL DEF Spec

(***************************************************************************)
(* Whatever the calls and their order, every ray of the polyhedron that    *)
(* Constraints2Polyhedron, Rays2Polyhedron, AddConstraints, AddRays,       *)
(* SubConstraint or SimplifyConstraints returns satisfies every constraint *)
(* of it, with equality when one of the two is a line or an equality by    *)
(* its place, and none lies beyond infinity.                               *)
(***************************************************************************)
THEOREM Soundness == Spec => []RaysSatisfyConstraints
<1>1. CallsInv => RaysSatisfyConstraints
  <2>1. CallsInv /\ Done => PolSound(Pol)
    BY DEF CallsInv, Phase, Computing, Done
  <2> QED BY <2>1 DEF PolSound, Inside, Agree, RaysSatisfyConstraints
<1> QED BY <1>1, Invariance, PTL
============================================================================
