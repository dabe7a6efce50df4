-------------------------- MODULE Contracts_proof --------------------------
(***************************************************************************)
(* What each call promises of the polyhedron it returns, for every         *)
(* Dimension, WSIZE, work space, set of matrices and sequence of calls in  *)
(* which AddRays gets polyhedra without redundant constraints, and for any *)
(* sequence of calls when Dimension <= 4, where all polyhedra returned are *)
(* of this kind.                                                           *)
(*                                                                         *)
(* A promise is a cone or a set of valid inequalities (Means).  Chernikova *)
(* is asked for it (Asked), its description answers, and each step of      *)
(* Remove_Redundants keeps it (Kept), whatever it moves, reduces or leaves *)
(* out; the polyhedron fulfils it (Fulfils) and is what the next call      *)
(* continues from (SettledIs).                                             *)
(***************************************************************************)
EXTENDS PolyhedronCalls_proof

-----------------------------------------------------------------------------
(* What the rows of a call stand for.                                      *)

\* The rows of a matrix and the positivity constraint.
LEMMA WideIs ==
  ASSUME NEW m \in Nat, NEW M \in MatrixOf(m)
  PROVE  /\ IsFamily(Family(M, m, FALSE)) /\ DOMAIN Family(M, m, FALSE) = 0 .. m - 1 \cup {-1}
         /\ -1 \notin 0 .. m - 1
         /\ Family(M, m, FALSE)[-1] = PositivityRow
         /\ \A c \in 0 .. m - 1 : Family(M, m, FALSE)[c] = M[c] /\ M[c] \in IntRow
         /\ PositivityRow \in IntRow
<1>1. HasRows(M, 0 .. m - 1)
  BY DEF HasRows, MatrixOf
<1>2. IsFamily(Family(M, m, FALSE))
  BY <1>1, FamilyIs
<1>3. -1 \notin 0 .. m - 1 /\ \A c \in 0 .. m - 1 : c # -1
  OBVIOUS
<1>4. DOMAIN Family(M, m, FALSE) = 0 .. m - 1 \cup {-1}
  BY DEF Family
<1>5. Family(M, m, FALSE)[-1] = PositivityRow /\ \A c \in 0 .. m - 1 : Family(M, m, FALSE)[c] = M[c]
  BY <1>3 DEF Family
<1>6. \A c \in 0 .. m - 1 : M[c] \in IntRow
  BY DEF MatrixOf
<1>7. PositivityRow \in IntRow
  BY <1>2, <1>4, <1>5 DEF IsFamily
<1> QED BY <1>2, <1>3, <1>4, <1>5, <1>6, <1>7

\* The rows of a matrix.
LEMMA RowsAre ==
  ASSUME NEW n \in Nat, NEW R \in MatrixOf(n)
  PROVE  IsFamily(R) /\ DOMAIN R = 0 .. n - 1
<1>1. DOMAIN R = 0 .. n - 1 /\ \A r \in DOMAIN R : R[r] \in IntRow
  BY DEF MatrixOf
<1>2. IsFiniteSet(0 .. n - 1)
  BY PartOfRange
<1> QED BY <1>1, <1>2 DEF IsFamily

(***************************************************************************)
(* What a call promises: that the vectors of a cone are those the          *)
(* constraints admit, or that the valid inequalities are those of the      *)
(* generators; in this case whether one of these is a vertex.              *)
(***************************************************************************)
Means(A, R, q) ==
  /\ Exact(A, R)
  /\ -1 \in DOMAIN A /\ A[-1] = PositivityRow
  /\ q.constrained => \A x \in IntRow : Obeys(x, A, Flat(A, R)) <=> x \in q.cone
  /\ q.generated => \A p \in IntRow : Obeys(p, R, Flat(R, A)) <=> p \in q.valid
  /\ q.generated => (q.vertex <=> -1 \notin Flat(A, R))

\* There is a vertex among the rays.
Alive(A, R, q) == Means(A, R, q) /\ -1 \notin Flat(A, R)

\* Other constraints of the same cone mean the same.
LEMMA MeansRows ==
  ASSUME NEW A, NEW R, NEW q, Means(A, R, q), NEW B, Replaces(B, A, R),
         -1 \in DOMAIN B, B[-1] = PositivityRow
  PROVE  Means(B, R, q) /\ (-1 \in Flat(B, R) <=> -1 \in Flat(A, R))
<1>1. -1 \in Flat(B, R) <=> -1 \in Flat(A, R)
  BY DEF Flat, Means
<1>2. Exact(B, R) /\ Flat(R, B) = Flat(R, A)
  BY DEF Replaces
<1>3. \A x \in IntRow : Obeys(x, B, Flat(B, R)) <=> Obeys(x, A, Flat(A, R))
  BY DEF Replaces
<1> QED BY <1>1, <1>2, <1>3 DEF Means

\* So do other rays of it.
LEMMA MeansRays ==
  ASSUME NEW A, NEW R, NEW q, Means(A, R, q), NEW Q, Replaces(Q, R, A)
  PROVE  Means(A, Q, q) /\ Flat(A, Q) = Flat(A, R)
<1>1. Exact(Q, A) /\ Flat(A, Q) = Flat(A, R)
  BY DEF Replaces
<1>2. \A x \in IntRow : Obeys(x, Q, Flat(Q, A)) <=> Obeys(x, R, Flat(R, A))
  BY DEF Replaces
<1>3. Exact(A, Q)
  BY <1>1, ExactSwapped
<1> QED BY <1>1, <1>2, <1>3 DEF Means

\* The last coordinates, and that one is positive.
LEMMA AliveVertex ==
  ASSUME NEW A, NEW R, NEW q, Alive(A, R, q)
  PROVE  /\ IsFamily(A) /\ IsFamily(R) /\ \A r \in DOMAIN R : R[r][Dimension] \in Nat
         /\ \E r \in DOMAIN R : R[r][Dimension] > 0
<1>1. IsFamily(A) /\ IsFamily(R) /\ -1 \in DOMAIN A /\ A[-1] = PositivityRow /\ Exact(A, R) /\ -1 \notin Flat(A, R)
  BY DEF Alive, Means, Exact, Tight
<1>2. \A r \in DOMAIN R : InnerProduct(R[r], A[-1]) \in Nat
  BY <1>1, ExactProducts
<1>3. \A r \in DOMAIN R : InnerProduct(R[r], A[-1]) = R[r][Dimension]
  BY <1>1, PositivityProduct DEF IsFamily
<1>4. PICK r \in DOMAIN R : InnerProduct(R[r], A[-1]) # 0
  BY <1>1 DEF Flat
<1> QED BY <1>1, <1>2, <1>3, <1>4

-----------------------------------------------------------------------------
(* Rows that only change their status words.                               *)

\* The rows of B are those of A up to the status words.
Twins(A, B) ==
  IsFamily(A) /\ IsFamily(B) /\ DOMAIN B = DOMAIN A /\ \A c \in DOMAIN A : SameCoordinates(A[c], B[c])

\* Status words do not enter inner products, ...
LEMMA TwinProducts ==
  ASSUME NEW A, NEW B, Twins(A, B), NEW c \in DOMAIN A, NEW x \in IntRow
  PROVE  InnerProduct(x, B[c]) = InnerProduct(x, A[c]) /\ InnerProduct(B[c], x) = InnerProduct(A[c], x)
<1>1. A[c] \in IntRow /\ B[c] \in IntRow /\ SameCoordinates(A[c], B[c])
  BY DEF Twins, IsFamily
<1>2. InnerProduct(B[c], x) = InnerProduct(A[c], x)
  BY <1>1, InnerProductSame DEF SameCoordinates
<1> QED BY <1>1, <1>2, InnerProductSymmetric

\* ... neither that of the constraint nor that of the ray.
LEMMA TwinPairs ==
  ASSUME NEW A, NEW B, Twins(A, B), NEW R, NEW Q, Twins(R, Q), NEW c \in DOMAIN A, NEW r \in DOMAIN R
  PROVE  InnerProduct(Q[r], B[c]) = InnerProduct(R[r], A[c]) /\ InnerProduct(B[c], Q[r]) = InnerProduct(A[c], R[r])
<1>1. Q[r] \in IntRow /\ A[c] \in IntRow
  BY DEF Twins, IsFamily
<1>2. InnerProduct(Q[r], B[c]) = InnerProduct(Q[r], A[c]) /\ InnerProduct(B[c], Q[r]) = InnerProduct(A[c], Q[r])
  BY <1>1, TwinProducts
<1>3. InnerProduct(Q[r], A[c]) = InnerProduct(R[r], A[c]) /\ InnerProduct(A[c], Q[r]) = InnerProduct(A[c], R[r])
  BY <1>1, TwinProducts
<1> QED BY <1>2, <1>3

\* Rows that did not change.
LEMMA TwinItself == \A A : IsFamily(A) => Twins(A, A)
  BY DEF Twins, SameCoordinates

\* What saturates what is the same, ...
LEMMA TwinFlats ==
  ASSUME NEW A, NEW B, Twins(A, B), NEW R, NEW Q, Twins(R, Q)
  PROVE  /\ Flat(B, Q) = Flat(A, R) /\ Flat(Q, B) = Flat(R, A)
         /\ \A c \in DOMAIN A : Touched(B[c], Q) = Touched(A[c], R)
         /\ \A r \in DOMAIN R : Zeros(Q[r], B) = Zeros(R[r], A)
<1>1. DOMAIN B = DOMAIN A /\ DOMAIN Q = DOMAIN R
  BY DEF Twins
<1>2. \A c \in DOMAIN A, r \in DOMAIN R :
        InnerProduct(Q[r], B[c]) = InnerProduct(R[r], A[c]) /\ InnerProduct(B[c], Q[r]) = InnerProduct(A[c], R[r])
  BY TwinPairs
<1> QED BY <1>1, <1>2 DEF Flat, Touched, Zeros

\* ... hence the cone is, ...
LEMMA TwinReplaces ==
  ASSUME NEW A, NEW R, Exact(A, R), NEW B, Twins(A, B)
  PROVE  Replaces(B, A, R)
<1>1. IsFamily(B) /\ DOMAIN B = DOMAIN A
  BY DEF Twins
<1>2. \A c \in DOMAIN A : Alike(B[c], A[c])
  BY TwinProducts DEF Alike
<1> QED BY <1>1, <1>2, ExactRows

\* ... and what the rows mean.
LEMMA MeansTwins ==
  ASSUME NEW A, NEW R, NEW q, Means(A, R, q), NEW B, Twins(A, B), B[-1] = PositivityRow, NEW Q, Twins(R, Q)
  PROVE  /\ Means(B, Q, q)
         /\ Flat(B, Q) = Flat(A, R) /\ Flat(Q, B) = Flat(R, A)
         /\ \A c \in DOMAIN A : Touched(B[c], Q) = Touched(A[c], R)
         /\ \A r \in DOMAIN R : Zeros(Q[r], B) = Zeros(R[r], A)
<1>1. Replaces(B, A, R) /\ -1 \in DOMAIN B
  BY TwinReplaces DEF Means, Twins
<1>2. Means(B, R, q)
  BY <1>1, MeansRows
<1>3. Exact(R, B)
  BY <1>2, ExactSwapped DEF Means
<1>4. Replaces(Q, R, B)
  BY <1>3, TwinReplaces
<1>5. Means(B, Q, q)
  BY <1>2, <1>4, MeansRays
<1> QED BY <1>5, TwinFlats

\* The matrices of the function, when only status words change.
LEMMA WideTwins ==
  ASSUME NEW m \in Nat, NEW M, NEW N, Same(M, N, m)
  PROVE  Twins(Family(M, m, FALSE), Family(N, m, FALSE)) /\ Twins(M, N)
<1>1. M \in MatrixOf(m) /\ N \in MatrixOf(m) /\ \A c \in 0 .. m - 1 : SameCoordinates(M[c], N[c])
  BY DEF Same
<1> DEFINE A == Family(M, m, FALSE)
           B == Family(N, m, FALSE)
<1>2. /\ IsFamily(A) /\ DOMAIN A = 0 .. m - 1 \cup {-1} /\ A[-1] = PositivityRow
      /\ IsFamily(B) /\ DOMAIN B = 0 .. m - 1 \cup {-1} /\ B[-1] = PositivityRow
      /\ \A c \in 0 .. m - 1 : A[c] = M[c] /\ B[c] = N[c]
  BY <1>1, WideIs
<1>3. IsFamily(M) /\ IsFamily(N) /\ DOMAIN M = 0 .. m - 1 /\ DOMAIN N = 0 .. m - 1
  BY <1>1, RowsAre
<1> HIDE DEF A, B
<1>4. \A c \in DOMAIN A : SameCoordinates(A[c], B[c])
  BY <1>1, <1>2 DEF SameCoordinates
<1>5. Twins(A, B) /\ Twins(M, N)
  BY <1>1, <1>2, <1>3, <1>4 DEF Twins
<1> QED BY <1>5 DEF A, B

-----------------------------------------------------------------------------
(* Rows that Gauss4 has reduced.                                           *)

\* B is A but for multiples of the rows K, which vanish where those of A do.
SignsKept(A, B, K) ==
  /\ IsFamily(A) /\ IsFamily(B) /\ DOMAIN B = DOMAIN A /\ K \subseteq DOMAIN A
  /\ \A x \in IntRow :
       /\ (\A c \in K : InnerProduct(x, A[c]) = 0) <=> (\A c \in K : InnerProduct(x, B[c]) = 0)
       /\ (\A c \in K : InnerProduct(x, A[c]) = 0) =>
            \A c \in DOMAIN A : SameSign(InnerProduct(x, B[c]), InnerProduct(x, A[c]))

\* Where the equalities keep their solutions and the inequalities their signs on
\* these, the rows stand for the same cone, as do their saturations.
LEMMA SignsReplace ==
  ASSUME NEW A, NEW R, Exact(A, R), NEW B, NEW K, SignsKept(A, B, K), K \subseteq Flat(A, R)
  PROVE  /\ Replaces(B, A, R)
         /\ Flat(B, R) = Flat(A, R) /\ Flat(R, B) = Flat(R, A)
         /\ \A c \in DOMAIN A : Touched(B[c], R) = Touched(A[c], R)
         /\ \A r \in DOMAIN R : Zeros(R[r], B) = Zeros(R[r], A)
<1>1. IsFamily(A) /\ IsFamily(B) /\ DOMAIN B = DOMAIN A /\ \A r \in DOMAIN R : R[r] \in IntRow
  BY DEF SignsKept, Exact, Tight, IsFamily
<1>2. ASSUME NEW x \in IntRow, NEW c \in DOMAIN A
      PROVE  /\ InnerProduct(x, A[c]) \in Int /\ InnerProduct(x, B[c]) \in Int
             /\ InnerProduct(A[c], x) = InnerProduct(x, A[c]) /\ InnerProduct(B[c], x) = InnerProduct(x, B[c])
  <2>1. A[c] \in IntRow /\ B[c] \in IntRow
    BY <1>1 DEF IsFamily
  <2> QED BY <2>1, InnerProductInt, InnerProductSymmetric
<1>3. ASSUME NEW r \in DOMAIN R, NEW c \in DOMAIN A
      PROVE  /\ InnerProduct(R[r], B[c]) >= 0
             /\ InnerProduct(R[r], B[c]) = 0 <=> InnerProduct(R[r], A[c]) = 0
  <2>1. R[r] \in IntRow /\ \A e \in K : InnerProduct(R[r], A[e]) = 0
    BY <1>1 DEF Flat
  <2>2. SameSign(InnerProduct(R[r], B[c]), InnerProduct(R[r], A[c]))
    BY <2>1 DEF SignsKept
  <2>3. InnerProduct(R[r], A[c]) \in Nat
    BY ExactProducts
  <2> QED BY <1>2, <2>1, <2>2, <2>3 DEF SameSign
<1>4. \A r \in DOMAIN R, c \in DOMAIN A : InnerProduct(B[c], R[r]) = 0 <=> InnerProduct(A[c], R[r]) = 0
  BY <1>1, <1>2, <1>3
<1>5. Flat(B, R) = Flat(A, R) /\ Flat(R, B) = Flat(R, A)
  BY <1>1, <1>3, <1>4 DEF Flat
<1>6. \A c \in DOMAIN A : Touched(B[c], R) = Touched(A[c], R)
  BY <1>3 DEF Touched
<1>7. \A r \in DOMAIN R : Zeros(R[r], B) = Zeros(R[r], A)
  BY <1>1, <1>3 DEF Zeros
<1>8. \A b \in DOMAIN B, r \in DOMAIN R : /\ InnerProduct(R[r], B[b]) >= 0
                                          /\ r \in Flat(R, A) => InnerProduct(R[r], B[b]) = 0
  <2>1. \A b \in DOMAIN A, r \in DOMAIN R : r \in Flat(R, A) => InnerProduct(R[r], A[b]) = 0
    BY ExactProducts
  <2> QED BY <1>1, <1>3, <2>1
<1>9. ASSUME NEW x \in IntRow, Obeys(x, B, Flat(B, R)) PROVE Obeys(x, A, Flat(A, R))
  <2>1. \A e \in K : InnerProduct(x, B[e]) = 0
    BY <1>1, <1>5, <1>9 DEF Obeys, SignsKept
  <2>2. \A c \in DOMAIN A : SameSign(InnerProduct(x, B[c]), InnerProduct(x, A[c]))
    BY <2>1 DEF SignsKept
  <2>3. ASSUME NEW c \in DOMAIN A
        PROVE  InnerProduct(x, A[c]) >= 0 /\ (c \in Flat(A, R) => InnerProduct(x, A[c]) = 0)
    <3>1. InnerProduct(x, B[c]) >= 0 /\ (c \in Flat(A, R) => InnerProduct(x, B[c]) = 0)
      BY <1>1, <1>5, <1>9 DEF Obeys
    <3> QED BY <1>2, <2>2, <3>1 DEF SameSign
  <2> QED BY <2>3 DEF Obeys
<1>10. Replaces(B, A, R)
  BY <1>1, <1>8, <1>9, ExactReplaced
<1> QED BY <1>5, <1>6, <1>7, <1>10

\* Gauss4 on the first n of the rows.
LEMMA GaussKeeps ==
  ASSUME NEW m \in Nat, NEW n \in 0..m, NEW M \in MatrixOf(m), NEW N, N = Gauss4(M, n, m).M
  PROVE  /\ N \in MatrixOf(m)
         /\ SignsKept(M, N, 0 .. n - 1)
         /\ SignsKept(Family(M, m, FALSE), Family(N, m, FALSE), 0 .. n - 1)
<1>1. Equivalent(N, M, n, m)
  BY GaussCorrect
<1>2. N \in MatrixOf(m) /\ (\A x \in 0 .. n - 1 : x \in 0 .. m - 1)
  BY <1>1 DEF Equivalent
<1>3. ASSUME NEW x \in IntRow
      PROVE  /\ \A c \in 0 .. m - 1 : /\ InnerProduct(x, M[c]) = InnerProduct(M[c], x)
                                      /\ InnerProduct(x, N[c]) = InnerProduct(N[c], x)
             /\ (\A c \in 0 .. n - 1 : InnerProduct(x, M[c]) = 0) <=> (\A c \in 0 .. n - 1 : InnerProduct(x, N[c]) = 0)
             /\ (\A c \in 0 .. n - 1 : InnerProduct(x, M[c]) = 0) =>
                  \A c \in 0 .. m - 1 : SameSign(InnerProduct(x, N[c]), InnerProduct(x, M[c]))
  <2>1. \A c \in 0 .. m - 1 : M[c] \in IntRow /\ N[c] \in IntRow
    BY <1>2 DEF MatrixOf
  <2>2. \A c \in 0 .. m - 1 : /\ InnerProduct(x, M[c]) = InnerProduct(M[c], x)
                              /\ InnerProduct(x, N[c]) = InnerProduct(N[c], x)
    BY <2>1, InnerProductSymmetric
  <2>3. Vanishes(M, n, x) <=> \A c \in 0 .. n - 1 : InnerProduct(x, M[c]) = 0
    BY <1>2, <2>2 DEF Vanishes
  <2>4. Vanishes(N, n, x) <=> \A c \in 0 .. n - 1 : InnerProduct(x, N[c]) = 0
    BY <1>2, <2>2 DEF Vanishes
  <2>5. (\A c \in 0 .. n - 1 : InnerProduct(x, M[c]) = 0) <=> (\A c \in 0 .. n - 1 : InnerProduct(x, N[c]) = 0)
    BY <1>1, <2>3, <2>4 DEF Equivalent
  <2>6. ASSUME \A c \in 0 .. n - 1 : InnerProduct(x, M[c]) = 0, NEW c \in 0 .. m - 1
        PROVE  SameSign(InnerProduct(x, N[c]), InnerProduct(x, M[c]))
    BY <2>6, ReducedProduct
  <2> QED BY <2>2, <2>5, <2>6
<1>4. IsFamily(M) /\ DOMAIN M = 0 .. m - 1 /\ IsFamily(N) /\ DOMAIN N = 0 .. m - 1
  BY <1>2, RowsAre
<1>5. SignsKept(M, N, 0 .. n - 1)
  BY <1>2, <1>3, <1>4 DEF SignsKept
<1> DEFINE A == Family(M, m, FALSE)
           B == Family(N, m, FALSE)
<1>6. /\ IsFamily(A) /\ DOMAIN A = 0 .. m - 1 \cup {-1} /\ IsFamily(B) /\ DOMAIN B = 0 .. m - 1 \cup {-1}
      /\ \A c \in 0 .. m - 1 : A[c] = M[c] /\ B[c] = N[c]
      /\ A[-1] = PositivityRow /\ B[-1] = PositivityRow
  BY <1>2, WideIs
<1> HIDE DEF A, B
<1>7. ASSUME NEW x \in IntRow
      PROVE  /\ (\A c \in 0 .. n - 1 : InnerProduct(x, A[c]) = 0) <=> (\A c \in 0 .. n - 1 : InnerProduct(x, B[c]) = 0)
             /\ (\A c \in 0 .. n - 1 : InnerProduct(x, A[c]) = 0) =>
                  \A c \in DOMAIN A : SameSign(InnerProduct(x, B[c]), InnerProduct(x, A[c]))
  <2>1. (\A c \in 0 .. n - 1 : InnerProduct(x, A[c]) = 0) <=> (\A c \in 0 .. n - 1 : InnerProduct(x, M[c]) = 0)
    BY <1>2, <1>6
  <2>2. (\A c \in 0 .. n - 1 : InnerProduct(x, B[c]) = 0) <=> (\A c \in 0 .. n - 1 : InnerProduct(x, N[c]) = 0)
    BY <1>2, <1>6
  <2>3. SameSign(InnerProduct(x, B[-1]), InnerProduct(x, A[-1]))
    BY <1>6 DEF SameSign
  <2> QED BY <1>3, <1>6, <2>1, <2>2, <2>3
<1>8. SignsKept(A, B, 0 .. n - 1)
  BY <1>2, <1>6, <1>7 DEF SignsKept
<1> QED BY <1>2, <1>5, <1>8 DEF A, B

\* The same of some equalities turned round.
LEMMA TurnedKeeps ==
  ASSUME NEW m \in Nat, NEW n \in 0..m, NEW M \in MatrixOf(m), NEW N \in MatrixOf(m),
         \A c \in n .. m - 1 : N[c] = M[c],
         \A c \in 0 .. n - 1 : \A x \in IntRow : InnerProduct(x, N[c]) = 0 <=> InnerProduct(x, M[c]) = 0
  PROVE  SignsKept(Family(M, m, FALSE), Family(N, m, FALSE), 0 .. n - 1)
<1> DEFINE A == Family(M, m, FALSE)
           B == Family(N, m, FALSE)
<1>1. /\ IsFamily(A) /\ DOMAIN A = 0 .. m - 1 \cup {-1} /\ IsFamily(B) /\ DOMAIN B = 0 .. m - 1 \cup {-1}
      /\ \A c \in 0 .. m - 1 : A[c] = M[c] /\ B[c] = N[c]
      /\ A[-1] = PositivityRow /\ B[-1] = PositivityRow
  BY WideIs
<1>2. \A c \in 0 .. m - 1 : c \in 0 .. n - 1 \/ c \in n .. m - 1
  OBVIOUS
<1>3. \A c \in 0 .. n - 1 : c \in 0 .. m - 1
  OBVIOUS
<1> HIDE DEF A, B
<1>4. ASSUME NEW x \in IntRow
      PROVE  /\ (\A c \in 0 .. n - 1 : InnerProduct(x, A[c]) = 0) <=> (\A c \in 0 .. n - 1 : InnerProduct(x, B[c]) = 0)
             /\ (\A c \in 0 .. n - 1 : InnerProduct(x, A[c]) = 0) =>
                  \A c \in DOMAIN A : SameSign(InnerProduct(x, B[c]), InnerProduct(x, A[c]))
  <2>1. \A c \in 0 .. n - 1 : InnerProduct(x, B[c]) = 0 <=> InnerProduct(x, A[c]) = 0
    BY <1>1, <1>3
  <2>2. \A c \in n .. m - 1 : c \in 0 .. m - 1
    OBVIOUS
  <2>3. \A c \in n .. m - 1 : SameSign(InnerProduct(x, B[c]), InnerProduct(x, A[c]))
    BY <1>1, <2>2 DEF SameSign
  <2>4. SameSign(InnerProduct(x, B[-1]), InnerProduct(x, A[-1]))
    BY <1>1 DEF SameSign
  <2>5. ASSUME \A c \in 0 .. n - 1 : InnerProduct(x, A[c]) = 0, NEW c \in 0 .. n - 1
        PROVE  SameSign(InnerProduct(x, B[c]), InnerProduct(x, A[c]))
    BY <2>1, <2>5 DEF SameSign
  <2> QED BY <1>1, <1>2, <2>1, <2>3, <2>4, <2>5
<1>5. SignsKept(A, B, 0 .. n - 1)
  BY <1>1, <1>3, <1>4 DEF SignsKept
<1> QED BY <1>5 DEF A, B

-----------------------------------------------------------------------------
(* Steps 0 and 1: the rows keep their meaning, and are counted.            *)

\* The constraints of Remove_Redundants, the positivity constraint included.
Wide == Family(Mat, NbConstraints, FALSE)

\* The status words of the rows counted.
RowCounts(n) == \A c \in 0 .. n - 1 : Mat[c][0] = Cardinality(Touched(Mat[c], Ray))
\* The status word of a ray counts the constraints that it saturates.
RayCounts    == \A r \in AllRays : Ray[r][0] = Cardinality(Zeros(Ray[r], Wide))

\* Steps 1 and 2: some rows are counted, or all are.
Counting(q) == Alive(Wide, Ray, q) /\ RowCounts(j)
Counted(q)  == Alive(Wide, Ray, q) /\ RowCounts(NbConstraints) /\ RayCounts

\* A call without a vertex is right to return the empty polyhedron.
Barren(q) ==
  /\ q.constrained => \A x \in IntRow : x \in q.cone => x[Dimension] = 0
  /\ q.generated => ~q.vertex

\* If all rays lie at infinity, the cone has no point: the promise is of none.
LEMMA BarrenIs ==
  ASSUME NEW A, NEW R, NEW q, Means(A, R, q), -1 \in Flat(A, R)
  PROVE  Barren(q)
<1>1. ASSUME q.constrained, NEW x \in IntRow, x \in q.cone PROVE x[Dimension] = 0
  <2>1. Obeys(x, A, Flat(A, R))
    BY <1>1 DEF Means
  <2>2. InnerProduct(x, A[-1]) = 0 /\ A[-1] = PositivityRow
    BY <2>1 DEF Obeys, Means
  <2> QED BY <2>2, PositivityProduct
<1> QED BY <1>1 DEF Barren, Means

\* The rows and the rays of the function.
LEMMA WideFacts ==
  ASSUME ReduceTyped
  PROVE  /\ IsFamily(Wide) /\ DOMAIN Wide = 0 .. NbConstraints - 1 \cup {-1} /\ Wide[-1] = PositivityRow
         /\ -1 \notin 0 .. NbConstraints - 1
         /\ \A c \in 0 .. NbConstraints - 1 : Wide[c] = Mat[c] /\ Mat[c] \in IntRow
         /\ IsFamily(Ray) /\ DOMAIN Ray = 0 .. NbRay - 1 /\ \A r \in 0 .. NbRay - 1 : Ray[r] \in IntRow
         /\ -1 \in Flat(Wide, Ray) <=> \A r \in 0 .. NbRay - 1 : AtInfinity(Ray[r])
         /\ NbConstraints \in Nat /\ NbRay \in Nat
<1>1. NbConstraints \in Nat /\ Mat \in MatrixOf(NbConstraints) /\ NbRay \in Nat /\ Ray \in MatrixOf(NbRay)
  BY DEF ReduceTyped
<1>2. /\ IsFamily(Wide) /\ DOMAIN Wide = 0 .. NbConstraints - 1 \cup {-1} /\ Wide[-1] = PositivityRow
      /\ -1 \notin 0 .. NbConstraints - 1
      /\ \A c \in 0 .. NbConstraints - 1 : Wide[c] = Mat[c] /\ Mat[c] \in IntRow
  BY <1>1, WideIs DEF Wide
<1>3. IsFamily(Ray) /\ DOMAIN Ray = 0 .. NbRay - 1 /\ \A r \in 0 .. NbRay - 1 : Ray[r] \in IntRow
  BY <1>1, RowsAre DEF IsFamily
<1>4. -1 \in Flat(Wide, Ray) <=> \A r \in 0 .. NbRay - 1 : InnerProduct(Ray[r], PositivityRow) = 0
  BY <1>2, <1>3 DEF Flat
<1>5. \A r \in 0 .. NbRay - 1 : InnerProduct(Ray[r], PositivityRow) = Ray[r][Dimension]
  BY <1>3, PositivityProduct
<1> QED BY <1>1, <1>2, <1>3, <1>4, <1>5 DEF AtInfinity

\* The bits, read as inner products.
LEMMA SaturatesIs ==
  ASSUME ReduceTyped, BitsKnown, NEW r \in AllRays, NEW c \in ConstraintRows
  PROVE  /\ Saturates(r, c) <=> InnerProduct(Ray[r], Mat[c]) = 0
         /\ InnerProduct(Ray[r], Mat[c]) >= 0
  BY DEF BitsKnown, Matched, Saturates, AllRays, ConstraintRows

\* Steps that only write status words.
LEMMA AliveSame ==
  ASSUME ReduceTyped, Same(Mat, Mat', NbConstraints), Same(Ray, Ray', NbRay), NbConstraints' = NbConstraints,
         NEW q, Means(Wide, Ray, q)
  PROVE  /\ Means(Wide', Ray', q)
         /\ Flat(Wide', Ray') = Flat(Wide, Ray) /\ Flat(Ray', Wide') = Flat(Ray, Wide)
         /\ \A c \in 0 .. NbConstraints - 1 : Touched(Mat'[c], Ray') = Touched(Mat[c], Ray)
         /\ \A r \in 0 .. NbRay - 1 : Zeros(Ray'[r], Wide') = Zeros(Ray[r], Wide)
<1>1. NbConstraints \in Nat /\ NbRay \in Nat /\ Mat' \in MatrixOf(NbConstraints)
  BY DEF ReduceTyped, Same
<1>2. Wide' = Family(Mat', NbConstraints, FALSE)
  BY DEF Wide
<1>3. Twins(Wide, Wide') /\ Twins(Ray, Ray')
  BY <1>1, <1>2, WideTwins DEF Wide
<1>4. /\ Wide'[-1] = PositivityRow
      /\ \A c \in 0 .. NbConstraints - 1 : Wide'[c] = Mat'[c]
  BY <1>1, <1>2, WideIs
<1>5. /\ Means(Wide', Ray', q)
      /\ Flat(Wide', Ray') = Flat(Wide, Ray) /\ Flat(Ray', Wide') = Flat(Ray, Wide)
      /\ \A c \in DOMAIN Wide : Touched(Wide'[c], Ray') = Touched(Wide[c], Ray)
      /\ \A r \in DOMAIN Ray : Zeros(Ray'[r], Wide') = Zeros(Ray[r], Wide)
  BY <1>3, <1>4, MeansTwins
<1> QED BY <1>4, <1>5, WideFacts

\* Step 0 returns the empty polyhedron then.
LEMMA ResetRaysMeans ==
  ASSUME InStep0, ResetRays, NEW q, Means(Wide, Ray, q)
  PROVE  (GotoEmpty /\ Barren(q)) \/ (pc' = "step1" /\ InStep1' /\ Counting(q)')
<1>1. ReduceTyped
  BY DEF InStep0
<1>2. CASE \A r \in AllRays : AtInfinity(Ray[r])
  <2>1. GotoEmpty
    BY <1>2 DEF ResetRays
  <2>2. -1 \in Flat(Wide, Ray)
    BY <1>1, <1>2, WideFacts DEF AllRays
  <2> QED BY <2>1, <2>2, BarrenIs
<1>3. CASE ~\A r \in AllRays : AtInfinity(Ray[r])
  <2>1. pc' = "step1" /\ j' = 0 /\ Mat' = Mat
    BY <1>3 DEF ResetRays
  <2>2. InStep1' /\ Same(Ray, Ray', NbRay) /\ NbConstraints' = NbConstraints
    <3>1. ~GotoEmpty
      BY <2>1 DEF GotoEmpty
    <3> QED BY <3>1, ResetRaysStep
  <2>3. Same(Mat, Mat', NbConstraints)
    BY <1>1, <2>1, SameItself DEF ReduceTyped
  <2>4. Means(Wide', Ray', q) /\ Flat(Wide', Ray') = Flat(Wide, Ray)
    BY <1>1, <2>2, <2>3, AliveSame
  <2>5. -1 \notin Flat(Wide, Ray)
    BY <1>1, <1>3, WideFacts DEF AllRays
  <2>6. RowCounts(j)'
    BY <2>1 DEF RowCounts
  <2> QED BY <2>1, <2>2, <2>4, <2>5, <2>6 DEF Counting, Alive
<1> QED BY <1>2, <1>3

\* A row is counted, exactly.
LEMMA CountConstraintMeans ==
  ASSUME pc = "step1", InStep1, CountConstraint, NEW q, Counting(q)
  PROVE  pc' = "step1" /\ InStep1' /\ Counting(q)'
<1>1. /\ pc' = "step1" /\ InStep1'
      /\ Same(Mat, Mat', NbConstraints) /\ Same(Ray, Ray', NbRay) /\ NbConstraints' = NbConstraints
      /\ Mat'[j][0] = RaysSaturating(j) /\ \A c \in 0 .. j - 1 : Mat'[c] = Mat[c]
  BY CountConstraintStep
<1>2. ReduceTyped /\ BitsKnown /\ j \in 0..NbConstraints
  BY DEF InStep1
<1>3. j < NbConstraints /\ j' = j + 1
  BY DEF CountConstraint
<1>4. /\ Means(Wide', Ray', q)
      /\ Flat(Wide', Ray') = Flat(Wide, Ray)
      /\ \A c \in 0 .. NbConstraints - 1 : Touched(Mat'[c], Ray') = Touched(Mat[c], Ray)
  BY <1>1, <1>2, AliveSame DEF Counting, Alive
<1>5. j \in ConstraintRows /\ NbConstraints \in Nat /\ j \in Nat
  BY <1>2, <1>3 DEF ConstraintRows, ReduceTyped
<1>6. {r \in AllRays : Saturates(r, j)} = Touched(Mat[j], Ray)
  <2>1. DOMAIN Ray = AllRays
    BY <1>2, WideFacts DEF AllRays
  <2>2. \A r \in AllRays : Saturates(r, j) <=> InnerProduct(Ray[r], Mat[j]) = 0
    BY <1>2, <1>5, SaturatesIs
  <2> QED BY <2>1, <2>2 DEF Touched
<1>7. ASSUME NEW c \in 0 .. (j + 1) - 1 PROVE Mat'[c][0] = Cardinality(Touched(Mat'[c], Ray'))
  <2>1. c \in 0 .. NbConstraints - 1 /\ (c \in 0 .. j - 1 \/ c = j)
    BY <1>3, <1>5
  <2>2. CASE c \in 0 .. j - 1
    <3>1. Mat[c][0] = Cardinality(Touched(Mat[c], Ray))
      BY <2>2 DEF Counting, RowCounts
    <3> QED BY <1>1, <1>4, <2>1, <2>2, <3>1
  <2>3. CASE c = j
    BY <1>1, <1>4, <1>6, <2>1, <2>3 DEF RaysSaturating
  <2> QED BY <2>1, <2>2, <2>3
<1>8. RowCounts(j)'
  BY <1>3, <1>7 DEF RowCounts
<1> QED BY <1>1, <1>4, <1>8 DEF Counting, Alive

\* First_Non_Zero finds nothing only when there is nothing.
LEMMA FirstNonZeroIs ==
  ASSUME NEW p \in IntRow, NEW n \in 0..Dimension
  PROVE  FirstNonZero(p, n) = 0 <=> \A c \in 1..n : p[c] = 0
<1>1. CASE \A c \in 1..n : p[c] = 0
  BY <1>1 DEF FirstNonZero
<1>2. CASE ~\A c \in 1..n : p[c] = 0
  <2> DEFINE S == {c \in 1..n : p[c] # 0}
  <2>1. S \subseteq Nat /\ S # {}
    BY <1>2
  <2>2. PICK m \in S : \A c \in S : m <= c
    BY <2>1, LeastElement
  <2>3. m \in 1..n /\ p[m] # 0 /\ \A d \in 1 .. m - 1 : p[d] = 0
    <3>1. m \in 1..n /\ p[m] # 0
      BY <2>2
    <3>2. ASSUME NEW d \in 1 .. m - 1, p[d] # 0 PROVE FALSE
      <4>1. d \in S
        BY <3>1, <3>2 DEF S
      <4>2. m <= d
        BY <2>2, <4>1
      <4> QED BY <3>1, <4>2
    <3> QED BY <3>1, <3>2
  <2>4. (CHOOSE c \in 1..n : p[c] # 0 /\ \A d \in 1 .. c - 1 : p[d] = 0) \in 1..n
    BY <2>3
  <2>5. FirstNonZero(p, n) \in 1..n
    BY <1>2, <2>4 DEF FirstNonZero
  <2> QED BY <1>2, <2>5
<1> QED BY <1>1, <1>2

\* A row without variable coefficients is a multiple of positivity.
LEMMA PositivityMultiple ==
  ASSUME NEW p \in IntRow, IsPositivity(p), NEW x \in IntRow
  PROVE  InnerProduct(x, p) = p[Dimension] * x[Dimension]
<1>1. Dimension - 1 \in 0..Dimension /\ Dimension \in 0..Dimension
  BY DimensionAssumption
<1>2. \A c \in 1 .. Dimension - 1 : p[c] = 0
  BY <1>1, FirstNonZeroIs DEF IsPositivity
<1>3. p[Dimension] \in Int /\ x[Dimension] \in Int
  BY <1>1 DEF IntRow
<1>4. PositivityRow \in IntRow /\ InnerProduct(x, PositivityRow) = x[Dimension]
  BY PositivityProduct
<1>5. \A c \in Coordinates : 1 * p[c] = p[Dimension] * PositivityRow[c] + 0 * PositivityRow[c]
  <2>1. ASSUME NEW c \in Coordinates PROVE 1 * p[c] = p[Dimension] * PositivityRow[c] + 0 * PositivityRow[c]
    <3>1. c \in 0..Dimension /\ c # 0 /\ (c = Dimension \/ c \in 1 .. Dimension - 1)
      BY DimensionAssumption DEF Coordinates
    <3>2. CASE c = Dimension
      <4>1. PositivityRow[c] = 1
        BY <3>1, <3>2 DEF PositivityRow
      <4> QED BY <1>3, <3>2, <4>1
    <3>3. CASE c # Dimension
      <4>1. PositivityRow[c] = 0 /\ p[c] = 0
        BY <1>2, <3>1, <3>3 DEF PositivityRow
      <4> QED BY <1>3, <4>1
    <3> QED BY <3>2, <3>3
  <2> QED BY <2>1
<1>6. 1 * InnerProduct(p, x) = p[Dimension] * InnerProduct(PositivityRow, x) + 0 * InnerProduct(PositivityRow, x)
  BY <1>3, <1>4, <1>5, InnerProductLinear
<1>7. InnerProduct(PositivityRow, x) = x[Dimension] /\ InnerProduct(p, x) = InnerProduct(x, p) /\ InnerProduct(x, p) \in Int
  BY <1>4, InnerProductSymmetric, InnerProductInt
<1> QED BY <1>3, <1>6, <1>7

\* With a vertex among the rays it follows from the positivity constraint.
LEMMA PositivityFollows ==
  ASSUME NEW A, NEW R, NEW q, Alive(A, R, q), NEW c \in DOMAIN A, IsPositivity(A[c])
  PROVE  /\ c \in Flat(A, R) <=> A[c][Dimension] = 0
         /\ A[c][Dimension] \in Nat /\ A[c] \in IntRow
         /\ \A x \in IntRow : InnerProduct(x, A[c]) = A[c][Dimension] * x[Dimension]
<1>1. A[c] \in IntRow /\ Exact(A, R)
  BY DEF Alive, Means, Exact, Tight, IsFamily
<1>2. \A x \in IntRow : InnerProduct(x, A[c]) = A[c][Dimension] * x[Dimension]
  BY <1>1, PositivityMultiple
<1>3. PICK s \in DOMAIN R : R[s][Dimension] > 0
  BY AliveVertex
<1>4. \A r \in DOMAIN R : R[r] \in IntRow /\ R[r][Dimension] \in Nat /\ InnerProduct(R[r], A[c]) \in Nat
  BY <1>1, ExactProducts, AliveVertex
<1>5. A[c][Dimension] \in Int
  BY <1>1, LastInt
<1>6. A[c][Dimension] * R[s][Dimension] \in Nat
  BY <1>2, <1>3, <1>4
<1>7. A[c][Dimension] \in Nat /\ (A[c][Dimension] * R[s][Dimension] = 0 => A[c][Dimension] = 0)
  <2> DEFINE y == A[c][Dimension]
             z == R[s][Dimension]
  <2>1. y \in Int /\ z \in Nat \ {0} /\ y * z \in Nat
    BY <1>3, <1>4, <1>5, <1>6
  <2> HIDE DEF y, z
  <2>2. y \in Nat /\ (y * z = 0 => y = 0)
    BY <2>1
  <2> QED BY <2>2 DEF y, z
<1>8. A[c][Dimension] = 0 => c \in Flat(A, R)
  <2>1. ASSUME A[c][Dimension] = 0, NEW r \in DOMAIN R PROVE InnerProduct(R[r], A[c]) = 0
    BY <1>2, <1>4, <2>1
  <2> QED BY <2>1 DEF Flat
<1>9. c \in Flat(A, R) => A[c][Dimension] = 0
  BY <1>2, <1>3, <1>4, <1>7 DEF Flat
<1> QED BY <1>1, <1>2, <1>7, <1>8, <1>9

\* A row that is the positivity constraint says nothing that the one added does not.
LEMMA PositivityLeftOut ==
  ASSUME NEW A, NEW R, NEW q, Alive(A, R, q), NEW c \in DOMAIN A, IsPositivity(A[c]),
         NEW x \in IntRow, x[Dimension] >= 0
  PROVE  InnerProduct(x, A[c]) >= 0 /\ (c \in Flat(A, R) => InnerProduct(x, A[c]) = 0)
<1>1. /\ c \in Flat(A, R) <=> A[c][Dimension] = 0
      /\ A[c][Dimension] \in Nat
      /\ InnerProduct(x, A[c]) = A[c][Dimension] * x[Dimension]
  BY PositivityFollows
<1>2. x[Dimension] \in Nat
  BY LastInt
<1> HIDE DEF Flat
<1> QED BY <1>1, <1>2

\* Hence it may go.
LEMMA RemovePositivityMeans ==
  ASSUME pc = "step1", InStep1, RemovePositivity, NEW q, Counting(q)
  PROVE  pc' = "step1" /\ InStep1' /\ Counting(q)'
<1> DEFINE A == Wide
           B == Wide'
           m == NbConstraints
<1>1. ReduceTyped /\ BitsKnown /\ j \in 0..m
  BY DEF InStep1
<1>2. /\ IsFamily(A) /\ DOMAIN A = 0 .. m - 1 \cup {-1} /\ A[-1] = PositivityRow
      /\ \A c \in 0 .. m - 1 : A[c] = Mat[c]
      /\ \A r \in AllRays : Ray[r] \in IntRow
      /\ DOMAIN Ray = AllRays /\ m \in Nat
  BY <1>1, WideFacts DEF AllRays
<1>3. Alive(A, Ray, q) /\ Exact(A, Ray)
  BY DEF Counting, Alive, Means
<1>4. j \in 0 .. m - 1 /\ IsPositivity(A[j]) /\ j \in DOMAIN A
  <2>1. j <= m - 1 /\ IsPositivity(Mat[j])
    BY DEF RemovePositivity
  <2> QED BY <1>1, <1>2, <2>1
<1>5. ~GotoEmpty
  <2>1. ~(RaysSaturating(j) = NbRay /\ Mat[j][Dimension] # 0)
    <3> SUFFICES ASSUME RaysSaturating(j) = NbRay, Mat[j][Dimension] # 0 PROVE FALSE
      OBVIOUS
    <3>1. {r \in AllRays : Saturates(r, j)} = AllRays
      BY <1>1, PartOfRange DEF RaysSaturating, AllRays, ReduceTyped
    <3>2. \A r \in AllRays : InnerProduct(Ray[r], Mat[j]) = 0
      BY <1>1, <1>4, <3>1, SaturatesIs DEF ConstraintRows
    <3>3. j \in Flat(A, Ray)
      BY <1>2, <1>4, <3>2 DEF Flat
    <3> QED BY <1>2, <1>3, <1>4, <3>3, PositivityFollows
  <2>2. UNCHANGED pc
    BY <2>1 DEF RemovePositivity
  <2> QED BY <2>2 DEF GotoEmpty
<1>6. pc' = "step1" /\ InStep1' /\ RowRemoved
  BY <1>5, RemovePositivityStep
<1>7. Ray' = Ray /\ j' = j
  <2>1. ~(RaysSaturating(j) = NbRay /\ Mat[j][Dimension] # 0)
    BY <1>5 DEF RemovePositivity
  <2> QED BY <2>1 DEF RemovePositivity
<1>8. /\ IsFamily(B) /\ DOMAIN B = 0 .. m - 2 \cup {-1} /\ B[-1] = PositivityRow
      /\ \A c \in 0 .. m - 2 : B[c] = Mat[Swapped(c, j, m - 1)]
  <2>1. NbConstraints' = m - 1 /\ \A c \in 0 .. m - 2 : Mat'[c] = Mat[Swapped(c, j, m - 1)]
    BY <1>6 DEF RowRemoved
  <2>2. NbConstraints' \in Nat /\ Mat' \in MatrixOf(NbConstraints')
    BY <1>6 DEF InStep1, ReduceTyped
  <2>3. Wide' = Family(Mat', NbConstraints', FALSE)
    BY DEF Wide
  <2>4. (m - 1) - 1 = m - 2
    BY <1>2
  <2>5. /\ IsFamily(B) /\ DOMAIN B = 0 .. NbConstraints' - 1 \cup {-1} /\ B[-1] = PositivityRow
        /\ \A c \in 0 .. NbConstraints' - 1 : B[c] = Mat'[c]
    BY <2>2, <2>3, WideIs
  <2> QED BY <2>1, <2>4, <2>5
<1>9. ASSUME NEW b \in DOMAIN B PROVE \E a \in DOMAIN A : B[b] = A[a]
  <2>1. CASE b = -1
    BY <1>2, <1>8, <2>1
  <2>2. CASE b \in 0 .. m - 2
    <3>1. Swapped(b, j, m - 1) \in 0 .. m - 1
      BY <1>2, <1>4, <2>2 DEF Swapped
    <3> QED BY <1>2, <1>8, <2>2, <3>1
  <2> QED BY <1>8, <2>1, <2>2
<1>10. ASSUME NEW a \in DOMAIN A, a # j PROVE \E b \in DOMAIN B : B[b] = A[a]
  <2>1. CASE a = -1
    BY <1>2, <1>8, <2>1
  <2>2. CASE a \in 0 .. m - 1 /\ a # m - 1
    <3>1. a \in 0 .. m - 2 /\ Swapped(a, j, m - 1) = a
      BY <1>2, <1>10, <2>2 DEF Swapped
    <3> QED BY <1>2, <1>8, <2>2, <3>1
  <2>3. CASE a = m - 1
    <3>1. j \in 0 .. m - 2 /\ Swapped(j, j, m - 1) = a /\ a \in 0 .. m - 1
      BY <1>2, <1>4, <1>10, <2>3 DEF Swapped
    <3> QED BY <1>2, <1>8, <3>1
  <2> QED BY <1>2, <2>1, <2>2, <2>3
<1> HIDE DEF A, B, m
<1>11. \A b \in DOMAIN B, r \in DOMAIN Ray : /\ InnerProduct(Ray[r], B[b]) >= 0
                                             /\ r \in Flat(Ray, A) => InnerProduct(Ray[r], B[b]) = 0
  <2>1. \A a \in DOMAIN A, r \in DOMAIN Ray : /\ InnerProduct(Ray[r], A[a]) >= 0
                                              /\ r \in Flat(Ray, A) => InnerProduct(Ray[r], A[a]) = 0
    BY <1>3, ExactProducts
  <2> QED BY <1>9, <2>1
<1>12. ASSUME NEW x \in IntRow, Obeys(x, B, Flat(B, Ray)) PROVE Obeys(x, A, Flat(A, Ray))
  <2>1. ASSUME NEW a \in DOMAIN A, a # j
        PROVE  InnerProduct(x, A[a]) >= 0 /\ (a \in Flat(A, Ray) => InnerProduct(x, A[a]) = 0)
    <3>1. PICK b \in DOMAIN B : B[b] = A[a]
      BY <1>10, <2>1
    <3>2. a \in Flat(A, Ray) => b \in Flat(B, Ray)
      BY <3>1 DEF Flat
    <3> QED BY <1>12, <3>1, <3>2 DEF Obeys
  <2>2. InnerProduct(x, A[j]) >= 0 /\ (j \in Flat(A, Ray) => InnerProduct(x, A[j]) = 0)
    <3>1. InnerProduct(x, B[-1]) >= 0 /\ B[-1] = PositivityRow
      BY <1>8, <1>12 DEF Obeys
    <3>2. x[Dimension] >= 0
      BY <3>1, PositivityProduct
    <3> QED BY <1>3, <1>4, <3>2, PositivityLeftOut
  <2> QED BY <2>1, <2>2 DEF Obeys
<1>13. Replaces(B, A, Ray)
  BY <1>3, <1>8, <1>11, <1>12, ExactReplaced
<1>14. Alive(B, Ray, q)
  <2>1. Means(A, Ray, q) /\ -1 \notin Flat(A, Ray)
    BY <1>3 DEF Alive
  <2>2. -1 \in DOMAIN B
    BY <1>8
  <2> QED BY <1>8, <1>13, <2>1, <2>2, MeansRows DEF Alive
<1>15. RowCounts(j)'
  <2>1. RowCounts(j) /\ \A c \in 0 .. j - 1 : Mat'[c] = Mat[c]
    BY <1>6 DEF Counting, RowRemoved
  <2> QED BY <1>7, <2>1 DEF RowCounts
<1> QED BY <1>6, <1>7, <1>14, <1>15 DEF Counting, A, B

\* The rays are counted, the positivity constraint included.
LEMMA CountLinesMeans ==
  ASSUME InStep1, CountLines, NEW q, Counting(q)
  PROVE  pc' = "step2" /\ InStep2' /\ Counted(q)'
<1> DEFINE m == NbConstraints
<1>1. pc' = "step2" /\ InStep2' /\ Same(Ray, Ray', NbRay)
  BY CountLinesStep
<1>2. j = m /\ Mat' = Mat /\ NbRay' = NbRay
      /\ Ray' = [r \in AllRays |-> IF AtInfinity(Ray[r]) THEN WithStatus(Ray[r], Ray[r][0] + 1) ELSE Ray[r]]
  BY DEF CountLines
<1>3. ReduceTyped /\ BitsKnown /\ \A r \in AllRays : Ray[r][0] = Cardinality(SaturatedBefore(r, j))
  BY DEF InStep1
<1>4. m' = m /\ Same(Mat, Mat', m)
  <2>1. m' = m
    BY <1>2 DEF NbConstraints
  <2> QED BY <1>2, <1>3, <2>1, SameItself DEF ReduceTyped
<1>5. /\ Means(Wide', Ray', q)
      /\ Flat(Wide', Ray') = Flat(Wide, Ray)
      /\ \A c \in 0 .. m - 1 : Touched(Mat'[c], Ray') = Touched(Mat[c], Ray)
      /\ \A r \in 0 .. NbRay - 1 : Zeros(Ray'[r], Wide') = Zeros(Ray[r], Wide)
  BY <1>1, <1>3, <1>4, AliveSame DEF Counting, Alive
<1>6. Alive(Wide', Ray', q)
  BY <1>5 DEF Counting, Alive
<1>7. RowCounts(m)'
  <2>1. RowCounts(m)
    BY <1>2 DEF Counting
  <2> QED BY <1>2, <1>4, <1>5, <2>1 DEF RowCounts
<1>8. ASSUME NEW r \in AllRays PROVE Ray'[r][0] = Cardinality(Zeros(Ray[r], Wide))
  <2> DEFINE S == SaturatedBefore(r, m)
  <2>1. /\ DOMAIN Wide = 0 .. m - 1 \cup {-1} /\ Wide[-1] = PositivityRow /\ m \in Nat /\ -1 \notin 0 .. m - 1
        /\ \A c \in 0 .. m - 1 : Wide[c] = Mat[c]
        /\ Ray[r] \in IntRow
    BY <1>3, <1>8, WideFacts DEF AllRays
  <2>2. \A c \in 0 .. m - 1 : Saturates(r, c) <=> InnerProduct(Ray[r], Mat[c]) = 0
    BY <1>3, <1>8, SaturatesIs DEF ConstraintRows
  <2>3. S \subseteq 0 .. m - 1 /\ IsFiniteSet(S) /\ Cardinality(S) \in Nat /\ -1 \notin S
    <3>1. S \subseteq 0 .. m - 1
      BY DEF SaturatedBefore
    <3> HIDE DEF S
    <3>2. IsFiniteSet(S) /\ Cardinality(S) \in 0..m
      BY <2>1, <3>1, PartOfRange
    <3> QED BY <2>1, <3>1, <3>2
  <2>4. InnerProduct(Ray[r], Wide[-1]) = 0 <=> AtInfinity(Ray[r])
    BY <2>1, PositivityProduct DEF AtInfinity
  <2>5. Zeros(Ray[r], Wide) = S \cup (IF AtInfinity(Ray[r]) THEN {-1} ELSE {})
    BY <2>1, <2>2, <2>4 DEF Zeros, SaturatedBefore
  <2>6. Ray[r][0] = Cardinality(S)
    BY <1>2, <1>3, <1>8
  <2> HIDE DEF S
  <2>7. CASE AtInfinity(Ray[r])
    <3>1. Cardinality(S \cup {-1}) = Cardinality(S) + 1
      BY <2>3, FS_AddElement
    <3>2. Ray'[r] = WithStatus(Ray[r], Cardinality(S) + 1)
      BY <1>2, <2>6, <2>7
    <3>3. WithStatus(Ray[r], Cardinality(S) + 1)[0] = Cardinality(S) + 1
      <4>1. Cardinality(S) + 1 \in Int
        BY <2>3
      <4> QED BY <2>1, <4>1, StatusOnly
    <3> QED BY <2>5, <2>7, <3>1, <3>2, <3>3
  <2>8. CASE ~AtInfinity(Ray[r])
    BY <1>2, <2>5, <2>6, <2>8
  <2> QED BY <2>7, <2>8
<1>9. RayCounts'
  BY <1>2, <1>5, <1>8 DEF RayCounts, AllRays
<1> QED BY <1>1, <1>4, <1>6, <1>7, <1>9 DEF Counted

-----------------------------------------------------------------------------
(* Step 2: rows that move.                                                 *)

\* Sets paired by two maps have the same size.
LEMMA PairedSizes ==
  ASSUME NEW S, IsFiniteSet(S), NEW T, IsFiniteSet(T), NEW f, NEW g,
         \A x \in S : f[x] \in T /\ g[f[x]] = x, \A y \in T : g[y] \in S /\ f[g[y]] = y
  PROVE  Cardinality(S) = Cardinality(T)
<1> DEFINE F == [x \in S |-> f[x]]
           G == [y \in T |-> g[y]]
<1>1. {F[x] : x \in S} = T /\ {G[y] : y \in T} = S
  OBVIOUS
<1>2. DOMAIN F = S /\ DOMAIN G = T
  OBVIOUS
<1> HIDE DEF F, G
<1>3. Cardinality(T) <= Cardinality(S) /\ Cardinality(S) <= Cardinality(T)
  BY <1>1, <1>2, ImageSize
<1>4. Cardinality(S) \in Nat /\ Cardinality(T) \in Nat
  BY FS_CardinalityType
<1> QED BY <1>3, <1>4

\* f takes an index to the one its row comes from, g back.
Permutes(f, g, n) ==
  \A x \in 0 .. n - 1 : /\ f[x] \in 0 .. n - 1 /\ g[f[x]] = x
                        /\ g[x] \in 0 .. n - 1 /\ f[g[x]] = x

\* An exchange of two rows is its own inverse.
LEMMA SwapPermutes ==
  ASSUME NEW n \in Nat, NEW a \in 0 .. n - 1, NEW b \in 0 .. n - 1, NEW f, f = [x \in 0 .. n - 1 |-> Swapped(x, a, b)]
  PROVE  Permutes(f, f, n)
  BY DEF Permutes, Swapped

\* So is a slide undone by the slide back.
LEMMA SlidePermutes ==
  ASSUME NEW n \in Nat, NEW a \in 0 .. n - 1, NEW b \in 0 .. n - 1, b < a,
         NEW f, f = [x \in 0 .. n - 1 |-> SlidFrom(x, a, b)],
         NEW g, g = [x \in 0 .. n - 1 |-> IF x = a THEN b ELSE IF x \in b .. a - 1 THEN x + 1 ELSE x]
  PROVE  Permutes(f, g, n)
<1>1. ASSUME NEW x \in 0 .. n - 1
      PROVE  SlidFrom(x, a, b) \in 0 .. n - 1 /\ g[SlidFrom(x, a, b)] = x
  <2>1. CASE x = b
    <3>1. SlidFrom(x, a, b) = a /\ g[a] = b
      BY <2>1 DEF SlidFrom
    <3> QED BY <2>1, <3>1
  <2>2. CASE x \in b + 1 .. a
    <3>1. SlidFrom(x, a, b) = x - 1 /\ x - 1 \in 0 .. n - 1 /\ x - 1 # a /\ x - 1 \in b .. a - 1
      BY <2>2 DEF SlidFrom
    <3>2. g[x - 1] = (x - 1) + 1
      BY <3>1
    <3> QED BY <3>1, <3>2
  <2>3. CASE x # b /\ x \notin b + 1 .. a
    <3>1. SlidFrom(x, a, b) = x /\ x # a /\ x \notin b .. a - 1
      BY <2>3 DEF SlidFrom
    <3> QED BY <3>1
  <2> QED BY <2>1, <2>2, <2>3
<1>2. ASSUME NEW x \in 0 .. n - 1
      PROVE  g[x] \in 0 .. n - 1 /\ SlidFrom(g[x], a, b) = x
  <2>1. CASE x = a
    <3>1. g[x] = b
      BY <2>1
    <3> QED BY <2>1, <3>1 DEF SlidFrom
  <2>2. CASE x \in b .. a - 1
    <3>1. g[x] = x + 1 /\ x + 1 \in 0 .. n - 1 /\ x + 1 # b /\ x + 1 \in b + 1 .. a
      BY <2>2
    <3>2. SlidFrom(x + 1, a, b) = (x + 1) - 1
      BY <3>1 DEF SlidFrom
    <3> QED BY <3>1, <3>2
  <2>3. CASE x # a /\ x \notin b .. a - 1
    <3>1. g[x] = x /\ x # b /\ x \notin b + 1 .. a
      BY <2>3
    <3> QED BY <3>1 DEF SlidFrom
  <2> QED BY <2>1, <2>2, <2>3
<1> QED BY <1>1, <1>2 DEF Permutes

\* The same rows in another order.
LEMMA RowsMoved ==
  ASSUME ReduceTyped, ReduceTyped', Ray' = Ray, NbRay' = NbRay, NbConstraints' = NbConstraints,
         NEW f, NEW g, Permutes(f, g, NbConstraints), \A c \in 0 .. NbConstraints - 1 : Mat'[c] = Mat[f[c]],
         NEW q, Counted(q)
  PROVE  Counted(q)'
<1> DEFINE A == Wide
           B == Wide'
           m == NbConstraints
           F == [c \in 0 .. m - 1 \cup {-1} |-> IF c = -1 THEN -1 ELSE f[c]]
           G == [c \in 0 .. m - 1 \cup {-1} |-> IF c = -1 THEN -1 ELSE g[c]]
<1>1. /\ IsFamily(A) /\ DOMAIN A = 0 .. m - 1 \cup {-1} /\ A[-1] = PositivityRow
      /\ -1 \notin 0 .. m - 1
      /\ \A c \in 0 .. m - 1 : A[c] = Mat[c]
      /\ \A r \in AllRays : Ray[r] \in IntRow
      /\ DOMAIN Ray = AllRays /\ m \in Nat
  BY WideFacts DEF AllRays
<1>2. /\ IsFamily(B) /\ DOMAIN B = 0 .. m - 1 \cup {-1} /\ B[-1] = PositivityRow
      /\ \A c \in 0 .. m - 1 : B[c] = Mat'[c]
  <2>1. Mat' \in MatrixOf(m)
    BY DEF ReduceTyped
  <2>2. Wide' = Family(Mat', m, FALSE)
    BY DEF Wide
  <2> QED BY <1>1, <2>1, <2>2, WideIs
<1>3. \A c \in 0 .. m - 1 : /\ f[c] \in 0 .. m - 1 /\ g[f[c]] = c
                            /\ g[c] \in 0 .. m - 1 /\ f[g[c]] = c
  BY DEF Permutes
<1>4. \A b \in DOMAIN B : F[b] \in DOMAIN A /\ G[F[b]] = b /\ B[b] = A[F[b]]
  BY <1>1, <1>2, <1>3
<1>5. \A a \in DOMAIN A : G[a] \in DOMAIN B /\ F[G[a]] = a
  BY <1>1, <1>2, <1>3
<1> HIDE DEF A, B, F, G
<1>6. Alive(A, Ray, q) /\ Exact(A, Ray) /\ RowCounts(m) /\ RayCounts
  BY DEF Counted, Alive, Means, A, m
<1>7. /\ \A b \in DOMAIN B : \E a \in DOMAIN A : Alike(B[b], A[a])
      /\ \A a \in DOMAIN A : \E b \in DOMAIN B : Alike(B[b], A[a])
  BY <1>4, <1>5 DEF Alike
<1>8. Replaces(B, A, Ray)
  BY <1>2, <1>6, <1>7, ExactRows
<1>9. Alive(B, Ray, q)
  <2>1. Means(A, Ray, q) /\ -1 \notin Flat(A, Ray) /\ -1 \in DOMAIN B
    BY <1>2, <1>6 DEF Alive
  <2> QED BY <1>2, <1>8, <2>1, MeansRows DEF Alive
<1>10. RowCounts(m)'
  <2>1. \A c \in 0 .. m - 1 : Mat[c][0] = Cardinality(Touched(Mat[c], Ray))
    BY <1>6 DEF RowCounts
  <2>2. \A c \in 0 .. m - 1 : Mat'[c][0] = Cardinality(Touched(Mat'[c], Ray))
    BY <1>3, <2>1
  <2> QED BY <2>2 DEF RowCounts
<1>11. ASSUME NEW r \in AllRays PROVE Cardinality(Zeros(Ray[r], A)) = Cardinality(Zeros(Ray[r], B))
  <2> DEFINE S == Zeros(Ray[r], A)
             T == Zeros(Ray[r], B)
  <2>1. \A a \in S : G[a] \in T /\ F[G[a]] = a
    BY <1>4, <1>5 DEF Zeros
  <2>2. \A b \in T : F[b] \in S /\ G[F[b]] = b
    BY <1>4 DEF Zeros
  <2>3. IsFiniteSet(S) /\ IsFiniteSet(T)
    <3>1. S \subseteq DOMAIN A /\ T \subseteq DOMAIN B
      BY DEF Zeros
    <3> QED BY <1>1, <1>2, <3>1, FS_Subset DEF IsFamily
  <2> HIDE DEF S, T
  <2>4. Cardinality(S) = Cardinality(T)
    BY <2>1, <2>2, <2>3, PairedSizes
  <2> QED BY <2>4 DEF S, T
<1>12. RayCounts'
  <2>1. \A r \in AllRays : Ray[r][0] = Cardinality(Zeros(Ray[r], A))
    BY <1>6 DEF RayCounts, A
  <2> QED BY <1>11, <2>1 DEF RayCounts, B, AllRays
<1> QED BY <1>9, <1>10, <1>12 DEF Counted, B, m

\* Moved rays are the same rays with the same counts.
LEMMA RaysMoved ==
  ASSUME ReduceTyped, ReduceTyped', Mat' = Mat, NbRay' = NbRay,
         NEW f, NEW g, Permutes(f, g, NbRay), \A r \in 0 .. NbRay - 1 : Ray'[r] = Ray[f[r]],
         NEW q, Counted(q)
  PROVE  Counted(q)' /\ Flat(Wide', Ray') = Flat(Wide, Ray)
<1> DEFINE A == Wide
           m == NbConstraints
           n == NbRay
<1>1. Wide' = A /\ m' = m
  BY DEF Wide, NbConstraints
<1>2. /\ IsFamily(A) /\ DOMAIN A = 0 .. m - 1 \cup {-1} /\ A[-1] = PositivityRow
      /\ \A c \in 0 .. m - 1 : A[c] = Mat[c] /\ Mat[c] \in IntRow
      /\ IsFamily(Ray) /\ DOMAIN Ray = 0 .. n - 1 /\ m \in Nat /\ n \in Nat
  BY WideFacts
<1>3. IsFamily(Ray') /\ DOMAIN Ray' = 0 .. n - 1
  <2>1. Ray' \in MatrixOf(n)
    BY DEF ReduceTyped
  <2> QED BY <1>2, <2>1, RowsAre
<1>4. \A r \in 0 .. n - 1 : /\ f[r] \in 0 .. n - 1 /\ g[f[r]] = r
                            /\ g[r] \in 0 .. n - 1 /\ f[g[r]] = r
  BY DEF Permutes
<1> HIDE DEF A, m, n
<1>5. /\ Alive(A, Ray, q) /\ Exact(Ray, A) /\ \A c \in 0 .. m - 1 : Mat[c][0] = Cardinality(Touched(Mat[c], Ray))
      /\ \A r \in 0 .. n - 1 : Ray[r][0] = Cardinality(Zeros(Ray[r], A))
  BY ExactSwapped DEF Counted, Alive, Means, A, m, n, RowCounts, RayCounts, AllRays
<1>6. /\ \A r \in DOMAIN Ray' : \E s \in DOMAIN Ray : Alike(Ray'[r], Ray[s])
      /\ \A s \in DOMAIN Ray : \E r \in DOMAIN Ray' : Alike(Ray'[r], Ray[s])
  <2>1. \A r \in 0 .. n - 1 : Ray'[r] = Ray[f[r]] /\ Ray'[g[r]] = Ray[r]
    BY <1>4 DEF n
  <2> QED BY <1>2, <1>3, <1>4, <2>1 DEF Alike
<1>7. Replaces(Ray', Ray, A)
  BY <1>3, <1>5, <1>6, ExactRows
<1>8. Means(A, Ray', q) /\ Flat(A, Ray') = Flat(A, Ray)
  BY <1>5, <1>7, MeansRays DEF Alive
<1>9. ASSUME NEW c \in 0 .. m - 1 PROVE Cardinality(Touched(Mat[c], Ray)) = Cardinality(Touched(Mat[c], Ray'))
  <2> DEFINE S == Touched(Mat[c], Ray)
             T == Touched(Mat[c], Ray')
  <2>1. \A r \in S : g[r] \in T /\ f[g[r]] = r
    BY <1>2, <1>3, <1>4 DEF Touched, n
  <2>2. \A r \in T : f[r] \in S /\ g[f[r]] = r
    BY <1>2, <1>3, <1>4 DEF Touched, n
  <2>3. IsFiniteSet(S) /\ IsFiniteSet(T)
    <3>1. S \subseteq DOMAIN Ray /\ T \subseteq DOMAIN Ray'
      BY DEF Touched
    <3> QED BY <1>2, <1>3, <3>1, FS_Subset DEF IsFamily
  <2> HIDE DEF S, T
  <2>4. Cardinality(S) = Cardinality(T)
    BY <2>1, <2>2, <2>3, PairedSizes
  <2> QED BY <2>4 DEF S, T
<1>10. RowCounts(m)'
  BY <1>1, <1>5, <1>9 DEF RowCounts, m
<1>11. RayCounts'
  <2>1. \A r \in 0 .. n - 1 : Ray'[r][0] = Cardinality(Zeros(Ray'[r], A))
    BY <1>4, <1>5 DEF n
  <2> QED BY <1>1, <2>1 DEF RayCounts, AllRays, n
<1> QED BY <1>1, <1>5, <1>8, <1>10, <1>11 DEF Counted, Alive, A, m

\* An equality found is moved up among the others.
LEMMA SlideEqualityMeans ==
  ASSUME pc = "step2", InStep2, SlideEquality, NEW q, Counted(q)
  PROVE  pc' = "step2" /\ InStep2' /\ Counted(q)'
<1> DEFINE m == NbConstraints
<1>1. pc' = "step2" /\ InStep2' /\ RowsSlid
  BY SlideEqualityStep
<1>2. ReduceTyped /\ ReduceTyped' /\ m \in Nat
  BY <1>1 DEF InStep2, ReduceTyped
<1>3. Ray' = Ray /\ NbRay' = NbRay /\ m' = m
  BY <1>1 DEF SlideEquality, RowsSlid
<1>4. CASE Mat' = Mat
  <2>1. Wide' = Wide
    BY <1>4 DEF Wide, NbConstraints
  <2> QED BY <1>1, <1>3, <1>4, <2>1 DEF Counted, RowCounts, RayCounts, AllRays
<1>5. CASE \E from \in 0 .. m - 1, to \in 0 .. m - 1 :
             to < from /\ \A x \in 0 .. m - 1 : Mat'[x] = Mat[SlidFrom(x, from, to)]
  <2>1. PICK a \in 0 .. m - 1, b \in 0 .. m - 1 : b < a /\ \A x \in 0 .. m - 1 : Mat'[x] = Mat[SlidFrom(x, a, b)]
    BY <1>5
  <2> DEFINE f == [x \in 0 .. m - 1 |-> SlidFrom(x, a, b)]
             g == [x \in 0 .. m - 1 |-> IF x = a THEN b ELSE IF x \in b .. a - 1 THEN x + 1 ELSE x]
  <2>2. \A x \in 0 .. m - 1 : Mat'[x] = Mat[f[x]]
    BY <2>1
  <2>3. Permutes(f, g, m)
    BY <1>2, <2>1, SlidePermutes
  <2> HIDE DEF f, g
  <2>4. Counted(q)'
    BY <1>2, <1>3, <2>2, <2>3, RowsMoved
  <2> QED BY <1>1, <2>4
<1> QED BY <1>1, <1>4, <1>5 DEF RowsSlid

\* The rays that saturate all rows are those with the status of a line.
LEMMA LinesCounted ==
  ASSUME ReduceTyped, Exact(Wide, Ray), RayCounts, NEW r \in 0 .. NbRay - 1
  PROVE  SaturatesAll(Ray[r]) <=> r \in Flat(Ray, Wide)
<1> DEFINE m == NbConstraints
           n == NbRay
<1>1. /\ DOMAIN Wide = 0 .. m - 1 \cup {-1} /\ -1 \notin 0 .. m - 1 /\ m \in Nat /\ n \in Nat
      /\ DOMAIN Ray = 0 .. n - 1 /\ IsFamily(Ray) /\ IsFamily(Wide)
  BY WideFacts
<1>2. Ray[r][0] = Cardinality(Zeros(Ray[r], Wide)) /\ Exact(Wide, Ray)
  BY DEF RayCounts, AllRays
<1>3. r \in 0 .. n - 1
  OBVIOUS
<1> HIDE DEF m, n
<1>4. Ray[r][0] = m + 1 <=> r \in Flat(Ray, Wide)
  <2> DEFINE Z == Zeros(Ray[r], Wide)
             D == 0 .. m - 1 \cup {-1}
  <2>1. Z \subseteq D
    BY <1>1 DEF Zeros
  <2>2. Z = D <=> r \in Flat(Ray, Wide)
    <3>1. \A c \in DOMAIN Wide : InnerProduct(Ray[r], Wide[c]) = InnerProduct(Wide[c], Ray[r])
      BY <1>1, <1>2, <1>3, ExactProducts
    <3> QED BY <1>1, <1>3, <3>1 DEF Zeros, Flat
  <2>3. IsFiniteSet(D) /\ Cardinality(D) = m + 1
    <3> DEFINE N == 0 .. m - 1
    <3>1. IsFiniteSet(N) /\ Cardinality(N) = m /\ -1 \notin N
      BY <1>1, PartOfRange, CountTo
    <3> HIDE DEF N
    <3>2. IsFiniteSet(N \cup {-1}) /\ Cardinality(N \cup {-1}) = Cardinality(N) + 1
      BY <3>1, FS_AddElement
    <3> QED BY <3>1, <3>2 DEF N
  <2>4. Ray[r][0] = Cardinality(Z)
    BY <1>2
  <2> HIDE DEF Z, D
  <2>5. Cardinality(Z) = Cardinality(D) => Z = D
    BY <2>1, <2>3, FS_Subset
  <2> QED BY <2>2, <2>3, <2>4, <2>5
<1> QED BY <1>4 DEF SaturatesAll, m

\* What the counts say.
LEMMA FlatCounts ==
  ASSUME ReduceTyped, NEW q, Counted(q)
  PROVE  /\ \A c \in 0 .. NbConstraints - 1 : IsEquality(Mat[c]) <=> c \in Flat(Wide, Ray)
         /\ \A r \in 0 .. NbRay - 1 : SaturatesAll(Ray[r]) <=> r \in Flat(Ray, Wide)
         /\ Flat(Wide, Ray) \subseteq 0 .. NbConstraints - 1 /\ Flat(Ray, Wide) \subseteq 0 .. NbRay - 1
<1> DEFINE m == NbConstraints
           n == NbRay
<1>1. /\ DOMAIN Wide = 0 .. m - 1 \cup {-1} /\ -1 \notin 0 .. m - 1 /\ m \in Nat /\ n \in Nat
      /\ \A c \in 0 .. m - 1 : Wide[c] = Mat[c]
      /\ DOMAIN Ray = 0 .. n - 1 /\ IsFamily(Ray) /\ IsFamily(Wide)
  BY WideFacts
<1>2. /\ \A c \in 0 .. m - 1 : Mat[c][0] = Cardinality(Touched(Mat[c], Ray))
      /\ \A r \in 0 .. n - 1 : Ray[r][0] = Cardinality(Zeros(Ray[r], Wide))
      /\ Exact(Wide, Ray) /\ -1 \notin Flat(Wide, Ray)
  BY DEF Counted, RowCounts, RayCounts, AllRays, Alive, Means
<1> HIDE DEF m, n
<1>3. ASSUME NEW c \in 0 .. m - 1 PROVE Mat[c][0] = n <=> c \in Flat(Wide, Ray)
  <2> DEFINE T == Touched(Mat[c], Ray)
  <2>1. T \subseteq 0 .. n - 1
    BY <1>1 DEF Touched
  <2>2. T = 0 .. n - 1 <=> c \in Flat(Wide, Ray)
    BY <1>1 DEF Touched, Flat
  <2> HIDE DEF T
  <2>3. Cardinality(T) = n => T = 0 .. n - 1
    BY <1>1, <2>1, PartOfRange
  <2>4. T = 0 .. n - 1 => Cardinality(T) = n
    BY <1>1, CountTo
  <2>5. Mat[c][0] = Cardinality(T)
    BY <1>2 DEF T
  <2> QED BY <2>2, <2>3, <2>4, <2>5
<1>4. \A r \in 0 .. n - 1 : SaturatesAll(Ray[r]) <=> r \in Flat(Ray, Wide)
  BY <1>2, LinesCounted DEF Counted, n
<1>5. Flat(Wide, Ray) \subseteq 0 .. m - 1 /\ Flat(Ray, Wide) \subseteq 0 .. n - 1
  BY <1>1, <1>2 DEF Flat
<1> QED BY <1>3, <1>4, <1>5 DEF IsEquality, m, n

-----------------------------------------------------------------------------
(* Steps 2 to 5: equalities and lines come first, in echelon form.         *)

\* The equalities, by saturation, are the first rows.
Leveled(q) == Counted(q) /\ Flat(Wide, Ray) = 0 .. NbEq - 1

\* The rows have a basis first, and then nothing.
Reduced(M, rank, n) ==
  /\ \A x \in 0 .. rank - 1 : \E c \in Coordinates : M[x][c] # 0
  /\ Cleared(M, rank, n, Dimension)

\* n members that contain the first n numbers are these.
LEMMA FirstOnes ==
  ASSUME NEW m \in Nat, NEW S, S \subseteq 0 .. m - 1, NEW n \in 0..m, n = Cardinality(S), 0 .. n - 1 \subseteq S
  PROVE  S = 0 .. n - 1
<1> DEFINE T == 0 .. n - 1
<1>1. IsFiniteSet(S)
  BY PartOfRange
<1>2. Cardinality(T) = n
  <2>1. n \in Nat
    OBVIOUS
  <2> QED BY <2>1, CountTo
<1> HIDE DEF T
<1>3. T \in SUBSET S
  BY DEF T
<1>4. S = T
  BY <1>1, <1>2, <1>3, FS_Subset
<1> QED BY <1>4 DEF T

\* At the end of step 2 as many equalities are in front as were counted.
LEMMA EqualitiesOnTop ==
  ASSUME InStep2, i >= NbEq, NEW q, Counted(q)
  PROVE  NbEq \in 0..NbConstraints /\ Flat(Wide, Ray) = 0 .. NbEq - 1
<1> DEFINE m == NbConstraints
<1>1. /\ ReduceTyped /\ m \in Nat /\ EqualitiesKnown(m)
      /\ i \in 0..NbEq /\ \A c \in 0 .. i - 1 : IsEquality(Mat[c])
  BY DEF InStep2, ReduceTyped
<1>2. EqualitiesBefore(m) \subseteq 0 .. m - 1 /\ NbEq = Cardinality(EqualitiesBefore(m))
  BY <1>1 DEF EqualitiesKnown, EqualitiesBefore
<1>3. NbEq \in 0..m
  BY <1>1, <1>2, PartOfRange
<1>4. i = NbEq
  BY <1>1, <1>3
<1>5. 0 .. NbEq - 1 \subseteq EqualitiesBefore(m)
  BY <1>1, <1>3, <1>4 DEF EqualitiesBefore
<1>6. EqualitiesBefore(m) = 0 .. NbEq - 1
  BY <1>1, <1>2, <1>3, <1>5, FirstOnes
<1>7. /\ \A c \in 0 .. m - 1 : IsEquality(Mat[c]) <=> c \in Flat(Wide, Ray)
      /\ Flat(Wide, Ray) \subseteq 0 .. m - 1
  BY <1>1, FlatCounts
<1>8. Flat(Wide, Ray) = EqualitiesBefore(m)
  BY <1>7 DEF EqualitiesBefore
<1> QED BY <1>3, <1>6, <1>8

\* They are turned, at most.
LEMMA EqualitiesTurned ==
  ASSUME InStep2, FilterEqualities, NEW c \in 0 .. NbConstraints - 1
  PROVE  /\ Mat[c] \in IntRow /\ Mat'[c] \in IntRow /\ Mat'[c][0] = Mat[c][0]
         /\ ~(c < NbEq) => Mat'[c] = Mat[c]
         /\ \A x \in IntRow : InnerProduct(x, Mat'[c]) = 0 <=> InnerProduct(x, Mat[c]) = 0
<1>1. InStep3' /\ NbConstraints' = NbConstraints
  BY FilterEqualitiesStep
<1>2. Mat[c] \in IntRow /\ Mat'[c] \in IntRow
  BY <1>1 DEF InStep2, InStep3, ReduceTyped, MatrixOf
<1>3. Mat'[c] = IF filtering /\ c < NbEq THEN LexPositive(Mat[c]) ELSE Mat[c]
  BY DEF FilterEqualities, ConstraintRows
<1>4. Mat'[c] = Mat[c] \/ Mat'[c] = Opposite(Mat[c])
  BY <1>3 DEF LexPositive
<1>5. CASE Mat'[c] = Mat[c]
  BY <1>2, <1>5
<1>6. CASE Mat'[c] = Opposite(Mat[c])
  <2>1. ASSUME NEW x \in IntRow
        PROVE  /\ Mat'[c][0] = Mat[c][0]
               /\ InnerProduct(x, Mat'[c]) = 0 <=> InnerProduct(x, Mat[c]) = 0
    <3>1. /\ Opposite(Mat[c])[0] = Mat[c][0]
          /\ InnerProduct(Opposite(Mat[c]), x) = 0 <=> InnerProduct(Mat[c], x) = 0
      BY <1>2, OppositeRow
    <3>2. InnerProduct(x, Mat[c]) = InnerProduct(Mat[c], x) /\ InnerProduct(x, Mat'[c]) = InnerProduct(Mat'[c], x)
      BY <1>2, InnerProductSymmetric
    <3> QED BY <1>6, <3>1, <3>2
  <2>2. Mat'[c][0] = Mat[c][0]
    BY <1>2, <2>1
  <2> QED BY <1>2, <1>3, <2>1, <2>2
<1> QED BY <1>4, <1>5, <1>6

\* The promise does not depend on it.
LEMMA FilterEqualitiesMeans ==
  ASSUME InStep2, FilterEqualities, NEW q, Counted(q)
  PROVE  pc' = "step3" /\ InStep3' /\ Leveled(q)'
<1> DEFINE m == NbConstraints
<1>1. pc' = "step3" /\ InStep3' /\ m' = m
  BY FilterEqualitiesStep
<1>2. /\ i >= NbEq
      /\ Mat' = [c \in ConstraintRows |-> IF filtering /\ c < NbEq THEN LexPositive(Mat[c]) ELSE Mat[c]]
      /\ UNCHANGED <<Ray, NbRay, NbEq>>
  BY DEF FilterEqualities, counts
<1>3. /\ ReduceTyped /\ m \in Nat /\ Mat \in MatrixOf(m) /\ Mat' \in MatrixOf(m) /\ ConstraintRows = 0 .. m - 1
  BY <1>1 DEF InStep2, InStep3, ReduceTyped, ConstraintRows
<1>4. NbEq \in 0..m /\ Flat(Wide, Ray) = 0 .. NbEq - 1
  BY <1>2, EqualitiesOnTop
<1>5. ASSUME NEW c \in 0 .. m - 1
      PROVE  /\ Mat'[c][0] = Mat[c][0]
             /\ ~(c < NbEq) => Mat'[c] = Mat[c]
             /\ \A x \in IntRow : InnerProduct(x, Mat'[c]) = 0 <=> InnerProduct(x, Mat[c]) = 0
  BY EqualitiesTurned
<1>6. SignsKept(Wide, Wide', 0 .. NbEq - 1)
  <2>1. Wide' = Family(Mat', m, FALSE)
    BY <1>1 DEF Wide
  <2>2. /\ \A c \in NbEq .. m - 1 : Mat'[c] = Mat[c]
        /\ \A c \in 0 .. NbEq - 1 : \A x \in IntRow : InnerProduct(x, Mat'[c]) = 0 <=> InnerProduct(x, Mat[c]) = 0
    <3>1. (\A c \in NbEq .. m - 1 : c \in 0 .. m - 1 /\ ~(c < NbEq)) /\ \A c \in 0 .. NbEq - 1 : c \in 0 .. m - 1
      BY <1>3, <1>4
    <3> QED BY <1>5, <3>1
  <2>3. SignsKept(Family(Mat, m, FALSE), Family(Mat', m, FALSE), 0 .. NbEq - 1)
    BY <1>3, <1>4, <2>2, TurnedKeeps
  <2> QED BY <2>1, <2>3 DEF Wide
<1>7. Alive(Wide, Ray, q) /\ Exact(Wide, Ray)
  BY DEF Counted, Alive, Means
<1>8. /\ Replaces(Wide', Wide, Ray) /\ Flat(Wide', Ray) = Flat(Wide, Ray)
      /\ \A c \in DOMAIN Wide : Touched(Wide'[c], Ray) = Touched(Wide[c], Ray)
      /\ \A r \in DOMAIN Ray : Zeros(Ray[r], Wide') = Zeros(Ray[r], Wide)
  BY <1>4, <1>6, <1>7, SignsReplace
<1>9. /\ DOMAIN Wide = 0 .. m - 1 \cup {-1} /\ \A c \in 0 .. m - 1 : Wide[c] = Mat[c]
      /\ DOMAIN Ray = AllRays
  BY <1>3, WideFacts DEF AllRays
<1>10. -1 \in DOMAIN Wide' /\ Wide'[-1] = PositivityRow /\ \A c \in 0 .. m - 1 : Wide'[c] = Mat'[c]
  <2>1. Wide' = Family(Mat', m, FALSE)
    BY <1>1 DEF Wide
  <2> QED BY <1>3, <2>1, WideIs
<1>11. Means(Wide', Ray, q)
  BY <1>7, <1>8, <1>10, MeansRows DEF Alive
<1>12. Alive(Wide', Ray', q)
  BY <1>2, <1>7, <1>8, <1>11 DEF Alive
<1>13. RowCounts(NbConstraints)'
  <2>1. \A c \in 0 .. m - 1 : Mat[c][0] = Cardinality(Touched(Mat[c], Ray))
    BY DEF Counted, RowCounts
  <2>2. ASSUME NEW c \in 0 .. m - 1 PROVE Mat'[c][0] = Cardinality(Touched(Mat'[c], Ray'))
    <3>1. Mat'[c][0] = Mat[c][0] /\ Ray' = Ray
      BY <1>2, <1>5
    <3>2. c \in DOMAIN Wide /\ Wide[c] = Mat[c] /\ Wide'[c] = Mat'[c]
      BY <1>9, <1>10
    <3>3. Touched(Wide'[c], Ray) = Touched(Wide[c], Ray)
      BY <1>8, <3>2
    <3> QED BY <2>1, <3>1, <3>2, <3>3
  <2> QED BY <1>1, <2>2 DEF RowCounts
<1>14. RayCounts'
  <2>1. \A r \in AllRays : Ray[r][0] = Cardinality(Zeros(Ray[r], Wide))
    BY DEF Counted, RayCounts
  <2>2. AllRays' = AllRays /\ Ray' = Ray
    BY <1>2 DEF AllRays
  <2>3. \A r \in AllRays : Zeros(Ray[r], Wide') = Zeros(Ray[r], Wide)
    BY <1>8, <1>9
  <2>4. \A r \in AllRays' : Ray'[r][0] = Cardinality(Zeros(Ray'[r], Wide'))
    BY <2>1, <2>2, <2>3
  <2> QED BY <2>4 DEF RayCounts
<1>15. Flat(Wide', Ray') = 0 .. NbEq' - 1
  BY <1>2, <1>4, <1>8
<1> QED BY <1>1, <1>12, <1>13, <1>14, <1>15 DEF Leveled, Counted

\* The pivots go from left to right.
LEMMA PivotColumns ==
  ASSUME NEW M, NEW column, NEW rank \in Nat, NEW n, Echelon(M, column, rank, n), NEW x \in 0 .. rank - 1
  PROVE  column[x] \in Coordinates /\ column[x] >= x + 1
<1> DEFINE T == {y \in Nat : y < rank => column[y] >= y + 1}
<1>1. \A y \in 0 .. rank - 1 : column[y] \in Coordinates
  BY DEF Echelon
<1>2. 0 \in T
  <2>1. ASSUME 0 < rank PROVE column[0] >= 0 + 1
    <3>1. 0 \in 0 .. rank - 1
      BY <2>1
    <3>2. column[0] \in Coordinates
      BY <1>1, <3>1
    <3> QED BY <3>2 DEF Coordinates
  <2> QED BY <2>1
<1>3. ASSUME NEW y \in 0 .. rank - 1, y \in T PROVE y + 1 \in T
  <2>1. ASSUME y + 1 < rank PROVE column[y + 1] >= (y + 1) + 1
    <3>1. y \in 0 .. rank - 1 /\ y + 1 \in 0 .. rank - 1 /\ y \in 0 .. (y + 1) - 1
      BY <2>1
    <3>2. column[y] < column[y + 1]
      BY <3>1 DEF Echelon
    <3>3. column[y] >= y + 1
      BY <1>3, <3>1
    <3>4. column[y] \in Int /\ column[y + 1] \in Int
      BY <1>1, <3>1 DEF Coordinates
    <3> QED BY <3>2, <3>3, <3>4
  <2> QED BY <2>1
<1>4. 0..rank \subseteq T
  BY <1>2, <1>3, UpFromZero
<1>5. x \in T
  BY <1>4
<1> QED BY <1>1, <1>5

\* What Gauss4 returns, in the terms of Reduced; a rank of Dimension needs a pivot
\* in the last coordinate, in a row without any other.
LEMMA GaussReduced ==
  ASSUME NEW m \in Nat, NEW n \in 0..m, NEW M \in MatrixOf(m), NEW g, g = Gauss4(M, n, m)
  PROVE  /\ g.M \in MatrixOf(m) /\ g.rank \in 0..n
         /\ \A c \in 0 .. m - 1 : g.M[c][0] = M[c][0]
         /\ Reduced(g.M, g.rank, n)
         /\ g.rank >= Dimension => \E d \in 0 .. n - 1 : IsPositivity(g.M[d]) /\ g.M[d][Dimension] > 0
<1>1. /\ Equivalent(g.M, M, n, m) /\ g.rank \in 0..n /\ Cleared(g.M, g.rank, n, Dimension)
      /\ \E column : Echelon(g.M, column, g.rank, n)
  BY GaussCorrect
<1>2. PICK column : Echelon(g.M, column, g.rank, n)
  BY <1>1
<1> DEFINE rank == g.rank
           N == g.M
<1>3. N \in MatrixOf(m) /\ rank \in 0..n /\ Echelon(N, column, rank, n)
      /\ \A c \in 0 .. m - 1 : N[c][0] = M[c][0]
  BY <1>1, <1>2 DEF Equivalent
<1>4. Cleared(N, rank, n, Dimension)
  BY <1>1
<1> HIDE DEF rank, N
<1>5. \A x \in 0 .. rank - 1 : \E c \in Coordinates : N[x][c] # 0
  <2>1. \A x \in 0 .. rank - 1 : column[x] \in Coordinates /\ N[x][column[x]] > 0
    BY <1>3 DEF Echelon
  <2> QED BY <2>1
<1>6. ASSUME rank >= Dimension PROVE \E d \in 0 .. n - 1 : IsPositivity(N[d]) /\ N[d][Dimension] > 0
  <2> DEFINE d == Dimension - 1
  <2>1. d \in 0 .. rank - 1 /\ d \in 0 .. n - 1 /\ rank \in Nat /\ d \in 0..Dimension
    BY <1>3, <1>6, DimensionAssumption
  <2>2. column[d] \in Coordinates /\ column[d] >= d + 1
    BY <1>3, <2>1, PivotColumns
  <2>3. column[d] = Dimension
    BY <2>2, DimensionAssumption DEF Coordinates
  <2>4. N[d][Dimension] > 0 /\ \A c \in 1 .. Dimension - 1 : N[d][c] = 0
    BY <1>3, <2>1, <2>3 DEF Echelon
  <2>5. N[d] \in IntRow
    <3>1. d \in 0 .. m - 1
      BY <1>3, <2>1
    <3> HIDE DEF d
    <3> QED BY <1>3, <3>1 DEF MatrixOf
  <2>6. IsPositivity(N[d])
    BY <2>1, <2>4, <2>5, FirstNonZeroIs DEF IsPositivity
  <2> QED BY <2>1, <2>4, <2>6
<1>7. Reduced(N, rank, n)
  BY <1>4, <1>5 DEF Reduced
<1> QED BY <1>3, <1>6, <1>7 DEF N, rank

\* Step 3: the rank is less than Dimension, and the rows mean the same.
LEMMA ReduceEqualitiesMeans ==
  ASSUME InStep3, ReduceEqualities, NEW q, Leveled(q)
  PROVE  pc' = "step4" /\ InStep4' /\ Leveled(q)' /\ Reduced(Mat, NbEq2, NbEq)'
<1> DEFINE m == NbConstraints
           g == Gauss4(Mat, NbEq, m)
           B == Family(g.M, m, FALSE)
<1>1. ReduceTyped /\ m \in Nat /\ Mat \in MatrixOf(m) /\ NbEq \in 0..m
  BY DEF InStep3, ReduceTyped
<1>2. /\ g.M \in MatrixOf(m) /\ g.rank \in 0..NbEq
      /\ \A c \in 0 .. m - 1 : g.M[c][0] = Mat[c][0]
      /\ Reduced(g.M, g.rank, NbEq)
      /\ g.rank >= Dimension => \E d \in 0 .. NbEq - 1 : IsPositivity(g.M[d]) /\ g.M[d][Dimension] > 0
  BY <1>1, GaussReduced
<1>3. SignsKept(Wide, B, 0 .. NbEq - 1)
  <2>1. SignsKept(Family(Mat, m, FALSE), Family(g.M, m, FALSE), 0 .. NbEq - 1)
    BY <1>1, GaussKeeps
  <2> QED BY <2>1 DEF Wide
<1>4. Alive(Wide, Ray, q) /\ Exact(Wide, Ray) /\ Flat(Wide, Ray) = 0 .. NbEq - 1
  BY DEF Leveled, Counted, Alive, Means
<1>5. /\ DOMAIN Wide = 0 .. m - 1 \cup {-1} /\ \A c \in 0 .. m - 1 : Wide[c] = Mat[c]
      /\ DOMAIN Ray = AllRays
  BY <1>1, WideFacts DEF AllRays
<1>6. /\ -1 \in DOMAIN B /\ B[-1] = PositivityRow /\ DOMAIN B = 0 .. m - 1 \cup {-1}
      /\ \A c \in 0 .. m - 1 : B[c] = g.M[c]
  BY <1>1, <1>2, WideIs
<1> HIDE DEF B
<1>7. /\ Replaces(B, Wide, Ray) /\ Flat(B, Ray) = Flat(Wide, Ray)
      /\ \A c \in DOMAIN Wide : Touched(B[c], Ray) = Touched(Wide[c], Ray)
      /\ \A r \in DOMAIN Ray : Zeros(Ray[r], B) = Zeros(Ray[r], Wide)
  BY <1>3, <1>4, SignsReplace
<1>8. Alive(B, Ray, q)
  BY <1>4, <1>6, <1>7, MeansRows DEF Alive
<1>9. ~(g.rank >= Dimension)
  <2> SUFFICES ASSUME g.rank >= Dimension PROVE FALSE
    OBVIOUS
  <2>1. PICK d \in 0 .. NbEq - 1 : IsPositivity(g.M[d]) /\ g.M[d][Dimension] > 0
    BY <1>2
  <2>2. d \in DOMAIN B /\ B[d] = g.M[d] /\ d \in Flat(B, Ray)
    BY <1>1, <1>4, <1>6, <1>7
  <2>3. B[d][Dimension] = 0
    BY <1>8, <2>1, <2>2, PositivityFollows
  <2> QED BY <2>1, <2>2, <2>3
<1>10. /\ pc' = "step4" /\ Mat' = g.M /\ NbEq2' = g.rank
       /\ UNCHANGED <<Ray, NbRay, NbEq>>
  BY <1>9 DEF ReduceEqualities
<1>11. InStep4' /\ m' = m
  <2>1. ~GotoEmpty
    BY <1>10 DEF GotoEmpty
  <2> QED BY <2>1, ReduceEqualitiesStep
<1> HIDE DEF g
<1>12. Wide' = B
  BY <1>10, <1>11 DEF Wide, B
<1>13. RowCounts(NbConstraints)'
  <2>1. \A c \in 0 .. m - 1 : Mat[c][0] = Cardinality(Touched(Mat[c], Ray))
    BY DEF Leveled, Counted, RowCounts
  <2>2. \A c \in 0 .. m - 1 : Mat'[c][0] = Cardinality(Touched(Mat'[c], Ray'))
    BY <1>2, <1>5, <1>6, <1>7, <1>10, <2>1
  <2> QED BY <1>11, <2>2 DEF RowCounts
<1>14. RayCounts'
  <2>1. \A r \in AllRays : Ray[r][0] = Cardinality(Zeros(Ray[r], Wide))
    BY DEF Leveled, Counted, RayCounts
  <2> QED BY <1>5, <1>7, <1>10, <1>12, <2>1 DEF RayCounts, AllRays
<1>15. Alive(Wide', Ray', q)
  BY <1>8, <1>10, <1>12
<1>16. Flat(Wide', Ray') = 0 .. NbEq' - 1
  BY <1>4, <1>7, <1>10, <1>12
<1>17. Reduced(Mat', NbEq2', NbEq')
  BY <1>2, <1>10
<1> QED BY <1>10, <1>11, <1>13, <1>14, <1>15, <1>16, <1>17 DEF Leveled, Counted

\* Step 4: lines are moved up like the equalities, ...
LEMMA RaiseLineMeans ==
  ASSUME pc = "step4", InStep4, RaiseLine, NEW q, Leveled(q), Reduced(Mat, NbEq2, NbEq)
  PROVE  pc' = "step4" /\ InStep4' /\ Leveled(q)' /\ Reduced(Mat, NbEq2, NbEq)'
<1> DEFINE n == NbRay
<1>1. pc' = "step4" /\ InStep4' /\ RaysSwapped
  BY RaiseLineStep
<1>2. UNCHANGED <<Mat, NbRay, NbEq, NbEq2>>
  BY DEF RaiseLine, reduceVars, counts
<1>3. ReduceTyped /\ ReduceTyped' /\ n \in Nat
  BY <1>1 DEF InStep4, InStep3, ReduceTyped
<1>4. Counted(q) /\ Flat(Wide, Ray) = 0 .. NbEq - 1
  BY DEF Leveled
<1>5. Counted(q)' /\ Flat(Wide', Ray') = Flat(Wide, Ray)
  <2>1. CASE Ray' = Ray
    <3>1. Wide' = Wide /\ NbConstraints' = NbConstraints
      BY <1>2 DEF Wide, NbConstraints
    <3> QED BY <1>2, <1>4, <2>1, <3>1 DEF Counted, RowCounts, RayCounts, AllRays
  <2>2. CASE \E a \in 0 .. n - 1, b \in 0 .. n - 1 : \A x \in 0 .. n - 1 : Ray'[x] = Ray[Swapped(x, a, b)]
    <3>1. PICK a \in 0 .. n - 1, b \in 0 .. n - 1 : \A x \in 0 .. n - 1 : Ray'[x] = Ray[Swapped(x, a, b)]
      BY <2>2
    <3> DEFINE f == [x \in 0 .. n - 1 |-> Swapped(x, a, b)]
    <3>2. \A x \in 0 .. n - 1 : Ray'[x] = Ray[f[x]]
      BY <3>1
    <3>3. Permutes(f, f, n)
      BY <1>3, SwapPermutes
    <3> HIDE DEF f
    <3> QED BY <1>2, <1>3, <1>4, <3>2, <3>3, RaysMoved
  <2> QED BY <1>1, <2>1, <2>2 DEF RaysSwapped
<1> QED BY <1>1, <1>2, <1>4, <1>5 DEF Leveled, Reduced

\* Either way round the rows that a vector saturates.
LEMMA TouchedZeros ==
  ASSUME NEW A, IsFamily(A), NEW p \in IntRow
  PROVE  Touched(p, A) = Zeros(p, A)
<1>1. \A c \in DOMAIN A : InnerProduct(A[c], p) = InnerProduct(p, A[c])
  BY InnerProductSymmetric DEF IsFamily
<1> QED BY <1>1 DEF Touched, Zeros

\* What steps 6 to 10 start from.
Ready(q) ==
  /\ Leveled(q) /\ Flat(Ray, Wide) = 0 .. NbBid - 1
  /\ Reduced(Mat, NbEq2, NbEq) /\ Reduced(Ray, NbBid2, NbBid)
  /\ Dim_RaySpace = Dimension - 1 - NbEq2 - NbBid2

\* ... and step 5 reduces them.
LEMMA ReduceLinesMeans ==
  ASSUME InStep4, ReduceLines, NEW q, Leveled(q), Reduced(Mat, NbEq2, NbEq)
  PROVE  pc' = "step6" /\ Separated' /\ Ready(q)'
<1> DEFINE m == NbConstraints
           n == NbRay
           g == Gauss4(Ray, NbBid, n)
           N == g.M
<1>1. ReduceTyped /\ LinesKnown /\ n \in Nat /\ Ray \in MatrixOf(n) /\ ~(i < NbBid /\ k > i)
  BY DEF InStep4, InStep3, ReduceTyped, ReduceLines
<1>2. Lines \subseteq 0 .. n - 1 /\ NbBid = Cardinality(Lines) /\ NbBid \in 0..n
  BY <1>1, NbBidIs
<1>3. Counted(q) /\ Flat(Wide, Ray) = 0 .. NbEq - 1 /\ Exact(Wide, Ray)
      /\ -1 \in DOMAIN Wide /\ Wide[-1] = PositivityRow
  BY DEF Leveled, Counted, Alive, Means
<1>4. Flat(Ray, Wide) = 0 .. NbBid - 1
  <2>1. /\ \A r \in 0 .. n - 1 : SaturatesAll(Ray[r]) <=> r \in Flat(Ray, Wide)
        /\ Flat(Ray, Wide) \subseteq 0 .. n - 1
    BY <1>1, <1>3, FlatCounts
  <2>2. Flat(Ray, Wide) = Lines
    BY <2>1 DEF Lines, AllRays
  <2>3. 0 .. NbBid - 1 \subseteq Lines
    BY <1>1, LinesFirst
  <2>4. Lines = 0 .. NbBid - 1
    BY <1>1, <1>2, <2>3, FirstOnes
  <2> QED BY <2>2, <2>4
<1>5. /\ N \in MatrixOf(n) /\ g.rank \in 0..NbBid
      /\ \A c \in 0 .. n - 1 : N[c][0] = Ray[c][0]
      /\ Reduced(N, g.rank, NbBid)
      /\ g.rank >= Dimension => \E d \in 0 .. NbBid - 1 : IsPositivity(N[d]) /\ N[d][Dimension] > 0
  BY <1>1, <1>2, GaussReduced
<1>6. SignsKept(Ray, N, 0 .. NbBid - 1)
  BY <1>1, <1>2, GaussKeeps
<1>7. Exact(Ray, Wide) /\ IsFamily(Wide)
  BY <1>3, ExactSwapped DEF Exact, Tight
<1>8. IsFamily(N) /\ DOMAIN N = 0 .. n - 1 /\ IsFamily(Ray) /\ DOMAIN Ray = 0 .. n - 1
  BY <1>1, <1>5, RowsAre
<1> HIDE DEF N
<1>9. /\ Replaces(N, Ray, Wide)
      /\ Flat(N, Wide) = Flat(Ray, Wide) /\ Flat(Wide, N) = Flat(Wide, Ray)
      /\ \A r \in DOMAIN Ray : Touched(N[r], Wide) = Touched(Ray[r], Wide)
      /\ \A c \in DOMAIN Wide : Zeros(Wide[c], N) = Zeros(Wide[c], Ray)
  BY <1>4, <1>6, <1>7, SignsReplace
<1>10. /\ \A r \in 0 .. n - 1 : Zeros(N[r], Wide) = Zeros(Ray[r], Wide)
       /\ \A c \in DOMAIN Wide : Touched(Wide[c], N) = Touched(Wide[c], Ray)
  <2>1. ASSUME NEW r \in 0 .. n - 1 PROVE Zeros(N[r], Wide) = Zeros(Ray[r], Wide)
    <3>1. N[r] \in IntRow /\ Ray[r] \in IntRow
      BY <1>8 DEF IsFamily
    <3> QED BY <1>7, <1>8, <1>9, <3>1, TouchedZeros
  <2>2. ASSUME NEW c \in DOMAIN Wide PROVE Touched(Wide[c], N) = Touched(Wide[c], Ray)
    <3>1. Wide[c] \in IntRow
      BY <1>7 DEF IsFamily
    <3> QED BY <1>8, <1>9, <3>1, TouchedZeros
  <2> QED BY <2>1, <2>2
<1>11. ~(g.rank >= Dimension)
  <2> SUFFICES ASSUME g.rank >= Dimension PROVE FALSE
    OBVIOUS
  <2>1. PICK d \in 0 .. NbBid - 1 : N[d][Dimension] > 0
    BY <1>5
  <2>2. d \in Flat(N, Wide) /\ d \in DOMAIN N
    BY <1>1, <1>2, <1>4, <1>8, <1>9
  <2>3. InnerProduct(Wide[-1], N[d]) = 0
    BY <1>3, <2>2 DEF Flat
  <2>4. N[d] \in IntRow
    BY <1>8, <2>2 DEF IsFamily
  <2>5. InnerProduct(N[d], PositivityRow) = N[d][Dimension] /\ PositivityRow \in IntRow
    BY <2>4, PositivityProduct
  <2>6. InnerProduct(PositivityRow, N[d]) = InnerProduct(N[d], PositivityRow)
    BY <2>4, <2>5, InnerProductSymmetric
  <2> QED BY <1>3, <2>1, <2>3, <2>5, <2>6
<1>12. /\ pc' = "step6" /\ Ray' = N /\ NbBid2' = g.rank /\ Dim_RaySpace' = Dimension - 1 - NbEq2 - g.rank
       /\ UNCHANGED <<Mat, NbRay, NbBid, NbEq, NbEq2>>
  BY <1>11 DEF ReduceLines, N
<1> HIDE DEF g
<1>13. Separated'
  <2>1. ~GotoEmpty
    BY <1>12 DEF GotoEmpty
  <2> QED BY <2>1, ReduceLinesStep
<1>14. Wide' = Wide /\ m' = m /\ n' = n
  BY <1>12 DEF Wide, NbConstraints
<1>15. Means(Wide, N, q)
  BY <1>3, <1>9, MeansRays DEF Counted, Alive
<1>16. Alive(Wide', Ray', q)
  BY <1>3, <1>9, <1>12, <1>14, <1>15 DEF Counted, Alive
<1>17. RowCounts(NbConstraints)'
  <2>1. \A c \in 0 .. m - 1 : Mat[c][0] = Cardinality(Touched(Mat[c], Ray))
    BY <1>3 DEF Counted, RowCounts
  <2>2. \A c \in 0 .. m - 1 : Mat[c] = Wide[c] /\ c \in DOMAIN Wide
    BY <1>1, WideFacts
  <2>3. \A c \in 0 .. m - 1 : Mat'[c][0] = Cardinality(Touched(Mat'[c], Ray'))
    BY <1>10, <1>12, <2>1, <2>2
  <2> QED BY <1>14, <2>3 DEF RowCounts
<1>18. RayCounts'
  <2>1. \A r \in 0 .. n - 1 : Ray[r][0] = Cardinality(Zeros(Ray[r], Wide))
    BY <1>3 DEF Counted, RayCounts, AllRays
  <2> QED BY <1>5, <1>10, <1>12, <1>14, <2>1 DEF RayCounts, AllRays
<1>19. Flat(Wide', Ray') = 0 .. NbEq' - 1 /\ Flat(Ray', Wide') = 0 .. NbBid' - 1
  BY <1>3, <1>4, <1>9, <1>12, <1>14
<1>20. Reduced(Mat', NbEq2', NbEq') /\ Reduced(Ray', NbBid2', NbBid')
  BY <1>5, <1>12
<1>21. Dim_RaySpace' = Dimension - 1 - NbEq2' - NbBid2'
  BY <1>12
<1> QED BY <1>12, <1>13, <1>16, <1>17, <1>18, <1>19, <1>20, <1>21 DEF Ready, Leveled, Counted

-----------------------------------------------------------------------------
(* Steps 6 and 7: what saturates too little is redundant.                  *)

\* A vector orthogonal to the first rows that are flat is to all of them.
Ranked(A, R, rank) ==
  /\ 0 .. rank - 1 \subseteq Flat(A, R)
  /\ \A e \in Flat(A, R) \ (0 .. rank - 1) : \A x \in IntRow : InnerProduct(x, A[e]) = 0

\* Reduced rows that come first have the rank of all the rows flat.
LEMMA ReducedRanked ==
  ASSUME NEW A, IsFamily(A), NEW R, NEW n \in Nat, NEW rank \in 0..n, Flat(A, R) = 0 .. n - 1,
         NEW M, \A e \in 0 .. n - 1 : A[e] = M[e], Reduced(M, rank, n)
  PROVE  Ranked(A, R, rank)
<1>1. 0 .. rank - 1 \subseteq Flat(A, R)
  OBVIOUS
<1>2. ASSUME NEW e \in Flat(A, R) \ (0 .. rank - 1), NEW x \in IntRow PROVE InnerProduct(x, A[e]) = 0
  <2>1. e \in rank .. n - 1 /\ A[e] = M[e]
    BY <1>2
  <2>2. A[e] \in IntRow
    BY <1>2 DEF IsFamily, Flat
  <2>3. \A c \in 1..Dimension : A[e][c] = 0
    BY <2>1 DEF Reduced, Cleared
  <2>4. Dimension - 1 \in 0..Dimension /\ Dimension \in 1..Dimension /\ \A c \in 1 .. Dimension - 1 : c \in 1..Dimension
    BY DimensionAssumption
  <2>5. IsPositivity(A[e]) /\ A[e][Dimension] = 0
    BY <2>2, <2>3, <2>4, FirstNonZeroIs DEF IsPositivity
  <2>6. InnerProduct(x, A[e]) = A[e][Dimension] * x[Dimension] /\ x[Dimension] \in Int
    BY <2>2, <2>5, PositivityMultiple, LastInt
  <2> QED BY <2>5, <2>6
<1> QED BY <1>1, <1>2 DEF Ranked

\* As many rays as the space between the equalities and everything needs.
LEMMA EnoughRays ==
  ASSUME NEW A, NEW R, Exact(A, R), NEW rank \in Nat, Ranked(A, R, rank)
  PROVE  Cardinality(DOMAIN R) + rank >= Dimension
<1> DEFINE E == 0 .. rank - 1
           S == {R[r] : r \in DOMAIN R}
           T == {A[e] : e \in E}
<1>1. IsFamily(A) /\ IsFamily(R) /\ E \subseteq DOMAIN A
  BY DEF Ranked, Flat, Exact, Tight
<1>2. IsFiniteSet(S) /\ Cardinality(S) <= Cardinality(DOMAIN R) /\ S \subseteq IntRow
  BY <1>1, ImageSize DEF IsFamily
<1>3. IsFiniteSet(T) /\ Cardinality(T) <= rank /\ T \subseteq IntRow
  <2> DEFINE f == [e \in E |-> A[e]]
  <2>1. IsFiniteSet(E) /\ Cardinality(E) = rank
    BY PartOfRange, CountTo
  <2>2. T = {f[e] : e \in E} /\ DOMAIN f = E
    OBVIOUS
  <2>3. T \subseteq IntRow
    BY <1>1 DEF IsFamily
  <2> HIDE DEF f, E, T
  <2>4. IsFiniteSet({f[e] : e \in E}) /\ Cardinality({f[e] : e \in E}) <= Cardinality(E)
    BY <2>1, <2>2, ImageSize
  <2> QED BY <2>1, <2>2, <2>3, <2>4
<1> SUFFICES ASSUME Cardinality(DOMAIN R) + rank < Dimension PROVE FALSE
  <2>1. Cardinality(DOMAIN R) \in Nat
    BY <1>1, FS_CardinalityType DEF IsFamily
  <2> QED BY <2>1, DimensionAssumption
<1> HIDE DEF S, T
<1>4. IsFiniteSet(S \cup T) /\ Cardinality(S \cup T) < Dimension
  <2>1. IsFiniteSet(S \cup T) /\ Cardinality(S \cup T) <= Cardinality(S) + Cardinality(T)
    BY <1>2, <1>3, UnionSize
  <2>2. /\ Cardinality(S \cup T) \in Nat /\ Cardinality(S) \in Nat /\ Cardinality(T) \in Nat
        /\ Cardinality(DOMAIN R) \in Nat
    BY <1>1, <1>2, <1>3, <2>1, FS_CardinalityType DEF IsFamily
  <2> QED BY <1>2, <1>3, <2>1, <2>2, DimensionAssumption
<1>5. PICK v \in IntRow : /\ \E c \in Coordinates : v[c] # 0
                          /\ \A f \in S \cup T : InnerProduct(f, v) = 0
  BY <1>2, <1>3, <1>4, NullVector
<1>6. \A r \in DOMAIN R : InnerProduct(v, R[r]) = 0
  <2>1. ASSUME NEW r \in DOMAIN R PROVE InnerProduct(v, R[r]) = 0
    <3>1. R[r] \in S /\ R[r] \in IntRow
      BY <1>1 DEF S, IsFamily
    <3> QED BY <1>5, <3>1, InnerProductSymmetric
  <2> QED BY <2>1
<1>7. \A e \in Flat(A, R) : InnerProduct(v, A[e]) = 0
  <2>1. ASSUME NEW e \in E PROVE InnerProduct(v, A[e]) = 0
    <3>1. A[e] \in T /\ A[e] \in IntRow
      BY <1>1 DEF T, IsFamily
    <3> QED BY <1>5, <3>1, InnerProductSymmetric
  <2> QED BY <2>1 DEF Ranked
<1>8. InnerProduct(v, v) = 0
  BY <1>6, <1>7, EqualitiesSpan DEF Exact
<1> QED BY <1>5, <1>8, SelfProduct

\* A row saturated by too few is covered by one saturated by more.
LEMMA TooFewCovered ==
  ASSUME NEW A, NEW R, Exact(A, R), NEW rank \in Nat, Ranked(A, R, rank),
         NEW c \in DOMAIN A \ Flat(A, R), Cardinality(Touched(A[c], R)) + rank + 1 < Dimension
  PROVE  \E d \in DOMAIN A \ Flat(A, R) : /\ Touched(A[c], R) \subseteq Touched(A[d], R)
                                          /\ Touched(A[c], R) # Touched(A[d], R)
<1> DEFINE E == 0 .. rank - 1
           P == Touched(A[c], R)
           S == {R[r] : r \in P}
           T == {A[e] : e \in E}
<1>1. IsFamily(A) /\ IsFamily(R) /\ E \subseteq DOMAIN A /\ P \subseteq DOMAIN R
  BY DEF Ranked, Flat, Exact, Tight, Touched
<1>2. IsFiniteSet(P) /\ Cardinality(P) \in Nat
  BY <1>1, FS_Subset, FS_CardinalityType DEF IsFamily
<1>3. IsFiniteSet(S) /\ Cardinality(S) <= Cardinality(P) /\ S \subseteq IntRow
  <2> DEFINE f == [r \in P |-> R[r]]
  <2>1. S = {f[r] : r \in P} /\ DOMAIN f = P
    OBVIOUS
  <2>2. S \subseteq IntRow
    BY <1>1 DEF IsFamily
  <2> HIDE DEF f, P, S
  <2>3. IsFiniteSet({f[r] : r \in P}) /\ Cardinality({f[r] : r \in P}) <= Cardinality(P)
    BY <1>2, <2>1, ImageSize
  <2> QED BY <2>1, <2>2, <2>3
<1>4. IsFiniteSet(T) /\ Cardinality(T) <= rank /\ T \subseteq IntRow
  <2> DEFINE f == [e \in E |-> A[e]]
  <2>1. IsFiniteSet(E) /\ Cardinality(E) = rank
    BY PartOfRange, CountTo
  <2>2. T = {f[e] : e \in E} /\ DOMAIN f = E
    OBVIOUS
  <2>3. T \subseteq IntRow
    BY <1>1 DEF IsFamily
  <2> HIDE DEF f, E, T
  <2>4. IsFiniteSet({f[e] : e \in E}) /\ Cardinality({f[e] : e \in E}) <= Cardinality(E)
    BY <2>1, <2>2, ImageSize
  <2> QED BY <2>1, <2>2, <2>3, <2>4
<1>5. Cardinality(P) + rank + 1 < Dimension
  OBVIOUS
<1> HIDE DEF S, T, P
<1> DEFINE F == S \cup T
<1>6. IsFiniteSet(F) /\ Cardinality(F) + 1 < Dimension /\ F \subseteq IntRow
  <2>1. IsFiniteSet(F) /\ Cardinality(F) <= Cardinality(S) + Cardinality(T)
    BY <1>3, <1>4, UnionSize
  <2>2. Cardinality(F) \in Nat /\ Cardinality(S) \in Nat /\ Cardinality(T) \in Nat
    BY <1>3, <1>4, <2>1, FS_CardinalityType
  <2>3. F \subseteq IntRow
    BY <1>3, <1>4
  <2> HIDE DEF F
  <2> QED BY <1>2, <1>3, <1>4, <1>5, <2>1, <2>2, <2>3, DimensionAssumption
<1>7. ASSUME NEW v \in IntRow, \A f \in F : InnerProduct(f, v) = 0
      PROVE  /\ \A e \in Flat(A, R) : InnerProduct(v, A[e]) = 0
             /\ \A r \in Touched(A[c], R) : InnerProduct(v, R[r]) = 0
  <2>1. ASSUME NEW e \in E PROVE InnerProduct(v, A[e]) = 0
    <3>1. A[e] \in F /\ A[e] \in IntRow
      BY <1>1 DEF T, IsFamily
    <3> QED BY <1>7, <3>1, InnerProductSymmetric
  <2>2. ASSUME NEW r \in P PROVE InnerProduct(v, R[r]) = 0
    <3>1. R[r] \in F /\ R[r] \in IntRow
      BY <1>1 DEF S, IsFamily
    <3> QED BY <1>7, <3>1, InnerProductSymmetric
  <2> QED BY <2>1, <2>2 DEF Ranked, P
<1> HIDE DEF F
<1> QED BY <1>6, <1>7, FewTouched DEF Exact

\* So each row is covered by one with enough.
LEMMA EnoughCover ==
  ASSUME NEW A, NEW R, Exact(A, R), NEW rank \in Nat, Ranked(A, R, rank),
         NEW G, G \subseteq DOMAIN A \ Flat(A, R),
         \A c \in G : Cardinality(Touched(A[c], R)) + rank + 1 < Dimension,
         NEW c \in DOMAIN A \ Flat(A, R)
  PROVE  \E d \in (DOMAIN A \ Flat(A, R)) \ G : Touched(A[c], R) \subseteq Touched(A[d], R)
<1>1. \A e \in G : \E d \in DOMAIN A \ Flat(A, R) : /\ Touched(A[e], R) \subseteq Touched(A[d], R)
                                                    /\ Touched(A[e], R) # Touched(A[d], R)
  BY TooFewCovered
<1> DEFINE E == Flat(A, R)
<1>2. Tight(A, E, R, Flat(R, A)) /\ G \subseteq DOMAIN A \ E /\ c \in DOMAIN A \ E
  BY DEF Exact
<1>3. \A e \in G : \E d \in DOMAIN A \ E : /\ Touched(A[e], R) \subseteq Touched(A[d], R)
                                          /\ Touched(A[e], R) # Touched(A[d], R)
  BY <1>1
<1> HIDE DEF E
<1>4. \E d \in (DOMAIN A \ E) \ G : Touched(A[c], R) \subseteq Touched(A[d], R)
  BY <1>2, <1>3, CoveredOutside
<1> QED BY <1>4 DEF E

\* The same rows are reduced.
LEMMA ReducedSame ==
  ASSUME NEW m \in Nat, NEW M, NEW N, Same(M, N, m), NEW n \in 0..m, NEW rank \in 0..n, Reduced(M, rank, n)
  PROVE  Reduced(N, rank, n)
<1>1. \A x \in 0 .. m - 1 : \A c \in Coordinates : N[x][c] = M[x][c]
  BY DEF Same, SameCoordinates
<1>2. (\A x \in 0 .. rank - 1 : x \in 0 .. m - 1) /\ (\A x \in rank .. n - 1 : x \in 0 .. m - 1)
  OBVIOUS
<1>3. \A c \in 1..Dimension : c \in Coordinates
  BY DEF Coordinates
<1> QED BY <1>1, <1>2, <1>3 DEF Reduced, Cleared

\* What the first steps have made of the two matrices.
Shaped(q) ==
  /\ Alive(Wide, Ray, q)
  /\ Flat(Wide, Ray) = 0 .. NbEq - 1 /\ Flat(Ray, Wide) = 0 .. NbBid - 1
  /\ Reduced(Mat, NbEq2, NbEq) /\ Reduced(Ray, NbBid2, NbBid)
  /\ Dim_RaySpace = Dimension - 1 - NbEq2 - NbBid2

\* What the counts of steps 6 and 7 rely on.
LEMMA ShapedRanks ==
  ASSUME Separated, NEW q, Shaped(q)
  PROVE  /\ Exact(Wide, Ray) /\ Exact(Ray, Wide)
         /\ NbEq2 \in Nat /\ Ranked(Wide, Ray, NbEq2) /\ NbRay + NbEq2 >= Dimension
         /\ NbBid2 \in Nat /\ Ranked(Ray, Wide, NbBid2) /\ NbConstraints + 1 + NbBid2 >= Dimension
         /\ Dim_RaySpace \in Int /\ NbRay > 0
         /\ NbRay >= Dim_RaySpace /\ NbConstraints + 1 >= Dim_RaySpace
<1> DEFINE m == NbConstraints
           n == NbRay
<1>1. /\ ReduceTyped /\ NbEq \in 0..m /\ NbEq2 \in 0..NbEq /\ NbBid \in 0..n /\ NbBid2 \in 0..NbBid
      /\ m \in Nat /\ n \in Nat
  BY DEF Separated, ReduceTyped
<1>2. /\ IsFamily(Wide) /\ DOMAIN Wide = 0 .. m - 1 \cup {-1} /\ -1 \notin 0 .. m - 1
      /\ \A c \in 0 .. m - 1 : Wide[c] = Mat[c]
      /\ IsFamily(Ray) /\ DOMAIN Ray = 0 .. n - 1
  BY <1>1, WideFacts
<1>3. Exact(Wide, Ray)
  BY DEF Shaped, Alive, Means
<1>4. Exact(Ray, Wide)
  BY <1>3, ExactSwapped
<1>5. NbEq2 \in Nat /\ NbBid2 \in Nat /\ NbEq \in Nat /\ NbBid \in Nat
  BY <1>1
<1>6. Ranked(Wide, Ray, NbEq2)
  <2>1. \A e \in 0 .. NbEq - 1 : Wide[e] = Mat[e]
    BY <1>1, <1>2
  <2> QED BY <1>1, <1>2, <1>5, <2>1, ReducedRanked DEF Shaped
<1>7. Ranked(Ray, Wide, NbBid2)
  BY <1>1, <1>2, <1>5, ReducedRanked DEF Shaped
<1>8. NbRay + NbEq2 >= Dimension
  <2>1. Cardinality(DOMAIN Ray) = n
    BY <1>1, <1>2, CountTo
  <2> QED BY <1>3, <1>5, <1>6, <2>1, EnoughRays
<1>9. m + 1 + NbBid2 >= Dimension
  <2> DEFINE N == 0 .. m - 1
  <2>1. IsFiniteSet(N) /\ Cardinality(N) = m /\ -1 \notin N
    BY <1>1, <1>2, PartOfRange, CountTo
  <2>2. DOMAIN Wide = N \cup {-1}
    BY <1>2
  <2> HIDE DEF N
  <2>3. Cardinality(DOMAIN Wide) = m + 1
    BY <2>1, <2>2, FS_AddElement
  <2>4. Cardinality(DOMAIN Wide) + NbBid2 >= Dimension
    BY <1>4, <1>5, <1>7, EnoughRays
  <2> QED BY <2>3, <2>4
<1>10. NbRay > 0
  <2>1. \E r \in DOMAIN Ray : Ray[r][Dimension] > 0
    BY AliveVertex DEF Shaped
  <2> QED BY <1>1, <1>2, <2>1
<1>11. Dim_RaySpace = Dimension - 1 - NbEq2 - NbBid2
  BY DEF Shaped
<1> QED BY <1>1, <1>3, <1>4, <1>5, <1>6, <1>7, <1>8, <1>9, <1>10, <1>11, DimensionAssumption

\* After step 6: the equalities have status 0, and an inequality that is
\* redundant has one that is not, or the positivity constraint, above it.
RowsSorted ==
  /\ \A c \in 0 .. NbEq2 - 1 : Mat[c][0] = 0
  /\ \A c \in NbEq .. NbConstraints - 1 :
       \E d \in Irredundants \cup {-1} : Touched(Wide[c], Ray) \subseteq Touched(Wide[d], Ray)

\* No equality is the positivity constraint, as a vertex would not satisfy it.
LEMMA NoPositivity ==
  ASSUME NEW A, NEW R, NEW q, Alive(A, R, q), NEW c \in Flat(A, R), \E e \in Coordinates : A[c][e] # 0
  PROVE  ~IsPositivity(A[c])
<1> SUFFICES ASSUME IsPositivity(A[c]) PROVE FALSE
  OBVIOUS
<1>1. c \in DOMAIN A
  BY DEF Flat
<1>2. A[c] \in IntRow /\ A[c][Dimension] = 0
  BY <1>1, PositivityFollows
<1>3. Dimension - 1 \in 0..Dimension
  BY DimensionAssumption
<1>4. \A e \in 1 .. Dimension - 1 : A[c][e] = 0
  BY <1>2, <1>3, FirstNonZeroIs DEF IsPositivity
<1>5. \A e \in Coordinates : e = Dimension \/ e \in 1 .. Dimension - 1
  BY DimensionAssumption DEF Coordinates
<1> QED BY <1>2, <1>4, <1>5

\* What a positivity constraint step 3 has created is saturated by.
LEMMA PositivityTouched ==
  ASSUME NEW A, NEW R, NEW q, Alive(A, R, q), NEW c \in DOMAIN A, IsPositivity(A[c]), c \notin Flat(A, R)
  PROVE  Touched(A[c], R) = Touched(A[-1], R)
<1>1. /\ A[c][Dimension] \in Nat /\ A[c][Dimension] # 0
      /\ \A x \in IntRow : InnerProduct(x, A[c]) = A[c][Dimension] * x[Dimension]
  BY PositivityFollows
<1>2. A[-1] = PositivityRow /\ IsFamily(R)
  BY AliveVertex DEF Alive, Means
<1>3. ASSUME NEW r \in DOMAIN R PROVE InnerProduct(R[r], A[c]) = 0 <=> InnerProduct(R[r], A[-1]) = 0
  <2>1. R[r] \in IntRow
    BY <1>2 DEF IsFamily
  <2>2. InnerProduct(R[r], A[-1]) = R[r][Dimension] /\ R[r][Dimension] \in Int
    BY <1>2, <2>1, PositivityProduct, LastInt
  <2> DEFINE y == A[c][Dimension]
             z == R[r][Dimension]
  <2>3. y \in Nat \ {0} /\ z \in Int /\ InnerProduct(R[r], A[c]) = y * z /\ InnerProduct(R[r], A[-1]) = z
    BY <1>1, <2>1, <2>2
  <2> HIDE DEF y, z
  <2>4. y * z = 0 <=> z = 0
    BY <2>3
  <2> QED BY <2>3, <2>4
<1> QED BY <1>3 DEF Touched

\* Step 6 gives the rows their status: equalities 0, those that count too little
\* 2, the others 1.
LEMMA ClassifyConstraintsMeans ==
  ASSUME Separated, ClassifyConstraints, NEW q, Ready(q)
  PROVE  pc' = "step7" /\ Separated' /\ (Shaped(q) /\ RayCounts /\ RowsSorted)'
<1> DEFINE m == NbConstraints
           n == NbRay
           D == Dim_RaySpace
<1>1. /\ ReduceTyped /\ NbEq \in 0..m /\ NbEq2 \in 0..NbEq /\ NbBid \in 0..n /\ NbBid2 \in 0..NbBid
      /\ m \in Nat /\ n \in Nat /\ ConstraintRows = 0 .. m - 1 /\ Mat \in MatrixOf(m) /\ Ray \in MatrixOf(n)
  BY DEF Separated, ReduceTyped, ConstraintRows
<1>2. Counted(q) /\ Shaped(q) /\ Alive(Wide, Ray, q) /\ Flat(Wide, Ray) = 0 .. NbEq - 1
  BY DEF Ready, Leveled, Counted, Shaped
<1>3. /\ IsFamily(Wide) /\ DOMAIN Wide = 0 .. m - 1 \cup {-1} /\ Wide[-1] = PositivityRow /\ -1 \notin 0 .. m - 1
      /\ \A c \in 0 .. m - 1 : Wide[c] = Mat[c] /\ Mat[c] \in IntRow
      /\ IsFamily(Ray) /\ DOMAIN Ray = 0 .. n - 1
  BY <1>1, WideFacts
<1>4. \A c \in 0 .. m - 1 : IsEquality(Mat[c]) <=> c \in 0 .. NbEq - 1
  BY <1>1, <1>2, FlatCounts
<1>5. ~\E c \in ConstraintRows : IsPositivity(Mat[c]) /\ IsEquality(Mat[c]) /\ Mat[c][Dimension] # 0
  <2> SUFFICES ASSUME NEW c \in 0 .. m - 1, IsPositivity(Mat[c]), IsEquality(Mat[c]), Mat[c][Dimension] # 0
               PROVE  FALSE
    BY <1>1
  <2>1. c \in Flat(Wide, Ray) /\ c \in DOMAIN Wide /\ Wide[c] = Mat[c]
    BY <1>2, <1>3, <1>4
  <2> QED BY <1>2, <2>1, PositivityFollows
<1>6. /\ pc' = "step7" /\ Mat' = [c \in ConstraintRows |-> WithStatus(Mat[c], ConstraintStatus(Mat[c]))]
      /\ UNCHANGED <<Ray, NbRay, NbBid, NbBid2, NbEq, NbEq2, Dim_RaySpace>>
  BY <1>5 DEF ClassifyConstraints, reduceVars, counts
<1>7. Separated' /\ Same(Mat, Mat', m) /\ m' = m
  <2>1. ~GotoEmpty
    BY <1>6 DEF GotoEmpty
  <2> QED BY <2>1, ClassifyConstraintsStep
<1>8. Same(Ray, Ray', n)
  BY <1>1, <1>6, SameItself
<1>9. /\ Means(Wide', Ray', q)
      /\ Flat(Wide', Ray') = Flat(Wide, Ray) /\ Flat(Ray', Wide') = Flat(Ray, Wide)
      /\ \A c \in 0 .. m - 1 : Touched(Mat'[c], Ray') = Touched(Mat[c], Ray)
      /\ \A r \in 0 .. n - 1 : Zeros(Ray'[r], Wide') = Zeros(Ray[r], Wide)
  BY <1>1, <1>2, <1>7, <1>8, AliveSame DEF Alive
<1>10. /\ Wide'[-1] = PositivityRow /\ \A c \in 0 .. m - 1 : Wide'[c] = Mat'[c]
  <2>1. Wide' = Family(Mat', m, FALSE)
    BY <1>7 DEF Wide
  <2>2. Mat' \in MatrixOf(m)
    BY <1>7 DEF Same
  <2> QED BY <1>1, <2>1, <2>2, WideIs
<1>11. Shaped(q)'
  <2>1. Reduced(Mat', NbEq2, NbEq)
    BY <1>1, <1>2, <1>7, ReducedSame DEF Shaped
  <2>2. Alive(Wide', Ray', q)
    BY <1>2, <1>9 DEF Alive
  <2> QED BY <1>2, <1>6, <1>9, <2>1, <2>2 DEF Shaped
<1>12. RayCounts'
  <2>1. \A r \in 0 .. n - 1 : Ray[r][0] = Cardinality(Zeros(Ray[r], Wide))
    BY <1>2 DEF Counted, RayCounts, AllRays
  <2> QED BY <1>6, <1>9, <2>1 DEF RayCounts, AllRays
<1>13. /\ Exact(Wide, Ray) /\ NbEq2 \in Nat /\ Ranked(Wide, Ray, NbEq2) /\ D \in Int /\ n > 0 /\ n >= D
       /\ D = Dimension - 1 - NbEq2 - NbBid2 /\ NbBid2 \in Nat
  BY <1>2, ShapedRanks DEF Shaped
<1>14. \A c \in 0 .. m - 1 : Mat[c][0] = Cardinality(Touched(Mat[c], Ray)) /\ Mat[c][0] \in Nat
  <2>1. ASSUME NEW c \in 0 .. m - 1 PROVE Cardinality(Touched(Mat[c], Ray)) \in Nat
    <3>1. Touched(Mat[c], Ray) \subseteq DOMAIN Ray
      BY DEF Touched
    <3> QED BY <1>3, <3>1, FS_Subset, FS_CardinalityType DEF IsFamily
  <2>2. \A c \in 0 .. m - 1 : Mat[c][0] = Cardinality(Touched(Mat[c], Ray))
    BY <1>2 DEF Counted, RowCounts
  <2> QED BY <2>1, <2>2
<1>15. ASSUME NEW c \in 0 .. m - 1 PROVE Mat'[c][0] = ConstraintStatus(Mat[c])
  <2>1. ConstraintStatus(Mat[c]) \in Int
    <3>1. Mat[c][0] \in Int
      BY <1>14
    <3> QED BY DEF ConstraintStatus
  <2>2. Mat'[c] = WithStatus(Mat[c], ConstraintStatus(Mat[c]))
    BY <1>1, <1>6
  <2>3. Mat[c] \in IntRow
    BY <1>3
  <2> DEFINE s == ConstraintStatus(Mat[c])
  <2>4. s \in Int /\ Mat'[c] = WithStatus(Mat[c], s)
    BY <2>1, <2>2
  <2> HIDE DEF s
  <2>5. Mat'[c][0] = s
    BY <2>3, <2>4, StatusOnly
  <2> QED BY <2>5 DEF s
<1>16. ASSUME NEW c \in 0 .. NbEq2 - 1 PROVE Mat'[c][0] = 0
  <2>1. c \in 0 .. m - 1 /\ c \in 0 .. NbEq - 1
    BY <1>1
  <2>2. IsEquality(Mat[c])
    BY <1>4, <2>1
  <2>3. Mat[c][0] = n
    BY <2>2 DEF IsEquality
  <2>4. ~IsPositivity(Mat[c])
    <3>1. \E e \in Coordinates : Wide[c][e] # 0
      BY <1>2, <1>3, <2>1 DEF Shaped, Reduced
    <3> QED BY <1>2, <1>3, <2>1, <3>1, NoPositivity
  <2>5. ConstraintStatus(Mat[c]) = 0
    BY <1>1, <1>13, <2>2, <2>3, <2>4 DEF ConstraintStatus
  <2> QED BY <1>15, <2>1, <2>5
<1> DEFINE G == {c \in NbEq .. m - 1 : Mat[c][0] < D}
<1>17. ASSUME NEW c \in NbEq .. m - 1
       PROVE  \E d \in Irredundants' \cup {-1} : Touched(Wide'[c], Ray') \subseteq Touched(Wide'[d], Ray')
  <2>1. \A d \in NbEq .. m - 1 : d \in 0 .. m - 1 /\ d \in DOMAIN Wide \ Flat(Wide, Ray)
    BY <1>1, <1>2, <1>3
  <2>2. G \subseteq DOMAIN Wide \ Flat(Wide, Ray)
    BY <2>1
  <2>3. ASSUME NEW d \in G PROVE Cardinality(Touched(Wide[d], Ray)) + NbEq2 + 1 < Dimension
    <3>1. d \in 0 .. m - 1 /\ Mat[d][0] < D
      BY <2>1, <2>3
    <3>2. Cardinality(Touched(Wide[d], Ray)) = Mat[d][0] /\ Mat[d][0] \in Nat
      BY <1>3, <1>14, <3>1
    <3> QED BY <1>13, <3>1, <3>2, DimensionAssumption
  <2> HIDE DEF G
  <2> DEFINE F == Flat(Wide, Ray)
  <2>8. c \in DOMAIN Wide \ F /\ G \subseteq DOMAIN Wide \ F
    BY <2>1, <2>2
  <2>9. \A d \in G : Cardinality(Touched(Wide[d], Ray)) + NbEq2 + 1 < Dimension
    BY <2>3
  <2>4. PICK d \in (DOMAIN Wide \ F) \ G : Touched(Wide[c], Ray) \subseteq Touched(Wide[d], Ray)
    BY <1>13, <2>8, <2>9, EnoughCover
  <2>5. \A e \in DOMAIN Wide : Touched(Wide'[e], Ray') = Touched(Wide[e], Ray)
    <3>1. Touched(Wide'[-1], Ray') = Touched(Wide[-1], Ray)
      BY <1>3, <1>6, <1>10
    <3> QED BY <1>3, <1>9, <1>10, <3>1
  <2>6. CASE d = -1
    BY <1>3, <2>1, <2>4, <2>5, <2>6
  <2>7. CASE d # -1
    <3>1. d \in 0 .. m - 1 /\ d \in NbEq .. m - 1 /\ d \notin G
      BY <1>1, <1>2, <1>3, <2>4, <2>7
    <3>2. ~(Mat[d][0] < D) /\ ~IsEquality(Mat[d])
      BY <1>1, <1>4, <3>1 DEF G
    <3>3. CASE IsPositivity(Mat[d])
      <4>1. Touched(Wide[d], Ray) = Touched(Wide[-1], Ray)
        BY <1>2, <1>3, <2>4, <3>1, <3>3, PositivityTouched
      <4> QED BY <1>3, <2>1, <2>4, <2>5, <4>1
    <3>4. CASE Mat[d][0] = 0
      <4>1. Touched(Wide[d], Ray) = {}
        <5>1. Touched(Wide[d], Ray) \subseteq DOMAIN Ray
          BY DEF Touched
        <5>2. IsFiniteSet(Touched(Wide[d], Ray))
          BY <1>3, <5>1, FS_Subset DEF IsFamily
        <5>3. Cardinality(Touched(Wide[d], Ray)) = 0
          BY <1>3, <1>14, <3>1, <3>4
        <5> QED BY <5>2, <5>3, FS_EmptySet
      <4>2. Touched(Wide[c], Ray) \subseteq Touched(Wide[-1], Ray)
        BY <2>4, <4>1
      <4> QED BY <1>3, <2>1, <2>5, <4>2
    <3>5. CASE ~IsPositivity(Mat[d]) /\ Mat[d][0] # 0
      <4>1. ConstraintStatus(Mat[d]) = 1
        BY <3>2, <3>5 DEF ConstraintStatus
      <4>2. Mat'[d][0] = 1
        BY <1>15, <3>1, <4>1
      <4>3. d \in Irredundants'
        BY <1>6, <1>7, <3>1, <4>2 DEF Irredundants
      <4> QED BY <1>3, <2>1, <2>4, <2>5, <4>3
    <3> QED BY <3>3, <3>4, <3>5
  <2> QED BY <2>6, <2>7
<1> HIDE DEF G, m, n, D
<1>18. RowsSorted'
  BY <1>6, <1>7, <1>16, <1>17 DEF RowsSorted, m
<1> QED BY <1>6, <1>7, <1>11, <1>12, <1>18

-----------------------------------------------------------------------------
(* Steps 7 and 9: what is left stands for the same.                        *)

\* Some rows of a family.
LEMMA OnlyIs ==
  ASSUME NEW A, IsFamily(A), NEW K, K \subseteq DOMAIN A
  PROVE  /\ IsFamily(Only(A, K)) /\ DOMAIN Only(A, K) = K /\ \A c \in K : Only(A, K)[c] = A[c]
         /\ \A p : Touched(p, Only(A, K)) = Touched(p, A) \cap K
         /\ \A p : Zeros(p, Only(A, K)) = Zeros(p, A) \cap K
<1>1. DOMAIN Only(A, K) = K /\ \A c \in K : Only(A, K)[c] = A[c]
  BY DEF Only
<1>2. IsFamily(Only(A, K))
  BY <1>1, FS_Subset DEF IsFamily
<1>3. ASSUME NEW p
      PROVE  Touched(p, Only(A, K)) = Touched(p, A) \cap K /\ Zeros(p, Only(A, K)) = Zeros(p, A) \cap K
  BY <1>1 DEF Touched, Zeros
<1> QED BY <1>1, <1>2, <1>3

\* Rows and rays that others cover are left out, both at once.
LEMMA SelectionMeans ==
  ASSUME NEW A, NEW R, NEW q, Alive(A, R, q),
         NEW K, Flat(A, R) \subseteq K, K \subseteq DOMAIN A, -1 \in K,
         \A c \in DOMAIN A \ K : \E d \in K \ Flat(A, R) : Touched(A[c], R) \subseteq Touched(A[d], R),
         NEW L, Flat(R, A) \subseteq L, L \subseteq DOMAIN R,
         \A r \in DOMAIN R \ L : \E s \in L \ Flat(R, A) : Touched(R[r], A) \subseteq Touched(R[s], A)
  PROVE  /\ Alive(Only(A, K), Only(R, L), q)
         /\ Flat(Only(A, K), Only(R, L)) = Flat(A, R)
         /\ Flat(Only(R, L), Only(A, K)) = Flat(R, A)
<1>1. Means(A, R, q) /\ Exact(A, R) /\ -1 \notin Flat(A, R) /\ A[-1] = PositivityRow
  BY DEF Alive, Means
<1>2. Exact(R, A) /\ IsFamily(A) /\ IsFamily(R)
  BY <1>1, ExactSwapped DEF Exact, Tight
<1> DEFINE Q == Only(R, L)
           B == Only(A, K)
<1>3. Replaces(Q, R, A) /\ Flat(Q, A) = Flat(R, A)
  BY <1>2, ExactLeftOut
<1>4. Means(A, Q, q) /\ Flat(A, Q) = Flat(A, R)
  BY <1>1, <1>3, MeansRays
<1>5. \A p : Touched(p, Q) = Touched(p, R) \cap L
  BY <1>2, OnlyIs
<1>6. DOMAIN B = K /\ B[-1] = PositivityRow
  BY <1>1, <1>2, OnlyIs
<1> HIDE DEF Q, B
<1>7. \A c \in DOMAIN A \ K : \E d \in K \ Flat(A, Q) : Touched(A[c], Q) \subseteq Touched(A[d], Q)
  BY <1>4, <1>5
<1>8. Exact(A, Q)
  BY <1>4 DEF Means
<1>9. Replaces(B, A, Q) /\ Flat(B, Q) = Flat(A, Q)
  BY <1>4, <1>7, <1>8, ExactLeftOut DEF B
<1>10. Means(B, Q, q) /\ (-1 \in Flat(B, Q) <=> -1 \in Flat(A, Q))
  BY <1>4, <1>6, <1>9, MeansRows
<1>11. Flat(Q, B) = Flat(Q, A)
  BY <1>9 DEF Replaces
<1>12. Alive(B, Q, q) /\ Flat(B, Q) = Flat(A, R) /\ Flat(Q, B) = Flat(R, A)
  BY <1>1, <1>3, <1>4, <1>9, <1>10, <1>11 DEF Alive
<1> QED BY <1>12 DEF B, Q

\* The rows that have status 0 or 1, and the positivity constraint.
RowsKept == (0 .. NbEq - 1) \cup {-1} \cup Irredundants
\* The rays that step 7 keeps, and both kinds as families.
RaysKept == (0 .. NbBid - 1) \cup Generators
Chosen     == Only(Wide, RowsKept)
ChosenRays == Only(Ray, RaysKept)

\* From step 7 on the rows chosen alone keep the promise.
Selected(q) ==
  /\ Alive(Chosen, ChosenRays, q)
  /\ Flat(Chosen, ChosenRays) = 0 .. NbEq - 1 /\ Flat(ChosenRays, Chosen) = 0 .. NbBid - 1
  /\ Reduced(Mat, NbEq2, NbEq) /\ Reduced(Ray, NbBid2, NbBid)

\* The inequalities of Pol are those among the first c that are kept.
RowsListed(c) ==
  /\ \A x \in 0 .. NbEq2 - 1 : Pol.Constraint[x] = Mat[x] /\ Mat[x][0] = 0
  /\ \A x \in NbEq2 .. Length(Pol.Constraint) - 1 : \E d \in Irredundants : d < c /\ Pol.Constraint[x] = Mat[d]
  /\ \A d \in Irredundants : d < c =>
       \E x \in NbEq2 .. Length(Pol.Constraint) - 1 : Pol.Constraint[x] = Mat[d]

\* The reduced lines are in Pol.
LinesListed == \A x \in 0 .. NbBid2 - 1 : Pol.Ray[x] = Ray[x] /\ Ray[x][0] = 0

\* A ray that saturates too little is below another one.
LEMMA RaysSorted ==
  ASSUME Separated, NEW q, Shaped(q), RayCounts, NEW r \in NbBid .. NbRay - 1
  PROVE  \E s \in NbBid .. NbRay - 1 : /\ ~(Ray[s][0] < Dim_RaySpace) /\ ~SaturatesAll(Ray[s])
                                       /\ Touched(Ray[r], Wide) \subseteq Touched(Ray[s], Wide)
<1> DEFINE n == NbRay
           D == Dim_RaySpace
           F == Flat(Ray, Wide)
           G == {s \in NbBid .. n - 1 : Ray[s][0] < D}
<1>1. /\ ReduceTyped /\ NbBid \in 0..n /\ NbBid2 \in 0..NbBid /\ NbEq2 \in Nat /\ n \in Nat
  BY DEF Separated, ReduceTyped
<1>2. /\ Exact(Wide, Ray) /\ Exact(Ray, Wide) /\ NbBid2 \in Nat /\ Ranked(Ray, Wide, NbBid2) /\ D \in Int
  BY ShapedRanks
<1>3. IsFamily(Wide) /\ IsFamily(Ray) /\ DOMAIN Ray = 0 .. n - 1
  BY <1>1, WideFacts
<1>4. F = 0 .. NbBid - 1 /\ D = Dimension - 1 - NbEq2 - NbBid2
  BY DEF Shaped
<1>5. \A s \in 0 .. n - 1 : SaturatesAll(Ray[s]) <=> s \in F
  BY <1>1, <1>2, LinesCounted
<1>6. DOMAIN Ray \ F = NbBid .. n - 1
  BY <1>1, <1>3, <1>4
<1>7. ASSUME NEW s \in 0 .. n - 1
      PROVE  Ray[s][0] = Cardinality(Touched(Ray[s], Wide)) /\ Ray[s][0] \in Nat
  <2>1. Ray[s] \in IntRow
    BY <1>3 DEF IsFamily
  <2>2. Touched(Ray[s], Wide) = Zeros(Ray[s], Wide)
    BY <1>3, <2>1, TouchedZeros
  <2>3. Ray[s][0] = Cardinality(Zeros(Ray[s], Wide))
    BY DEF RayCounts, AllRays
  <2>4. Touched(Ray[s], Wide) \subseteq DOMAIN Wide
    BY DEF Touched
  <2> QED BY <1>3, <2>2, <2>3, <2>4, FS_Subset, FS_CardinalityType DEF IsFamily
<1>8. \A s \in NbBid .. n - 1 : s \in 0 .. n - 1
  BY <1>1
<1>9. G \subseteq DOMAIN Ray \ F /\ r \in DOMAIN Ray \ F
  BY <1>6
<1>10. ASSUME NEW s \in G PROVE Cardinality(Touched(Ray[s], Wide)) + NbBid2 + 1 < Dimension
  <2>1. s \in 0 .. n - 1 /\ Ray[s][0] < D
    BY <1>8, <1>10
  <2>2. Cardinality(Touched(Ray[s], Wide)) = Ray[s][0] /\ Ray[s][0] \in Nat
    BY <1>7, <2>1
  <2> DEFINE y == Cardinality(Touched(Ray[s], Wide))
  <2>3. y < D /\ y \in Nat /\ D = Dimension - 1 - NbEq2 - NbBid2 /\ NbBid2 \in Nat /\ NbEq2 \in Nat
    BY <1>1, <1>2, <1>4, <2>1, <2>2
  <2> HIDE DEF y, D
  <2>4. y + NbBid2 + 1 < Dimension
    BY <2>3, DimensionAssumption
  <2> QED BY <2>4 DEF y
<1> HIDE DEF G, F
<1>11. \A s \in G : Cardinality(Touched(Ray[s], Wide)) + NbBid2 + 1 < Dimension
  BY <1>10
<1>12. PICK s \in (DOMAIN Ray \ F) \ G : Touched(Ray[r], Wide) \subseteq Touched(Ray[s], Wide)
  BY <1>2, <1>9, <1>11, EnoughCover DEF F
<1>13. s \in NbBid .. n - 1 /\ ~(Ray[s][0] < D) /\ s \notin F
  BY <1>6, <1>12 DEF G
<1> QED BY <1>5, <1>8, <1>12, <1>13

\* Step 7: what counts too little is left out, on both sides.
LEMMA ClassifyRaysMeans ==
  ASSUME Separated, ClassifyRays, NEW q, Shaped(q), RayCounts, RowsSorted
  PROVE  pc' = "step9" /\ InStep9' /\ (Selected(q) /\ RowsListed(j) /\ LinesListed)'
<1> DEFINE m == NbConstraints
           n == NbRay
<1>1. /\ ReduceTyped /\ NbEq \in 0..m /\ NbEq2 \in 0..NbEq /\ NbBid \in 0..n /\ NbBid2 \in 0..NbBid
      /\ m \in Nat /\ n \in Nat /\ AllRays = 0 .. n - 1 /\ Mat \in MatrixOf(m) /\ Ray \in MatrixOf(n)
  BY DEF Separated, ReduceTyped, AllRays
<1>2. pc' = "step9" /\ InStep9' /\ Same(Ray, Ray', n)
  BY ClassifyRaysStep
<1>3. /\ Ray' = [r \in AllRays |-> WithStatus(Ray[r], RayStatus(Ray[r]))]
      /\ Pol'.Constraint = Rows(Mat, NbEq2)
      /\ j' = NbEq
      /\ UNCHANGED <<Mat, NbRay, NbBid, NbBid2, NbEq, NbEq2, Dim_RaySpace>>
  BY DEF ClassifyRays, counts
<1>4. Same(Mat, Mat', m) /\ m' = m
  BY <1>1, <1>3, SameItself DEF NbConstraints
<1>5. Alive(Wide, Ray, q) /\ Means(Wide, Ray, q) /\ -1 \notin Flat(Wide, Ray)
  BY DEF Shaped, Alive
<1>6. /\ Means(Wide', Ray', q)
      /\ Flat(Wide', Ray') = Flat(Wide, Ray) /\ Flat(Ray', Wide') = Flat(Ray, Wide)
      /\ \A c \in 0 .. m - 1 : Touched(Mat'[c], Ray') = Touched(Mat[c], Ray)
      /\ \A r \in 0 .. n - 1 : Zeros(Ray'[r], Wide') = Zeros(Ray[r], Wide)
  BY <1>1, <1>2, <1>4, <1>5, AliveSame
<1>7. Wide' = Wide
  BY <1>3, <1>4 DEF Wide
<1>8. /\ IsFamily(Wide) /\ DOMAIN Wide = 0 .. m - 1 \cup {-1} /\ -1 \notin 0 .. m - 1
      /\ \A c \in 0 .. m - 1 : Wide[c] = Mat[c]
      /\ IsFamily(Ray) /\ DOMAIN Ray = 0 .. n - 1
  BY <1>1, WideFacts
<1>9. Ray' \in MatrixOf(n) /\ IsFamily(Ray') /\ DOMAIN Ray' = 0 .. n - 1
  BY <1>1, <1>2, RowsAre DEF Same
<1>10. \A e \in DOMAIN Wide : Touched(Wide[e], Ray') = Touched(Wide[e], Ray)
  <2>1. Twins(Wide, Wide) /\ Twins(Ray, Ray')
    <3>1. Twins(Wide, Wide)
      BY <1>8, TwinItself
    <3>2. Twins(Ray, Ray')
      BY <1>1, <1>2, WideTwins
    <3> QED BY <3>1, <3>2
  <2> QED BY <2>1, TwinFlats
<1>11. \A r \in 0 .. n - 1 : Touched(Ray'[r], Wide) = Touched(Ray[r], Wide)
  <2>1. ASSUME NEW r \in 0 .. n - 1 PROVE Touched(Ray'[r], Wide) = Touched(Ray[r], Wide)
    <3>1. Ray[r] \in IntRow /\ Ray'[r] \in IntRow
      BY <1>8, <1>9 DEF IsFamily
    <3>2. Zeros(Ray'[r], Wide) = Zeros(Ray[r], Wide)
      BY <1>6, <1>7
    <3> QED BY <1>8, <3>1, <3>2, TouchedZeros
  <2> QED BY <2>1
<1>12. Flat(Wide, Ray) = 0 .. NbEq - 1 /\ Flat(Ray, Wide) = 0 .. NbBid - 1
  BY DEF Shaped
<1>13. ASSUME NEW r \in 0 .. n - 1 PROVE Ray'[r][0] = RayStatus(Ray[r]) /\ RayStatus(Ray[r]) \in Int
  <2> DEFINE s == RayStatus(Ray[r])
  <2>1. s \in Int
    BY DEF RayStatus
  <2>2. Ray'[r] = WithStatus(Ray[r], s) /\ Ray[r] \in IntRow
    BY <1>1, <1>3, <1>8 DEF IsFamily
  <2> HIDE DEF s
  <2>3. Ray'[r][0] = s
    BY <2>1, <2>2, StatusOnly
  <2> QED BY <2>1, <2>3 DEF s
<1>14. Generators' = {r \in NbBid .. n - 1 : Ray'[r][0] = 1} /\ Irredundants' = {c \in NbEq .. m - 1 : Mat[c][0] = 1}
  BY <1>3, <1>4 DEF Generators, Irredundants
<1>15. Irredundants' = Irredundants
  BY <1>14 DEF Irredundants
<1> HIDE DEF m, n
<1> DEFINE K == RowsKept'
           L == RaysKept'
<1>16. K = (0 .. NbEq - 1) \cup {-1} \cup Irredundants /\ L = (0 .. NbBid - 1) \cup Generators'
  BY <1>3, <1>15 DEF RowsKept, RaysKept
<1>17. Irredundants \subseteq NbEq .. m - 1 /\ Generators' \subseteq NbBid .. n - 1
  BY <1>14, <1>15
<1> HIDE DEF K, L
<1>18. \A c \in NbEq .. m - 1 : c \in 0 .. m - 1 /\ c \notin 0 .. NbEq - 1
  BY <1>1
<1>19. \A r \in NbBid .. n - 1 : r \in 0 .. n - 1 /\ r \notin 0 .. NbBid - 1
  BY <1>1
<1>20. Flat(Wide, Ray') \subseteq K /\ K \subseteq DOMAIN Wide /\ -1 \in K
  <2>1. 0 .. NbEq - 1 \subseteq 0 .. m - 1
    BY <1>1
  <2> QED BY <1>6, <1>7, <1>8, <1>12, <1>16, <1>17, <1>18, <2>1
<1>21. Flat(Ray', Wide) \subseteq L /\ L \subseteq DOMAIN Ray'
  <2>1. 0 .. NbBid - 1 \subseteq 0 .. n - 1
    BY <1>1
  <2> QED BY <1>6, <1>7, <1>9, <1>12, <1>16, <1>17, <1>19, <2>1
<1>22. ASSUME NEW c \in DOMAIN Wide \ K
       PROVE  \E d \in K \ Flat(Wide, Ray') : Touched(Wide[c], Ray') \subseteq Touched(Wide[d], Ray')
  <2>1. c \in NbEq .. m - 1
    <3>1. c \in 0 .. m - 1 /\ c \notin 0 .. NbEq - 1
      BY <1>8, <1>16, <1>22
    <3> QED BY <1>1, <3>1
  <2>2. PICK d \in Irredundants \cup {-1} : Touched(Wide[c], Ray) \subseteq Touched(Wide[d], Ray)
    BY <2>1 DEF RowsSorted, m
  <2>3. d \in K \ Flat(Wide, Ray')
    BY <1>5, <1>6, <1>7, <1>12, <1>16, <1>17, <1>18, <2>2
  <2>4. c \in DOMAIN Wide /\ d \in DOMAIN Wide
    BY <1>20, <1>22, <2>3
  <2> QED BY <1>10, <2>2, <2>3, <2>4
<1>23. ASSUME NEW r \in DOMAIN Ray' \ L
       PROVE  \E s \in L \ Flat(Ray', Wide) : Touched(Ray'[r], Wide) \subseteq Touched(Ray'[s], Wide)
  <2>1. r \in NbBid .. n - 1
    <3>1. r \in 0 .. n - 1 /\ r \notin 0 .. NbBid - 1
      BY <1>9, <1>16, <1>23
    <3> QED BY <1>1, <3>1
  <2>2. PICK s \in NbBid .. n - 1 : /\ ~(Ray[s][0] < Dim_RaySpace) /\ ~SaturatesAll(Ray[s])
                                    /\ Touched(Ray[r], Wide) \subseteq Touched(Ray[s], Wide)
    BY <2>1, RaysSorted DEF n
  <2>3. RayStatus(Ray[s]) = 1
    BY <2>2 DEF RayStatus
  <2>4. s \in Generators'
    BY <1>13, <1>14, <1>19, <2>3
  <2>5. s \in L \ Flat(Ray', Wide)
    BY <1>6, <1>7, <1>12, <1>16, <1>17, <1>19, <2>4
  <2> QED BY <1>11, <1>19, <2>1, <2>2, <2>5
<1>24. Alive(Wide, Ray', q)
  BY <1>5, <1>6, <1>7 DEF Alive
<1>25. /\ Alive(Only(Wide, K), Only(Ray', L), q)
       /\ Flat(Only(Wide, K), Only(Ray', L)) = Flat(Wide, Ray')
       /\ Flat(Only(Ray', L), Only(Wide, K)) = Flat(Ray', Wide)
  BY <1>20, <1>21, <1>22, <1>23, <1>24, SelectionMeans
<1>26. Chosen' = Only(Wide, K) /\ ChosenRays' = Only(Ray', L)
  BY <1>7 DEF Chosen, ChosenRays, K, L
<1>27. Reduced(Ray', NbBid2, NbBid)
  BY <1>1, <1>2, ReducedSame DEF Shaped
<1>28. Selected(q)'
  <2>1. Reduced(Mat', NbEq2', NbEq') /\ Reduced(Ray', NbBid2', NbBid')
    BY <1>3, <1>27 DEF Shaped
  <2> QED BY <1>3, <1>6, <1>7, <1>12, <1>25, <1>26, <2>1 DEF Selected
<1>29. RowsListed(j)'
  <2>1. Length(Pol'.Constraint) = NbEq2 /\ \A x \in 0 .. NbEq2 - 1 : Pol'.Constraint[x] = Mat[x]
    <3>1. \A x \in 0 .. NbEq2 - 1 : Rows(Mat, NbEq2)[x] = Mat[x] /\ x \in 0 .. m - 1
      BY <1>1 DEF Rows
    <3>2. Rows(Mat, NbEq2) \in MatrixOf(NbEq2)
      <4>1. Rows(Mat, NbEq2) = [x \in 0 .. NbEq2 - 1 |-> Rows(Mat, NbEq2)[x]]
        BY DEF Rows
      <4> QED BY <1>1, <3>1, <4>1 DEF MatrixOf
    <3>3. NbEq2 \in Nat
      BY <1>1
    <3> QED BY <1>3, <3>1, <3>2, <3>3, LengthIs
  <2>2. \A x \in 0 .. NbEq2 - 1 : Mat[x][0] = 0
    BY DEF RowsSorted
  <2>3. NbEq2 .. NbEq2 - 1 = {} /\ \A d \in NbEq .. m - 1 : ~(d < NbEq)
    BY <1>1
  <2> QED BY <1>3, <1>15, <1>17, <2>1, <2>2, <2>3 DEF RowsListed
<1>30. LinesListed'
  <2>1. ASSUME NEW x \in 0 .. NbBid2 - 1 PROVE Pol'.Ray[x] = Ray'[x] /\ Ray'[x][0] = 0
    <3>1. Pol'.Ray[x] = Ray'[x]
      BY <1>2, <1>3 DEF InStep9
    <3>2. x \in 0 .. n - 1 /\ x \in 0 .. NbBid - 1
      BY <1>1
    <3>3. Exact(Wide, Ray) /\ NbConstraints + 1 >= Dim_RaySpace /\ Dim_RaySpace \in Int
      BY ShapedRanks
    <3>4. SaturatesAll(Ray[x])
      BY <1>1, <1>12, <3>2, <3>3, LinesCounted DEF n
    <3>5. RayStatus(Ray[x]) = 0
      <4>1. Ray[x][0] = NbConstraints + 1
        BY <3>4 DEF SaturatesAll
      <4>2. ~(Ray[x][0] < Dim_RaySpace)
        BY <1>1, <3>3, <4>1 DEF m
      <4> QED BY <3>4, <4>2 DEF RayStatus
    <3> QED BY <1>13, <3>1, <3>2, <3>5
  <2> QED BY <1>3, <2>1 DEF LinesListed
<1> QED BY <1>2, <1>28, <1>29, <1>30

-----------------------------------------------------------------------------
(* Steps 9 and 10: Pol gets the rows that are kept.                        *)

\* The rows chosen, spelled out.
LEMMA ChosenFacts ==
  ASSUME Separated
  PROVE  /\ IsFamily(Chosen) /\ DOMAIN Chosen = RowsKept /\ Chosen[-1] = PositivityRow
         /\ \A c \in 0 .. NbEq - 1 : c \in RowsKept /\ c \in 0 .. NbConstraints - 1 /\ Chosen[c] = Mat[c]
         /\ \A c \in Irredundants : c \in RowsKept /\ c \in 0 .. NbConstraints - 1 /\ Chosen[c] = Mat[c] /\ c \notin 0 .. NbEq - 1
         /\ -1 \notin Irredundants /\ -1 \notin 0 .. NbEq - 1
         /\ IsFamily(ChosenRays) /\ DOMAIN ChosenRays = RaysKept
         /\ \A r \in 0 .. NbBid - 1 : r \in RaysKept /\ r \in 0 .. NbRay - 1 /\ ChosenRays[r] = Ray[r]
         /\ \A r \in Generators : r \in RaysKept /\ r \in 0 .. NbRay - 1 /\ ChosenRays[r] = Ray[r] /\ r \notin 0 .. NbBid - 1
<1>1. /\ ReduceTyped /\ NbEq \in 0..NbConstraints /\ NbBid \in 0..NbRay /\ NbConstraints \in Nat /\ NbRay \in Nat
  BY DEF Separated, ReduceTyped
<1>2. /\ IsFamily(Wide) /\ DOMAIN Wide = 0 .. NbConstraints - 1 \cup {-1} /\ Wide[-1] = PositivityRow
      /\ -1 \notin 0 .. NbConstraints - 1
      /\ \A c \in 0 .. NbConstraints - 1 : Wide[c] = Mat[c]
      /\ IsFamily(Ray) /\ DOMAIN Ray = 0 .. NbRay - 1
  BY <1>1, WideFacts
<1>3. \A c \in NbEq .. NbConstraints - 1 : c \in 0 .. NbConstraints - 1 /\ c \notin 0 .. NbEq - 1
  BY <1>1
<1>4. \A r \in NbBid .. NbRay - 1 : r \in 0 .. NbRay - 1 /\ r \notin 0 .. NbBid - 1
  BY <1>1
<1>5. 0 .. NbEq - 1 \subseteq 0 .. NbConstraints - 1 /\ 0 .. NbBid - 1 \subseteq 0 .. NbRay - 1
  BY <1>1
<1>6. \A c \in Irredundants : c \in RowsKept /\ c \in 0 .. NbConstraints - 1 /\ c \notin 0 .. NbEq - 1
  BY <1>3 DEF Irredundants, RowsKept
<1>7. \A r \in Generators : r \in RaysKept /\ r \in 0 .. NbRay - 1 /\ r \notin 0 .. NbBid - 1
  BY <1>4 DEF Generators, RaysKept
<1>8. RowsKept \subseteq DOMAIN Wide /\ RaysKept \subseteq DOMAIN Ray
  BY <1>2, <1>5, <1>6, <1>7 DEF RowsKept, RaysKept
<1>9. /\ IsFamily(Chosen) /\ DOMAIN Chosen = RowsKept /\ \A c \in RowsKept : Chosen[c] = Wide[c]
      /\ IsFamily(ChosenRays) /\ DOMAIN ChosenRays = RaysKept /\ \A r \in RaysKept : ChosenRays[r] = Ray[r]
  BY <1>2, <1>8, OnlyIs DEF Chosen, ChosenRays
<1>10. -1 \in RowsKept /\ -1 \notin Irredundants /\ -1 \notin 0 .. NbEq - 1
  BY <1>2, <1>5, <1>6 DEF RowsKept
<1>11. \A c \in 0 .. NbEq - 1 : c \in RowsKept /\ c \in 0 .. NbConstraints - 1
  BY <1>5 DEF RowsKept
<1>12. \A r \in 0 .. NbBid - 1 : r \in RaysKept /\ r \in 0 .. NbRay - 1
  BY <1>5 DEF RaysKept
<1> QED BY <1>2, <1>6, <1>7, <1>9, <1>10, <1>11, <1>12

\* The bits tell when the rays kept that saturate c saturate d as well.
LEMMA CoveredRows ==
  ASSUME Separated, NEW q, Selected(q), NEW c \in Irredundants, NEW d \in Irredundants,
         \A r \in Generators : Saturates(r, c) => Saturates(r, d)
  PROVE  Touched(Chosen[c], ChosenRays) \subseteq Touched(Chosen[d], ChosenRays)
<1>1. /\ DOMAIN Chosen = RowsKept /\ DOMAIN ChosenRays = RaysKept
      /\ c \in RowsKept /\ c \in ConstraintRows /\ Chosen[c] = Mat[c]
      /\ d \in RowsKept /\ d \in ConstraintRows /\ Chosen[d] = Mat[d]
      /\ \A r \in Generators : r \in AllRays /\ ChosenRays[r] = Ray[r]
  BY ChosenFacts DEF AllRays, ConstraintRows
<1>2. ReduceTyped /\ BitsKnown /\ Exact(Chosen, ChosenRays) /\ Flat(ChosenRays, Chosen) = 0 .. NbBid - 1
  BY DEF Separated, Selected, Alive, Means
<1>3. ASSUME NEW r \in RaysKept, InnerProduct(ChosenRays[r], Chosen[c]) = 0
      PROVE  InnerProduct(ChosenRays[r], Chosen[d]) = 0
  <2>1. CASE r \in 0 .. NbBid - 1
    <3>1. r \in Flat(ChosenRays, Chosen) /\ r \in DOMAIN ChosenRays /\ d \in DOMAIN Chosen
      BY <1>1, <1>2, <1>3, <2>1
    <3> QED BY <1>2, <3>1, ExactProducts
  <2>2. CASE r \in Generators
    <3>1. Saturates(r, c)
      BY <1>1, <1>2, <1>3, <2>2, SaturatesIs
    <3>2. Saturates(r, d)
      BY <2>2, <3>1
    <3> QED BY <1>1, <1>2, <2>2, <3>2, SaturatesIs
  <2> QED BY <2>1, <2>2 DEF RaysKept
<1> QED BY <1>1, <1>3 DEF Touched

\* The row at j is redundant: it gets another status.
LEMMA RowDropped ==
  ASSUME InStep9, NEW q, Selected(q), RowsListed(j), LinesListed,
         j \in Irredundants, ConstraintRedundant(j), Mat' = [Mat EXCEPT ![j][0] = 2],
         Same(Mat, Mat', NbConstraints), NbConstraints' = NbConstraints, j' = j + 1,
         UNCHANGED <<Ray, NbRay, NbBid, NbBid2, NbEq, NbEq2, Pol>>
  PROVE  (Selected(q) /\ RowsListed(j) /\ LinesListed)'
<1> DEFINE m == NbConstraints
<1>1. /\ Separated /\ ReduceTyped /\ NbEq \in 0..m /\ NbEq2 \in 0..NbEq /\ NbBid \in 0..NbRay /\ NbBid2 \in 0..NbBid
      /\ m \in Nat /\ NbRay \in Nat /\ Mat \in MatrixOf(m) /\ j \in NbEq..m
  BY DEF InStep9, Building, Separated, ReduceTyped
<1>2. /\ IsFamily(Chosen) /\ DOMAIN Chosen = RowsKept /\ DOMAIN ChosenRays = RaysKept
      /\ \A c \in Irredundants : c \in RowsKept /\ c \in 0 .. m - 1 /\ c \notin 0 .. NbEq - 1
      /\ -1 \notin Irredundants /\ -1 \notin 0 .. NbEq - 1
      /\ \A c \in 0 .. NbEq - 1 : c \in RowsKept /\ c \in 0 .. m - 1
  BY <1>1, ChosenFacts
<1>3. Mat'[j][0] = 2 /\ \A c \in 0 .. m - 1 : c # j => Mat'[c] = Mat[c]
  <2>1. j \in 0 .. m - 1
    BY <1>2
  <2>2. DOMAIN Mat = 0 .. m - 1 /\ Mat[j] \in IntRow
    BY <1>1, <2>1 DEF MatrixOf
  <2>3. 0 \in DOMAIN Mat[j]
    BY <2>2, DimensionAssumption DEF IntRow
  <2>4. Mat'[j] = [Mat[j] EXCEPT ![0] = 2]
    BY <2>1, <2>2
  <2> QED BY <2>2, <2>3, <2>4
<1>4. Irredundants' = Irredundants \ {j}
  BY <1>2, <1>3 DEF Irredundants
<1>5. RowsKept' = RowsKept \ {j} /\ RaysKept' = RaysKept /\ Generators' = Generators
  BY <1>2, <1>4 DEF RowsKept, RaysKept, Generators
<1>6. /\ DOMAIN Wide' = 0 .. m - 1 \cup {-1}
      /\ \A c \in DOMAIN Wide : c # j => Wide'[c] = Wide[c]
      /\ DOMAIN Wide = 0 .. m - 1 \cup {-1}
  <2>1. Wide' = Family(Mat', m, FALSE) /\ Mat' \in MatrixOf(m)
    BY DEF Wide, Same
  <2>2. /\ DOMAIN Wide' = 0 .. m - 1 \cup {-1} /\ Wide'[-1] = PositivityRow
        /\ \A c \in 0 .. m - 1 : Wide'[c] = Mat'[c]
    BY <1>1, <2>1, WideIs
  <2>3. /\ DOMAIN Wide = 0 .. m - 1 \cup {-1} /\ Wide[-1] = PositivityRow
        /\ \A c \in 0 .. m - 1 : Wide[c] = Mat[c]
    BY <1>1, WideFacts
  <2> QED BY <1>3, <2>2, <2>3
<1> DEFINE K == RowsKept'
<1>7. Chosen' = Only(Chosen, K)
  <2>1. \A c \in K : c \in RowsKept /\ c \in DOMAIN Wide /\ c # j
    <3>1. RowsKept \subseteq DOMAIN Wide
      BY <1>2, <1>6 DEF RowsKept
    <3> QED BY <1>5, <3>1
  <2>2. \A c \in K : Wide'[c] = Chosen[c]
    BY <1>6, <2>1 DEF Chosen, Only
  <2> HIDE DEF K
  <2>3. Only(Wide', K) = Only(Chosen, K)
    BY <2>2 DEF Only
  <2> QED BY <2>3 DEF Chosen, K
<1>8. ChosenRays' = ChosenRays /\ Only(ChosenRays, RaysKept) = ChosenRays
  BY <1>5 DEF ChosenRays, Only
<1>9. Alive(Chosen, ChosenRays, q) /\ Flat(Chosen, ChosenRays) = 0 .. NbEq - 1 /\ Flat(ChosenRays, Chosen) = 0 .. NbBid - 1
  BY DEF Selected
<1>10. /\ Flat(Chosen, ChosenRays) \subseteq K /\ K \subseteq DOMAIN Chosen /\ -1 \in K
  <2>1. -1 \in RowsKept /\ j # -1 /\ j \notin 0 .. NbEq - 1
    BY <1>2 DEF RowsKept
  <2> QED BY <1>2, <1>5, <1>9, <2>1
<1>11. PICK d \in Irredundants \ {j} : \A r \in Generators : Saturates(r, j) => Saturates(r, d)
  BY DEF ConstraintRedundant
<1>12. Touched(Chosen[j], ChosenRays) \subseteq Touched(Chosen[d], ChosenRays)
  BY <1>1, <1>11, CoveredRows
<1>13. \A c \in DOMAIN Chosen \ K : \E e \in K \ Flat(Chosen, ChosenRays) :
         Touched(Chosen[c], ChosenRays) \subseteq Touched(Chosen[e], ChosenRays)
  <2>1. \A c \in DOMAIN Chosen \ K : c = j
    BY <1>2, <1>5
  <2>2. d \in K \ Flat(Chosen, ChosenRays)
    BY <1>2, <1>5, <1>9, <1>11
  <2> QED BY <1>12, <2>1, <2>2
<1>14. Flat(ChosenRays, Chosen) \subseteq RaysKept /\ RaysKept \subseteq DOMAIN ChosenRays /\ DOMAIN ChosenRays \ RaysKept = {}
  BY <1>2 DEF Flat
<1> HIDE DEF K
<1>15. /\ Alive(Only(Chosen, K), Only(ChosenRays, RaysKept), q)
       /\ Flat(Only(Chosen, K), Only(ChosenRays, RaysKept)) = Flat(Chosen, ChosenRays)
       /\ Flat(Only(ChosenRays, RaysKept), Only(Chosen, K)) = Flat(ChosenRays, Chosen)
  <2>1. \A r \in DOMAIN ChosenRays \ RaysKept : \E s \in RaysKept \ Flat(ChosenRays, Chosen) :
          Touched(ChosenRays[r], Chosen) \subseteq Touched(ChosenRays[s], Chosen)
    BY <1>14
  <2>2. Alive(Chosen, ChosenRays, q)
    BY <1>9
  <2> QED BY <1>10, <1>13, <1>14, <2>1, <2>2, SelectionMeans
<1>16. Reduced(Mat', NbEq2, NbEq)
  BY <1>1, ReducedSame DEF Selected
<1>17. Selected(q)'
  <2>1. NbEq' = NbEq /\ NbEq2' = NbEq2 /\ NbBid' = NbBid /\ NbBid2' = NbBid2 /\ Ray' = Ray /\ Reduced(Ray, NbBid2, NbBid)
    BY DEF Selected
  <2> QED BY <1>7, <1>8, <1>9, <1>15, <1>16, <2>1 DEF Selected, K
<1>18. RowsListed(j)'
  <2>1. \A x \in 0 .. NbEq2 - 1 : x \in 0 .. m - 1 /\ x # j
    BY <1>1
  <2>2. \A d2 \in Irredundants : d2 < j => d2 \in Irredundants' /\ d2 < j + 1 /\ Mat'[d2] = Mat[d2]
    BY <1>1, <1>2, <1>3, <1>4
  <2>3. \A d2 \in Irredundants' : d2 < j + 1 => d2 \in Irredundants /\ d2 < j /\ Mat'[d2] = Mat[d2]
    BY <1>1, <1>2, <1>3, <1>4
  <2> QED BY <1>3, <2>1, <2>2, <2>3 DEF RowsListed
<1>19. LinesListed'
  BY DEF LinesListed
<1> QED BY <1>17, <1>18, <1>19

\* Step 9: a row that is left out saturates no more than another one that stays.
LEMMA KeepConstraintMeans ==
  ASSUME pc = "step9", InStep9, KeepConstraint, NEW q, Selected(q), RowsListed(j), LinesListed
  PROVE  pc' = "step9" /\ InStep9' /\ (Selected(q) /\ RowsListed(j) /\ LinesListed)'
<1> DEFINE m == NbConstraints
<1>1. pc' = "step9" /\ InStep9' /\ Same(Mat, Mat', m) /\ m' = m
  BY KeepConstraintStep
<1>2. j' = j + 1 /\ UNCHANGED <<Ray, NbRay, NbBid, NbBid2, NbEq, NbEq2>>
  BY DEF KeepConstraint, counts
<1>3. Separated /\ j \in NbEq..m /\ NbEq \in 0..m /\ m \in Nat
  BY DEF InStep9, Building, Separated, ReduceTyped
<1>4. \A c \in Irredundants : c \in 0 .. m - 1
  BY <1>3, ChosenFacts
<1>5. CASE Mat' = Mat
  <2>1. Irredundants' = Irredundants /\ Wide' = Wide /\ Generators' = Generators
    BY <1>1, <1>2, <1>5 DEF Irredundants, Generators, Wide
  <2>2. Chosen' = Chosen /\ ChosenRays' = ChosenRays
    BY <1>2, <2>1 DEF Chosen, ChosenRays, RowsKept, RaysKept
  <2>3. Selected(q)'
    BY <1>2, <1>5, <2>2 DEF Selected
  <2>4. CASE j \notin Irredundants
    <3>1. Pol' = Pol
      BY <2>4 DEF KeepConstraint
    <3>2. \A d \in Irredundants : d < j + 1 <=> d < j
      BY <1>3, <1>4, <2>4
    <3>3. RowsListed(j)'
      BY <1>2, <1>5, <2>1, <3>1, <3>2 DEF RowsListed
    <3>4. LinesListed'
      BY <1>2, <3>1 DEF LinesListed
    <3> QED BY <1>1, <2>3, <3>3, <3>4
  <2>5. CASE j \in Irredundants
    <3>1. ~ConstraintRedundant(j)
      <4> SUFFICES ASSUME ConstraintRedundant(j) PROVE FALSE
        OBVIOUS
      <4>1. Mat' = [Mat EXCEPT ![j][0] = 2] /\ Mat[j][0] = 1 /\ j \in 0 .. m - 1
        BY <1>4, <2>5 DEF KeepConstraint, Irredundants
      <4>2. DOMAIN Mat = 0 .. m - 1 /\ Mat[j] \in IntRow
        BY <1>1, <4>1 DEF Same, MatrixOf
      <4>3. 0 \in DOMAIN Mat[j]
        BY <4>2, DimensionAssumption DEF IntRow
      <4>4. Mat'[j][0] = 2
        BY <4>1, <4>2, <4>3
      <4> QED BY <1>5, <4>1, <4>4
    <3> DEFINE P == Pol.Constraint
               p == Mat[j]
    <3>2. Pol' = [Pol EXCEPT !.Constraint = Appended(@, p)]
      BY <2>5, <3>1 DEF KeepConstraint
    <3>3. IsRecord(Pol) /\ IsMatrix(P) /\ p \in IntRow /\ NbEq2 \in 0..Length(P)
      <4>1. IsRecord(Pol) /\ IsMatrix(P) /\ NbEq2 \in 0..Length(P)
        BY DEF InStep9, Building, IsPolyhedron
      <4>2. p \in IntRow
        BY <1>1, <1>4, <2>5 DEF Same, MatrixOf
      <4> QED BY <4>1, <4>2
    <3>4. Pol'.Constraint = Appended(P, p) /\ Pol'.Ray = Pol.Ray
      BY <3>2, <3>3 DEF IsRecord
    <3> DEFINE L == Length(P)
               N == Pol'.Constraint
    <3>5. Length(N) = L + 1 /\ N[L] = p /\ L \in Nat /\ \A x \in 0 .. L - 1 : N[x] = P[x]
      BY <3>3, <3>4, AppendedIs, MatrixIs
    <3> HIDE DEF P, L, N
    <3>6. \A x \in 0 .. NbEq2 - 1 : x \in 0 .. L - 1
      BY <3>3, <3>5 DEF L
    <3>7. NbEq2 \in Nat /\ NbEq2 <= L
      BY <3>3, <3>5 DEF L
    <3>8. RowsListed(j)'
      <4>1. \A x \in 0 .. NbEq2 - 1 : N[x] = Mat[x] /\ Mat[x][0] = 0
        BY <3>5, <3>6 DEF RowsListed, P
      <4>2. ASSUME NEW x \in NbEq2 .. (L + 1) - 1 PROVE \E d \in Irredundants : d < j + 1 /\ N[x] = Mat[d]
        <5>1. x = L \/ (x \in 0 .. L - 1 /\ x \in NbEq2 .. L - 1)
          BY <3>5, <3>7
        <5>2. CASE x = L
          BY <1>3, <2>5, <3>5, <5>2
        <5>3. CASE x \in 0 .. L - 1 /\ x \in NbEq2 .. L - 1
          <6>1. PICK d \in Irredundants : d < j /\ P[x] = Mat[d]
            BY <5>3 DEF RowsListed, P, L
          <6>2. d < j + 1
            BY <1>3, <1>4, <6>1
          <6> QED BY <3>5, <5>3, <6>1, <6>2
        <5> QED BY <5>1, <5>2, <5>3
      <4>3. ASSUME NEW d \in Irredundants, d < j + 1 PROVE \E x \in NbEq2 .. (L + 1) - 1 : N[x] = Mat[d]
        <5>1. d = j \/ d < j
          BY <1>3, <1>4, <4>3
        <5>2. CASE d = j
          <6>1. L \in NbEq2 .. (L + 1) - 1
            BY <3>5, <3>7
          <6> QED BY <3>5, <5>2, <6>1
        <5>3. CASE d < j
          <6>1. PICK x \in NbEq2 .. L - 1 : P[x] = Mat[d]
            BY <5>3 DEF RowsListed, P, L
          <6>2. x \in 0 .. L - 1 /\ x \in NbEq2 .. (L + 1) - 1
            BY <3>5, <3>7
          <6> QED BY <3>5, <6>1, <6>2
        <5> QED BY <5>1, <5>2, <5>3
      <4>4. Length(Pol'.Constraint) = L + 1
        BY <3>5 DEF N
      <4> QED BY <1>2, <1>5, <2>1, <4>1, <4>2, <4>3, <4>4 DEF RowsListed, N
    <3>9. LinesListed'
      BY <1>2, <3>4 DEF LinesListed
    <3> QED BY <1>1, <2>3, <3>8, <3>9
  <2> QED BY <2>4, <2>5
<1>6. CASE Mat' # Mat
  <2>1. j \in Irredundants /\ ConstraintRedundant(j) /\ Mat' = [Mat EXCEPT ![j][0] = 2] /\ Pol' = Pol
    BY <1>6 DEF KeepConstraint
  <2> QED BY <1>1, <1>2, <2>1, RowDropped
<1> QED BY <1>5, <1>6

\* The test of step 10, read as inner products.
LEMMA CoveredRays ==
  ASSUME Separated, NEW q, Selected(q), NEW r \in Generators, NEW s \in Generators
  PROVE  /\ Zeros(Ray[r], Chosen) \subseteq Zeros(Ray[s], Chosen) <=>
              /\ AtInfinity(Ray[r]) => AtInfinity(Ray[s])
              /\ \A c \in Irredundants : Saturates(r, c) => Saturates(s, c)
         /\ Touched(ChosenRays[r], Chosen) = Zeros(Ray[r], Chosen)
<1>1. /\ IsFamily(Chosen) /\ DOMAIN Chosen = RowsKept /\ Chosen[-1] = PositivityRow
      /\ DOMAIN ChosenRays = RaysKept /\ IsFamily(ChosenRays)
      /\ \A c \in Irredundants : c \in RowsKept /\ c \in ConstraintRows /\ Chosen[c] = Mat[c]
      /\ \A e \in Generators : e \in RaysKept /\ e \in AllRays /\ ChosenRays[e] = Ray[e]
  BY ChosenFacts DEF AllRays, ConstraintRows
<1>2. /\ ReduceTyped /\ BitsKnown /\ Exact(Chosen, ChosenRays) /\ Exact(ChosenRays, Chosen)
      /\ Flat(Chosen, ChosenRays) = 0 .. NbEq - 1 /\ -1 \in RowsKept
  <2>1. ReduceTyped /\ BitsKnown /\ Exact(Chosen, ChosenRays) /\ Flat(Chosen, ChosenRays) = 0 .. NbEq - 1
    BY DEF Separated, Selected, Alive, Means
  <2> QED BY <2>1, ExactSwapped DEF RowsKept
<1>3. ASSUME NEW e \in Generators
      PROVE  /\ Ray[e] \in IntRow
             /\ \A c \in 0 .. NbEq - 1 : c \in RowsKept => InnerProduct(Ray[e], Chosen[c]) = 0
             /\ InnerProduct(Ray[e], Chosen[-1]) = 0 <=> AtInfinity(Ray[e])
             /\ \A c \in Irredundants : InnerProduct(Ray[e], Chosen[c]) = 0 <=> Saturates(e, c)
             /\ \A c \in RowsKept : c \in Zeros(Ray[e], Chosen) <=> InnerProduct(Ray[e], Chosen[c]) = 0
  <2>1. Ray[e] \in IntRow /\ e \in DOMAIN ChosenRays /\ ChosenRays[e] = Ray[e] /\ e \in AllRays
    BY <1>1 DEF IsFamily
  <2>2. ASSUME NEW c \in 0 .. NbEq - 1, c \in RowsKept PROVE InnerProduct(Ray[e], Chosen[c]) = 0
    <3>1. c \in Flat(Chosen, ChosenRays)
      BY <1>2, <2>2
    <3> QED BY <2>1, <3>1 DEF Flat
  <2>3. InnerProduct(Ray[e], Chosen[-1]) = 0 <=> AtInfinity(Ray[e])
    BY <1>1, <2>1, PositivityProduct DEF AtInfinity
  <2>4. \A c \in Irredundants : InnerProduct(Ray[e], Chosen[c]) = 0 <=> Saturates(e, c)
    BY <1>1, <1>2, <2>1, SaturatesIs
  <2>5. \A c \in RowsKept : c \in Zeros(Ray[e], Chosen) <=> InnerProduct(Ray[e], Chosen[c]) = 0
    BY <1>1 DEF Zeros
  <2> QED BY <2>1, <2>2, <2>3, <2>4, <2>5
<1>4. \A e \in Generators : Zeros(Ray[e], Chosen) \subseteq RowsKept
  BY <1>1 DEF Zeros
<1>5. RowsKept = (0 .. NbEq - 1) \cup {-1} \cup Irredundants
  BY DEF RowsKept
<1>6. ASSUME Zeros(Ray[r], Chosen) \subseteq Zeros(Ray[s], Chosen)
      PROVE  (AtInfinity(Ray[r]) => AtInfinity(Ray[s])) /\ \A c \in Irredundants : Saturates(r, c) => Saturates(s, c)
  <2>1. AtInfinity(Ray[r]) => AtInfinity(Ray[s])
    BY <1>2, <1>3, <1>6
  <2>2. ASSUME NEW c \in Irredundants, Saturates(r, c) PROVE Saturates(s, c)
    <3>1. c \in RowsKept
      BY <1>1
    <3> QED BY <1>3, <1>6, <2>2, <3>1
  <2> QED BY <2>1, <2>2
<1>7. ASSUME AtInfinity(Ray[r]) => AtInfinity(Ray[s]), \A c \in Irredundants : Saturates(r, c) => Saturates(s, c)
      PROVE  Zeros(Ray[r], Chosen) \subseteq Zeros(Ray[s], Chosen)
  <2>1. ASSUME NEW c \in RowsKept, InnerProduct(Ray[r], Chosen[c]) = 0
        PROVE  InnerProduct(Ray[s], Chosen[c]) = 0
    <3>1. CASE c \in 0 .. NbEq - 1
      BY <1>3, <3>1
    <3>2. CASE c = -1
      BY <1>3, <1>7, <2>1, <3>2
    <3>3. CASE c \in Irredundants
      BY <1>3, <1>7, <2>1, <3>3
    <3> QED BY <1>5, <3>1, <3>2, <3>3
  <2> QED BY <1>3, <1>4, <2>1
<1>8. Touched(ChosenRays[r], Chosen) = Zeros(Ray[r], Chosen)
  BY <1>1, <1>3, TouchedZeros
<1> QED BY <1>6, <1>7, <1>8

\* Step 10: the rays of Pol are those among the first c that are kept.
RaysListed(c) ==
  /\ \A x \in NbBid2 .. Length(Pol.Ray) - 1 : \E s \in Generators : s < c /\ Pol.Ray[x] = Ray[s]
  /\ \A s \in Generators : s < c =>
       \E x \in NbBid2 .. Length(Pol.Ray) - 1 : Pol.Ray[x] = Ray[s]

\* None of the first c is below another one that is left.
Apart(c) ==
  /\ \A r \in Generators, s \in Generators :
       r < c /\ Zeros(Ray[r], Chosen) \subseteq Zeros(Ray[s], Chosen) => s = r
  /\ \A x \in NbBid2 .. Length(Pol.Ray) - 1, y \in NbBid2 .. Length(Pol.Ray) - 1 :
       Zeros(Pol.Ray[x], Chosen) \subseteq Zeros(Pol.Ray[y], Chosen) => y = x

\* Step 10, in front of ray i.
Listing(q) ==
  Selected(q) /\ RowsListed(NbConstraints) /\ LinesListed /\ RaysListed(i) /\ Apart(i)

\* Between steps 9 and 10.
LEMMA StartRaysMeans ==
  ASSUME InStep9, StartRays, NEW q, Selected(q), RowsListed(j), LinesListed
  PROVE  pc' = "step10" /\ InStep10' /\ Listing(q)'
<1>1. pc' = "step10" /\ InStep10'
  BY StartRaysStep
<1>2. /\ i' = NbBid /\ j >= NbConstraints
      /\ UNCHANGED <<Mat, Ray, Sat, bits, NbRay, NbBid, NbBid2, NbEq, NbEq2, Pol>>
  BY DEF StartRays, reduceVars, counts
<1>3. /\ Separated /\ j \in NbEq..NbConstraints /\ NbEq \in 0..NbConstraints /\ NbConstraints \in Nat
      /\ DOMAIN Pol.Ray = 0 .. NbBid2 - 1 /\ NbBid2 \in 0..NbBid /\ NbBid \in 0..NbRay /\ NbRay \in Nat /\ IsMatrix(Pol.Ray)
  BY DEF InStep9, Building, IsPolyhedron, Separated, ReduceTyped
<1>4. j = NbConstraints
  BY <1>2, <1>3
<1>5. NbConstraints' = NbConstraints /\ Wide' = Wide /\ Irredundants' = Irredundants /\ Generators' = Generators
  BY <1>2 DEF NbConstraints, Wide, Irredundants, Generators
<1>6. Chosen' = Chosen /\ ChosenRays' = ChosenRays
  BY <1>2, <1>5 DEF Chosen, ChosenRays, RowsKept, RaysKept
<1>7. Selected(q)' /\ LinesListed'
  BY <1>2, <1>6 DEF Selected, LinesListed
<1>8. RowsListed(NbConstraints)'
  BY <1>2, <1>4, <1>5 DEF RowsListed
<1>9. Length(Pol.Ray) = NbBid2
  <2>1. NbBid2 \in Nat
    BY <1>3
  <2> QED BY <1>3, <2>1, CountTo DEF Length
<1>10. NbBid2 .. NbBid2 - 1 = {} /\ \A s \in Generators : ~(s < NbBid)
  BY <1>3 DEF Generators
<1>11. RaysListed(i)' /\ Apart(i)'
  BY <1>2, <1>5, <1>9, <1>10 DEF RaysListed, Apart
<1> QED BY <1>1, <1>7, <1>8, <1>11 DEF Listing

\* The ray at i is redundant: it gets another status.
LEMMA RayDropped ==
  ASSUME InStep10, NEW q, Listing(q), i \in Generators, RayRedundant(i), Ray' = [Ray EXCEPT ![i][0] = 2],
         Same(Ray, Ray', NbRay), i' = i + 1,
         UNCHANGED <<Mat, NbRay, NbBid, NbBid2, NbEq, NbEq2, Pol>>
  PROVE  Listing(q)'
<1> DEFINE n == NbRay
<1>1. /\ Separated /\ NbBid \in 0..n /\ NbBid2 \in 0..NbBid /\ n \in Nat /\ Ray \in MatrixOf(n) /\ i \in NbBid..n
  BY DEF InStep10, Building, Separated, ReduceTyped
<1>2. /\ DOMAIN Chosen = RowsKept /\ DOMAIN ChosenRays = RaysKept
      /\ \A r \in Generators : r \in RaysKept /\ r \in 0 .. n - 1 /\ r \notin 0 .. NbBid - 1
      /\ \A r \in 0 .. NbBid - 1 : r \in RaysKept /\ r \in 0 .. n - 1
  BY <1>1, ChosenFacts
<1>3. Ray'[i][0] = 2 /\ \A r \in 0 .. n - 1 : r # i => Ray'[r] = Ray[r]
  <2>1. i \in 0 .. n - 1
    BY <1>2
  <2>2. DOMAIN Ray = 0 .. n - 1 /\ Ray[i] \in IntRow
    BY <1>1, <2>1 DEF MatrixOf
  <2>3. 0 \in DOMAIN Ray[i]
    BY <2>2, DimensionAssumption DEF IntRow
  <2>4. Ray'[i] = [Ray[i] EXCEPT ![0] = 2]
    BY <2>1, <2>2
  <2> QED BY <2>2, <2>3, <2>4
<1>4. Generators' = Generators \ {i} /\ NbConstraints' = NbConstraints /\ Irredundants' = Irredundants
  BY <1>2, <1>3 DEF Generators, Irredundants, NbConstraints
<1>5. RaysKept' = RaysKept \ {i} /\ Chosen' = Chosen
  <2>1. Wide' = Wide /\ RowsKept' = RowsKept
    BY <1>4 DEF Wide, RowsKept
  <2>2. RaysKept' = RaysKept \ {i}
    BY <1>2, <1>4 DEF RaysKept
  <2> QED BY <2>1, <2>2 DEF Chosen
<1> DEFINE L == RaysKept'
<1>6. ChosenRays' = Only(ChosenRays, L) /\ Only(Chosen, RowsKept) = Chosen
  <2>1. \A r \in L : r \in RaysKept /\ r \in 0 .. n - 1 /\ r # i
    <3>1. RaysKept \subseteq 0 .. n - 1
      BY <1>2 DEF RaysKept
    <3> QED BY <1>5, <3>1
  <2>2. \A r \in L : Ray'[r] = ChosenRays[r]
    BY <1>3, <2>1 DEF ChosenRays, Only
  <2> HIDE DEF L
  <2>3. Only(Ray', L) = Only(ChosenRays, L)
    BY <2>2 DEF Only
  <2>4. Only(Chosen, RowsKept) = Chosen
    BY DEF Chosen, Only
  <2> QED BY <2>3, <2>4 DEF ChosenRays, L
<1>7. Selected(q)
  BY DEF Listing
<1>8. Alive(Chosen, ChosenRays, q) /\ Flat(Chosen, ChosenRays) = 0 .. NbEq - 1 /\ Flat(ChosenRays, Chosen) = 0 .. NbBid - 1
  BY <1>7 DEF Selected
<1>9. /\ Flat(ChosenRays, Chosen) \subseteq L /\ L \subseteq DOMAIN ChosenRays
  BY <1>2, <1>5, <1>8
<1>10. PICK s \in Generators \ {i} : /\ AtInfinity(Ray[i]) => AtInfinity(Ray[s])
                                     /\ \A c \in Irredundants : Saturates(i, c) => Saturates(s, c)
  BY DEF RayRedundant
<1>11. Touched(ChosenRays[i], Chosen) \subseteq Touched(ChosenRays[s], Chosen)
  BY <1>1, <1>7, <1>10, CoveredRays
<1>12. \A r \in DOMAIN ChosenRays \ L : \E e \in L \ Flat(ChosenRays, Chosen) :
         Touched(ChosenRays[r], Chosen) \subseteq Touched(ChosenRays[e], Chosen)
  <2>1. \A r \in DOMAIN ChosenRays \ L : r = i
    BY <1>2, <1>5
  <2>2. s \in L \ Flat(ChosenRays, Chosen)
    BY <1>2, <1>5, <1>8, <1>10
  <2> QED BY <1>11, <2>1, <2>2
<1>13. /\ Flat(Chosen, ChosenRays) \subseteq RowsKept /\ RowsKept \subseteq DOMAIN Chosen /\ -1 \in RowsKept
       /\ \A c \in DOMAIN Chosen \ RowsKept : \E e \in RowsKept \ Flat(Chosen, ChosenRays) :
            Touched(Chosen[c], ChosenRays) \subseteq Touched(Chosen[e], ChosenRays)
  BY <1>2 DEF Flat, RowsKept
<1> HIDE DEF L
<1>14. /\ Alive(Only(Chosen, RowsKept), Only(ChosenRays, L), q)
       /\ Flat(Only(Chosen, RowsKept), Only(ChosenRays, L)) = Flat(Chosen, ChosenRays)
       /\ Flat(Only(ChosenRays, L), Only(Chosen, RowsKept)) = Flat(ChosenRays, Chosen)
  <2>1. Alive(Chosen, ChosenRays, q)
    BY <1>8
  <2> QED BY <1>9, <1>12, <1>13, <2>1, SelectionMeans
<1>15. Reduced(Ray', NbBid2, NbBid)
  BY <1>1, <1>7, ReducedSame DEF Selected
<1>16. Selected(q)'
  <2>1. NbEq' = NbEq /\ NbEq2' = NbEq2 /\ NbBid' = NbBid /\ NbBid2' = NbBid2 /\ Mat' = Mat /\ Reduced(Mat, NbEq2, NbEq)
    BY <1>7 DEF Selected
  <2> QED BY <1>5, <1>6, <1>8, <1>14, <1>15, <2>1 DEF Selected, L
<1>17. RowsListed(NbConstraints)'
  BY <1>4 DEF Listing, RowsListed
<1>18. LinesListed'
  <2>1. \A x \in 0 .. NbBid2 - 1 : x \in 0 .. n - 1 /\ x # i
    BY <1>1
  <2> QED BY <1>3, <2>1 DEF Listing, LinesListed
<1>19. /\ \A s2 \in Generators : s2 < i => s2 \in Generators' /\ s2 < i + 1 /\ Ray'[s2] = Ray[s2]
       /\ \A s2 \in Generators' : s2 \in Generators /\ Ray'[s2] = Ray[s2] /\ (s2 < i + 1 => s2 < i)
  BY <1>1, <1>2, <1>3, <1>4
<1>20. RaysListed(i)'
  <2>1. Pol' = Pol /\ NbBid2' = NbBid2 /\ i' = i + 1 /\ RaysListed(i)
    BY DEF Listing
  <2> QED BY <1>19, <2>1 DEF RaysListed
<1>21. Apart(i)'
  <2>1. Pol' = Pol /\ NbBid2' = NbBid2 /\ i' = i + 1 /\ Apart(i)
    BY DEF Listing
  <2> QED BY <1>5, <1>19, <2>1 DEF Apart
<1> QED BY <1>16, <1>17, <1>18, <1>20, <1>21 DEF Listing

\* Step 10: the same for a ray.
LEMMA KeepRayMeans ==
  ASSUME pc = "step10", InStep10, KeepRay, NEW q, Listing(q)
  PROVE  pc' = "step10" /\ InStep10' /\ Listing(q)'
<1> DEFINE n == NbRay
<1>1. pc' = "step10" /\ InStep10' /\ Same(Ray, Ray', n)
  BY KeepRayStep
<1>2. i' = i + 1 /\ UNCHANGED <<Mat, NbRay, NbBid, NbBid2, NbEq, NbEq2>>
  BY DEF KeepRay, counts
<1>3. Separated /\ i \in NbBid..n /\ NbBid \in 0..n /\ n \in Nat
  BY DEF InStep10, Building, Separated, ReduceTyped
<1>4. \A r \in Generators : r \in 0 .. n - 1
  BY <1>3, ChosenFacts
<1>5. Selected(q) /\ RowsListed(NbConstraints) /\ LinesListed /\ RaysListed(i) /\ Apart(i)
  BY DEF Listing
<1>6. CASE Ray' = Ray
  <2>1. Irredundants' = Irredundants /\ Wide' = Wide /\ Generators' = Generators /\ NbConstraints' = NbConstraints
    BY <1>2, <1>6 DEF Irredundants, Generators, Wide, NbConstraints
  <2>2. Chosen' = Chosen /\ ChosenRays' = ChosenRays
    BY <1>6, <2>1, <1>2 DEF Chosen, ChosenRays, RowsKept, RaysKept
  <2>3. Selected(q)'
    BY <1>2, <1>5, <1>6, <2>2 DEF Selected
  <2>4. CASE i \notin Generators
    <3>1. Pol' = Pol
      BY <2>4 DEF KeepRay
    <3>2. \A r \in Generators : r < i + 1 <=> r < i
      BY <1>3, <1>4, <2>4
    <3>3. RowsListed(NbConstraints)' /\ LinesListed'
      BY <1>2, <1>5, <1>6, <2>1, <3>1 DEF RowsListed, LinesListed
    <3>4. RaysListed(i)'
      BY <1>2, <1>5, <1>6, <2>1, <3>1, <3>2 DEF RaysListed
    <3>5. Apart(i)'
      BY <1>2, <1>5, <1>6, <2>1, <2>2, <3>1, <3>2 DEF Apart
    <3> QED BY <1>1, <2>3, <3>3, <3>4, <3>5 DEF Listing
  <2>5. CASE i \in Generators
    <3>1. ~RayRedundant(i)
      <4> SUFFICES ASSUME RayRedundant(i) PROVE FALSE
        OBVIOUS
      <4>1. Ray' = [Ray EXCEPT ![i][0] = 2] /\ Ray[i][0] = 1 /\ i \in 0 .. n - 1
        BY <1>4, <2>5 DEF KeepRay, Generators
      <4>2. DOMAIN Ray = 0 .. n - 1 /\ Ray[i] \in IntRow
        BY <1>1, <4>1 DEF Same, MatrixOf
      <4>3. 0 \in DOMAIN Ray[i]
        BY <4>2, DimensionAssumption DEF IntRow
      <4>4. Ray'[i][0] = 2
        BY <4>1, <4>2, <4>3
      <4> QED BY <1>6, <4>1, <4>4
    <3> DEFINE P == Pol.Ray
               p == Ray[i]
    <3>2. Pol' = [Pol EXCEPT !.Ray = Appended(@, p)]
      BY <2>5, <3>1 DEF KeepRay
    <3>3. IsRecord(Pol) /\ IsMatrix(P) /\ p \in IntRow /\ NbBid2 \in 0..Length(P)
      <4>1. IsRecord(Pol) /\ IsMatrix(P) /\ NbBid2 \in 0..Length(P)
        BY DEF InStep10, Building, IsPolyhedron
      <4>2. p \in IntRow
        BY <1>1, <1>4, <2>5 DEF Same, MatrixOf
      <4> QED BY <4>1, <4>2
    <3>4. Pol'.Ray = Appended(P, p) /\ Pol'.Constraint = Pol.Constraint
      BY <3>2, <3>3 DEF IsRecord
    <3> DEFINE L == Length(P)
               N == Pol'.Ray
    <3>5. Length(N) = L + 1 /\ N[L] = p /\ L \in Nat /\ \A x \in 0 .. L - 1 : N[x] = P[x]
      BY <3>3, <3>4, AppendedIs, MatrixIs
    <3>6. Length(Pol'.Ray) = L + 1
      BY <3>5
    <3> HIDE DEF P, L, N
    <3>7. NbBid2 \in Nat /\ NbBid2 <= L
      BY <3>3, <3>5 DEF L
    <3>8. \A x \in 0 .. NbBid2 - 1 : x \in 0 .. L - 1
      BY <3>5, <3>7
    <3>9. \A x \in NbBid2 .. (L + 1) - 1 : x = L \/ (x \in 0 .. L - 1 /\ x \in NbBid2 .. L - 1)
      BY <3>5, <3>7
    <3>10. ASSUME NEW x \in NbBid2 .. (L + 1) - 1
           PROVE  \/ x = L /\ N[x] = Ray[i]
                  \/ x \in NbBid2 .. L - 1 /\ N[x] = P[x] /\ \E s \in Generators : s < i /\ N[x] = Ray[s]
      <4>1. CASE x = L
        BY <3>5, <4>1
      <4>2. CASE x \in 0 .. L - 1 /\ x \in NbBid2 .. L - 1
        <5>1. PICK s \in Generators : s < i /\ P[x] = Ray[s]
          BY <1>5, <4>2 DEF RaysListed, P, L
        <5> QED BY <3>5, <4>2, <5>1
      <4> QED BY <3>9, <4>1, <4>2
    <3>11. \A s \in Generators : (s < i + 1 <=> (s < i \/ s = i)) /\ (s < i => s # i)
      BY <1>3, <1>4, <2>5
    <3>12. RaysListed(i)'
      <4>1. \A x \in NbBid2 .. (L + 1) - 1 : \E s \in Generators : s < i + 1 /\ N[x] = Ray[s]
        BY <2>5, <3>10, <3>11
      <4>2. ASSUME NEW s \in Generators, s < i + 1 PROVE \E x \in NbBid2 .. (L + 1) - 1 : N[x] = Ray[s]
        <5>1. CASE s = i
          <6>1. L \in NbBid2 .. (L + 1) - 1
            BY <3>5, <3>7
          <6> QED BY <3>5, <5>1, <6>1
        <5>2. CASE s < i
          <6>1. PICK x \in NbBid2 .. L - 1 : P[x] = Ray[s]
            BY <1>5, <5>2 DEF RaysListed, P, L
          <6>2. x \in 0 .. L - 1 /\ x \in NbBid2 .. (L + 1) - 1
            BY <3>5, <3>7
          <6> QED BY <3>5, <6>1, <6>2
        <5> QED BY <3>11, <4>2, <5>1, <5>2
      <4> QED BY <1>2, <1>6, <2>1, <3>6, <4>1, <4>2 DEF RaysListed, N
    <3>13. \A r \in Generators, s \in Generators :
             r < i + 1 /\ Zeros(Ray[r], Chosen) \subseteq Zeros(Ray[s], Chosen) => s = r
      <4>1. ASSUME NEW s \in Generators, Zeros(Ray[i], Chosen) \subseteq Zeros(Ray[s], Chosen) PROVE s = i
        <5>1. /\ AtInfinity(Ray[i]) => AtInfinity(Ray[s])
              /\ \A c \in Irredundants : Saturates(i, c) => Saturates(s, c)
          BY <1>3, <1>5, <2>5, <4>1, CoveredRays
        <5> QED BY <3>1, <5>1 DEF RayRedundant
      <4>2. \A r \in Generators, s \in Generators :
              r < i /\ Zeros(Ray[r], Chosen) \subseteq Zeros(Ray[s], Chosen) => s = r
        BY <1>5 DEF Apart
      <4> QED BY <3>11, <4>1, <4>2
    <3>14. ASSUME NEW x \in NbBid2 .. (L + 1) - 1, NEW y \in NbBid2 .. (L + 1) - 1,
                  Zeros(N[x], Chosen) \subseteq Zeros(N[y], Chosen)
           PROVE  y = x
      <4>1. CASE x = L /\ y = L
        BY <4>1
      <4>2. CASE x = L /\ y # L
        <5>1. PICK s \in Generators : s < i /\ N[y] = Ray[s]
          BY <3>10, <4>2
        <5>2. s = i
          BY <2>5, <3>5, <3>11, <3>13, <3>14, <4>2, <5>1
        <5> QED BY <3>11, <5>1, <5>2
      <4>3. CASE x # L /\ y = L
        <5>1. PICK s \in Generators : s < i /\ N[x] = Ray[s]
          BY <3>10, <4>3
        <5>2. s = i
          BY <2>5, <3>5, <3>11, <3>13, <3>14, <4>3, <5>1
        <5> QED BY <3>11, <5>1, <5>2
      <4>4. CASE x # L /\ y # L
        <5>1. x \in NbBid2 .. L - 1 /\ N[x] = P[x] /\ y \in NbBid2 .. L - 1 /\ N[y] = P[y]
          BY <3>10, <4>4
        <5> QED BY <1>5, <3>14, <5>1 DEF Apart, P, L
      <4> QED BY <4>1, <4>2, <4>3, <4>4
    <3>15. Apart(i)'
      BY <1>2, <1>6, <2>1, <2>2, <3>6, <3>13, <3>14 DEF Apart, N
    <3>16. LinesListed'
      BY <1>2, <1>5, <1>6, <3>5, <3>8 DEF LinesListed, N, P
    <3>17. RowsListed(NbConstraints)'
      BY <1>2, <1>5, <2>1, <3>4 DEF RowsListed
    <3> QED BY <1>1, <2>3, <3>12, <3>15, <3>16, <3>17 DEF Listing
  <2> QED BY <2>4, <2>5
<1>7. CASE Ray' # Ray
  <2>1. i \in Generators /\ RayRedundant(i) /\ Ray' = [Ray EXCEPT ![i][0] = 2] /\ Pol' = Pol
    BY <1>7 DEF KeepRay
  <2>2. Listing(q)'
    BY <1>1, <1>2, <2>1, RayDropped
  <2> QED BY <1>1, <2>2
<1> QED BY <1>6, <1>7

-----------------------------------------------------------------------------
(* The end: Pol.                                                           *)

\* Rows and rays listed elsewhere, in another order and without those that
\* are zero: C and Q for A and R, E the equalities of C and F the lines of Q.
Lists(A, R, C, Q, E, F) ==
  /\ IsFamily(C) /\ -1 \in DOMAIN C /\ C[-1] = PositivityRow /\ E \subseteq DOMAIN C
  /\ \A b \in DOMAIN C : \E a \in DOMAIN A : Alike(C[b], A[a]) /\ (a \in Flat(A, R) <=> b \in E)
  /\ \A a \in DOMAIN A : \/ \E b \in DOMAIN C : Alike(C[b], A[a])
                         \/ \A x \in IntRow : InnerProduct(x, A[a]) = 0
  /\ IsFamily(Q) /\ F \subseteq DOMAIN Q
  /\ \A y \in DOMAIN Q : \E r \in DOMAIN R : Q[y] = R[r] /\ (r \in Flat(R, A) <=> y \in F)
  /\ \A r \in DOMAIN R : \/ \E y \in DOMAIN Q : Q[y] = R[r]
                         \/ \A x \in IntRow : InnerProduct(x, R[r]) = 0

\* Rows listed in another order, equalities once, mean the same.
LEMMA ListedMeans ==
  ASSUME NEW A, NEW R, NEW q, Alive(A, R, q), NEW C, NEW Q, NEW E, NEW F, Lists(A, R, C, Q, E, F)
  PROVE  /\ Alive(C, Q, q) /\ Flat(C, Q) = E /\ Flat(Q, C) = F
         /\ \A p \in IntRow, z \in IntRow : Zeros(p, C) \subseteq Zeros(z, C) => Zeros(p, A) \subseteq Zeros(z, A)
<1> IsFamily(C) /\ -1 \in DOMAIN C /\ C[-1] = PositivityRow /\ E \subseteq DOMAIN C
  BY DEF Lists
<1> \A b \in DOMAIN C : \E a \in DOMAIN A : Alike(C[b], A[a]) /\ (a \in Flat(A, R) <=> b \in E)
  BY DEF Lists
<1> \A a \in DOMAIN A : \/ \E b \in DOMAIN C : Alike(C[b], A[a])
                        \/ \A x \in IntRow : InnerProduct(x, A[a]) = 0
  BY DEF Lists
<1> IsFamily(Q) /\ F \subseteq DOMAIN Q
  BY DEF Lists
<1> \A y \in DOMAIN Q : \E r \in DOMAIN R : Q[y] = R[r] /\ (r \in Flat(R, A) <=> y \in F)
  BY DEF Lists
<1> \A r \in DOMAIN R : \/ \E y \in DOMAIN Q : Q[y] = R[r]
                        \/ \A x \in IntRow : InnerProduct(x, R[r]) = 0
  BY DEF Lists
<1>1. Means(A, R, q) /\ Exact(A, R) /\ -1 \notin Flat(A, R) /\ IsFamily(A) /\ IsFamily(R)
  BY DEF Alive, Means, Exact, Tight
<1>2. \A b \in DOMAIN C : \E a \in DOMAIN A : Alike(C[b], A[a])
  OBVIOUS
<1>3. Replaces(C, A, R)
  BY <1>1, <1>2, ExactRows
<1>4. Means(C, R, q) /\ (-1 \in Flat(C, R) <=> -1 \in Flat(A, R))
  BY <1>1, <1>3, MeansRows
<1>5. Exact(R, C) /\ Flat(R, C) = Flat(R, A)
  BY <1>3, ExactSwapped DEF Replaces
<1>6. Replaces(Q, R, C)
  <2>1. \A y \in DOMAIN Q : \E r \in DOMAIN R : Alike(Q[y], R[r])
    BY DEF Alike
  <2>2. \A r \in DOMAIN R : \/ \E y \in DOMAIN Q : Alike(Q[y], R[r])
                            \/ \A x \in IntRow : InnerProduct(x, R[r]) = 0
    BY DEF Alike
  <2> QED BY <1>5, <2>1, <2>2, ExactRows
<1>7. Means(C, Q, q) /\ Flat(C, Q) = Flat(C, R)
  BY <1>4, <1>6, MeansRays
<1>8. Alive(C, Q, q)
  BY <1>1, <1>4, <1>7 DEF Alive
<1>9. \A r \in DOMAIN R : R[r] \in IntRow
  BY <1>1 DEF IsFamily
<1>10. Flat(C, Q) = E
  <2>1. ASSUME NEW b \in DOMAIN C PROVE b \in Flat(C, R) <=> b \in E
    <3>1. PICK a \in DOMAIN A : Alike(C[b], A[a]) /\ (a \in Flat(A, R) <=> b \in E)
      OBVIOUS
    <3>2. a \in Flat(A, R) <=> b \in Flat(C, R)
      BY <1>9, <3>1 DEF Flat, Alike
    <3> QED BY <3>1, <3>2
  <2>2. Flat(C, R) \subseteq DOMAIN C
    BY DEF Flat
  <2> QED BY <1>7, <2>1, <2>2
<1>11. Flat(Q, C) = F
  <2>1. ASSUME NEW y \in DOMAIN Q PROVE y \in Flat(Q, C) <=> y \in F
    <3>1. PICK r \in DOMAIN R : Q[y] = R[r] /\ (r \in Flat(R, A) <=> y \in F)
      OBVIOUS
    <3>2. r \in Flat(R, C) <=> y \in Flat(Q, C)
      BY <3>1 DEF Flat
    <3> QED BY <1>5, <3>1, <3>2
  <2>2. Flat(Q, C) \subseteq DOMAIN Q
    BY DEF Flat
  <2> QED BY <2>1, <2>2
<1>12. ASSUME NEW p \in IntRow, NEW z \in IntRow, Zeros(p, C) \subseteq Zeros(z, C),
              NEW a \in DOMAIN A, InnerProduct(p, A[a]) = 0
       PROVE  InnerProduct(z, A[a]) = 0
  <2>1. CASE \E b \in DOMAIN C : Alike(C[b], A[a])
    <3>1. PICK b \in DOMAIN C : Alike(C[b], A[a])
      BY <2>1
    <3>2. b \in Zeros(p, C)
      BY <1>12, <3>1 DEF Zeros, Alike
    <3>3. InnerProduct(z, C[b]) = 0
      BY <1>12, <3>2 DEF Zeros
    <3> QED BY <3>1, <3>3 DEF Alike
  <2>2. CASE \A x \in IntRow : InnerProduct(x, A[a]) = 0
    BY <2>2
  <2> QED BY <2>1, <2>2
<1>13. \A p \in IntRow, z \in IntRow : Zeros(p, C) \subseteq Zeros(z, C) => Zeros(p, A) \subseteq Zeros(z, A)
  BY <1>12 DEF Zeros
<1> QED BY <1>8, <1>10, <1>11, <1>13

\* The rows of a polyhedron and the positivity constraint.
PolWide(P) == Family(P.Constraint, Length(P.Constraint), FALSE)

\* The rows of a polyhedron.
LEMMA PolRows ==
  ASSUME NEW P, IsPolyhedron(P)
  PROVE  /\ IsFamily(PolWide(P)) /\ DOMAIN PolWide(P) = 0 .. Length(P.Constraint) - 1 \cup {-1}
         /\ -1 \notin 0 .. Length(P.Constraint) - 1 /\ PolWide(P)[-1] = PositivityRow
         /\ \A c \in 0 .. Length(P.Constraint) - 1 : PolWide(P)[c] = P.Constraint[c] /\ P.Constraint[c] \in IntRow
         /\ DOMAIN P.Constraint = 0 .. Length(P.Constraint) - 1
         /\ IsFamily(P.Ray) /\ DOMAIN P.Ray = 0 .. Length(P.Ray) - 1
         /\ Length(P.Constraint) \in Nat /\ Length(P.Ray) \in Nat
         /\ P.NbEq \in 0..Length(P.Constraint) /\ P.NbBid \in 0..Length(P.Ray)
<1>1. /\ Length(P.Constraint) \in Nat /\ P.Constraint \in MatrixOf(Length(P.Constraint))
      /\ Length(P.Ray) \in Nat /\ P.Ray \in MatrixOf(Length(P.Ray))
      /\ P.NbEq \in 0..Length(P.Constraint) /\ P.NbBid \in 0..Length(P.Ray)
  BY MatrixIs DEF IsPolyhedron
<1>2. DOMAIN P.Constraint = 0 .. Length(P.Constraint) - 1
  BY <1>1 DEF MatrixOf
<1>3. IsFamily(P.Ray) /\ DOMAIN P.Ray = 0 .. Length(P.Ray) - 1
  BY <1>1, RowsAre
<1> QED BY <1>1, <1>2, <1>3, WideIs DEF PolWide

\* Both descriptions of P are complete, with equalities and lines first, and
\* none of its rays is below another.
Full(P) ==
  /\ IsPolyhedron(P) /\ Exact(PolWide(P), P.Ray)
  /\ Flat(PolWide(P), P.Ray) = 0 .. P.NbEq - 1 /\ Flat(P.Ray, PolWide(P)) = 0 .. P.NbBid - 1
  /\ \A c \in 0 .. P.NbEq - 1 : P.Constraint[c][0] = 0
  /\ \A r \in 0 .. P.NbBid - 1 : P.Ray[r][0] = 0
  /\ \A x \in P.NbBid .. Length(P.Ray) - 1, y \in P.NbBid .. Length(P.Ray) - 1 :
       Zeros(P.Ray[x], PolWide(P)) \subseteq Zeros(P.Ray[y], PolWide(P)) => y = x

\* P is Pol at the end of step 10, but perhaps for positivity constraints.
LEMMA PolListed ==
  ASSUME InStep10, NEW q, Listing(q), i = NbRay,
         NEW P, IsPolyhedron(P), P.NbEq = NbEq2, P.NbBid = NbBid2, P.Ray = Pol.Ray,
         Length(P.Constraint) >= Length(Pol.Constraint),
         \A x \in 0 .. Length(Pol.Constraint) - 1 : P.Constraint[x] = Pol.Constraint[x],
         \A x \in Length(Pol.Constraint) .. Length(P.Constraint) - 1 : Alike(P.Constraint[x], PositivityRow)
  PROVE  Full(P) /\ Alive(PolWide(P), P.Ray, q)
<1> DEFINE A == Chosen
           R == ChosenRays
           C == PolWide(P)
           Q == P.Ray
           L == Length(Pol.Constraint)
           M == Length(P.Constraint)
           n == Length(P.Ray)
<1>1. /\ IsFamily(C) /\ DOMAIN C = 0 .. M - 1 \cup {-1} /\ -1 \notin 0 .. M - 1 /\ C[-1] = PositivityRow
      /\ \A c \in 0 .. M - 1 : C[c] = P.Constraint[c]
      /\ IsFamily(Q) /\ DOMAIN Q = 0 .. n - 1
      /\ M \in Nat /\ n \in Nat /\ NbEq2 \in 0..M /\ NbBid2 \in 0..n
  BY PolRows
<1>2. /\ Separated /\ IsPolyhedron(Pol) /\ Pol.NbEq = NbEq2
      /\ NbEq2 \in 0..NbEq /\ NbBid2 \in 0..NbBid /\ NbEq \in Nat /\ NbBid \in Nat
      /\ NbConstraints \in Nat /\ NbRay \in Nat /\ NbEq \in 0..NbConstraints /\ NbBid \in 0..NbRay
  BY DEF InStep10, Building, Separated, ReduceTyped
<1>3. L \in Nat /\ NbEq2 \in 0..L
  BY <1>2, PolRows
<1>4. M >= L
  OBVIOUS
<1>5. /\ IsFamily(A) /\ DOMAIN A = RowsKept /\ A[-1] = PositivityRow
      /\ \A c \in 0 .. NbEq - 1 : c \in RowsKept /\ A[c] = Mat[c]
      /\ \A c \in Irredundants : c \in RowsKept /\ c \in 0 .. NbConstraints - 1 /\ A[c] = Mat[c] /\ c \notin 0 .. NbEq - 1
      /\ -1 \notin 0 .. NbEq - 1 /\ -1 \in RowsKept
      /\ IsFamily(R) /\ DOMAIN R = RaysKept
      /\ \A r \in 0 .. NbBid - 1 : r \in RaysKept /\ R[r] = Ray[r]
      /\ \A r \in Generators : r \in RaysKept /\ r \in 0 .. NbRay - 1 /\ R[r] = Ray[r] /\ r \notin 0 .. NbBid - 1
  BY <1>2, ChosenFacts DEF RowsKept
<1>6. Selected(q) /\ RowsListed(NbConstraints) /\ LinesListed /\ RaysListed(NbRay) /\ Apart(NbRay)
  BY DEF Listing
<1>7. Alive(A, R, q) /\ Flat(A, R) = 0 .. NbEq - 1 /\ Flat(R, A) = 0 .. NbBid - 1
  BY <1>6 DEF Selected
<1>8. Ranked(A, R, NbEq2) /\ Ranked(R, A, NbBid2)
  <2>1. Reduced(Mat, NbEq2, NbEq) /\ Reduced(Ray, NbBid2, NbBid)
    BY <1>6 DEF Selected
  <2> HIDE DEF A, R
  <2>2. Ranked(A, R, NbEq2)
    BY <1>2, <1>5, <1>7, <2>1, ReducedRanked
  <2>3. Ranked(R, A, NbBid2)
    BY <1>2, <1>5, <1>7, <2>1, ReducedRanked
  <2> QED BY <2>2, <2>3
<1> DEFINE E == 0 .. NbEq2 - 1
           F == 0 .. NbBid2 - 1
<1>9. E \subseteq DOMAIN C /\ F \subseteq DOMAIN Q /\ E \subseteq 0 .. NbEq - 1 /\ F \subseteq 0 .. NbBid - 1
  BY <1>1, <1>2
<1>10. \A x \in 0 .. L - 1 : x \in 0 .. M - 1 /\ C[x] = Pol.Constraint[x]
  BY <1>1, <1>3, <1>4
<1>11. \A x \in E : x \in 0 .. L - 1 /\ Pol.Constraint[x] = Mat[x] /\ Mat[x][0] = 0
  BY <1>3, <1>6 DEF RowsListed
<1>12. \A x \in F : Q[x] = Ray[x] /\ Ray[x][0] = 0
  BY <1>6 DEF LinesListed
<1>13. \A x \in 0 .. M - 1 : x \in E \/ x \in NbEq2 .. L - 1 \/ x \in L .. M - 1
  BY <1>1, <1>3, <1>4
<1>14. \A x \in NbEq2 .. L - 1 : x \in 0 .. L - 1 /\ x \notin E
  BY <1>3
<1>15. \A x \in L .. M - 1 : x \in 0 .. M - 1 /\ x \notin E
  BY <1>1, <1>3
<1>16. \A x \in 0 .. n - 1 : x \in F \/ (x \in NbBid2 .. n - 1 /\ x \notin F)
  BY <1>1
<1>17. \A x \in NbBid2 .. n - 1 : x \in 0 .. n - 1
  BY <1>1
<1> HIDE DEF A, R, C, Q, L, M, n, E, F
<1>18. ASSUME NEW b \in DOMAIN C
       PROVE  \E a \in DOMAIN A : Alike(C[b], A[a]) /\ (a \in Flat(A, R) <=> b \in E)
  <2>1. CASE b = -1
    <3>1. -1 \notin E
      BY <1>5, <1>9
    <3> QED BY <1>1, <1>5, <1>7, <2>1, <3>1 DEF Alike
  <2>2. CASE b \in E
    <3>1. b \in 0 .. NbEq - 1
      BY <1>9, <2>2
    <3>2. C[b] = A[b] /\ b \in DOMAIN A
      BY <1>5, <1>10, <1>11, <2>2, <3>1
    <3> QED BY <1>7, <2>2, <3>1, <3>2 DEF Alike
  <2>3. CASE b \in NbEq2 .. L - 1
    <3>1. PICK d \in Irredundants : Pol.Constraint[b] = Mat[d]
      BY <1>6, <2>3 DEF RowsListed, L
    <3>2. d \in DOMAIN A /\ C[b] = A[d] /\ d \notin Flat(A, R) /\ b \notin E
      BY <1>5, <1>7, <1>10, <1>14, <2>3, <3>1
    <3> QED BY <3>2 DEF Alike
  <2>4. CASE b \in L .. M - 1
    <3>1. Alike(P.Constraint[b], PositivityRow)
      BY <2>4 DEF L, M
    <3>2. Alike(C[b], A[-1]) /\ -1 \in DOMAIN A /\ -1 \notin Flat(A, R) /\ b \notin E
      BY <1>1, <1>5, <1>7, <1>15, <2>4, <3>1
    <3> QED BY <3>2
  <2> QED BY <1>1, <1>13, <2>1, <2>2, <2>3, <2>4
<1>19. ASSUME NEW a \in DOMAIN A
       PROVE  (\E b \in DOMAIN C : Alike(C[b], A[a])) \/ \A x \in IntRow : InnerProduct(x, A[a]) = 0
  <2>1. CASE a = -1
    BY <1>1, <1>5, <2>1 DEF Alike
  <2>2. CASE a \in E
    <3>1. a \in 0 .. NbEq - 1
      BY <1>9, <2>2
    <3>2. C[a] = A[a] /\ a \in DOMAIN C
      BY <1>5, <1>9, <1>10, <1>11, <2>2, <3>1
    <3> QED BY <3>2 DEF Alike
  <2>3. CASE a \in 0 .. NbEq - 1 /\ a \notin E
    BY <1>7, <1>8, <2>3 DEF Ranked, E
  <2>4. CASE a \in Irredundants
    <3>1. a < NbConstraints
      BY <1>2, <1>5, <2>4
    <3>2. PICK x \in NbEq2 .. L - 1 : Pol.Constraint[x] = Mat[a]
      BY <1>6, <2>4, <3>1 DEF RowsListed, L
    <3>3. C[x] = A[a] /\ x \in DOMAIN C
      BY <1>1, <1>5, <1>10, <1>14, <2>4, <3>2
    <3> QED BY <3>3 DEF Alike
  <2> QED BY <1>5, <2>1, <2>2, <2>3, <2>4 DEF RowsKept
<1>20. ASSUME NEW x \in NbBid2 .. n - 1 PROVE \E s \in Generators : Q[x] = Ray[s]
  BY <1>6, <1>20 DEF RaysListed, Q, n
<1>21. ASSUME NEW y \in DOMAIN Q PROVE \E r \in DOMAIN R : Q[y] = R[r] /\ (r \in Flat(R, A) <=> y \in F)
  <2>1. CASE y \in F
    <3>1. y \in 0 .. NbBid - 1
      BY <1>9, <2>1
    <3> QED BY <1>5, <1>7, <1>12, <2>1, <3>1
  <2>2. CASE y \in NbBid2 .. n - 1 /\ y \notin F
    <3>1. PICK s \in Generators : Q[y] = Ray[s]
      BY <1>20, <2>2
    <3> QED BY <1>5, <1>7, <2>2, <3>1
  <2> QED BY <1>1, <1>16, <2>1, <2>2
<1>22. ASSUME NEW r \in DOMAIN R
       PROVE  (\E y \in DOMAIN Q : Q[y] = R[r]) \/ \A x \in IntRow : InnerProduct(x, R[r]) = 0
  <2>1. CASE r \in F
    <3>1. r \in 0 .. NbBid - 1
      BY <1>9, <2>1
    <3> QED BY <1>5, <1>9, <1>12, <2>1, <3>1
  <2>2. CASE r \in 0 .. NbBid - 1 /\ r \notin F
    BY <1>7, <1>8, <2>2 DEF Ranked, F
  <2>3. CASE r \in Generators
    <3>1. r < NbRay
      BY <1>2, <1>5, <2>3
    <3>2. PICK x \in NbBid2 .. n - 1 : Q[x] = Ray[r]
      BY <1>6, <2>3, <3>1 DEF RaysListed, Q, n
    <3> QED BY <1>1, <1>5, <1>17, <2>3, <3>2
  <2> QED BY <1>5, <2>1, <2>2, <2>3 DEF RaysKept
<1>23. /\ Alive(C, Q, q) /\ Flat(C, Q) = E /\ Flat(Q, C) = F
       /\ \A p \in IntRow, z \in IntRow : Zeros(p, C) \subseteq Zeros(z, C) => Zeros(p, A) \subseteq Zeros(z, A)
  <2>1. -1 \in DOMAIN C
    BY <1>1
  <2>2. \A b \in DOMAIN C : \E a \in DOMAIN A : Alike(C[b], A[a]) /\ (a \in Flat(A, R) <=> b \in E)
    BY <1>18
  <2>3. \A a \in DOMAIN A : \/ \E b \in DOMAIN C : Alike(C[b], A[a])
                            \/ \A x \in IntRow : InnerProduct(x, A[a]) = 0
    BY <1>19
  <2>4. \A y \in DOMAIN Q : \E r \in DOMAIN R : Q[y] = R[r] /\ (r \in Flat(R, A) <=> y \in F)
    BY <1>21
  <2>5. \A r \in DOMAIN R : \/ \E y \in DOMAIN Q : Q[y] = R[r]
                            \/ \A x \in IntRow : InnerProduct(x, R[r]) = 0
    BY <1>22
  <2>6. Alive(A, R, q)
    BY <1>7
  <2>7. IsFamily(C) /\ C[-1] = PositivityRow /\ IsFamily(Q)
    BY <1>1
  <2>8. E \subseteq DOMAIN C /\ F \subseteq DOMAIN Q
    BY <1>9
  <2>9. Lists(A, R, C, Q, E, F)
    BY <2>1, <2>2, <2>3, <2>4, <2>5, <2>7, <2>8 DEF Lists
  <2> QED BY <2>6, <2>9, ListedMeans
<1>24. ASSUME NEW x \in NbBid2 .. n - 1, NEW y \in NbBid2 .. n - 1, Zeros(Q[x], C) \subseteq Zeros(Q[y], C)
       PROVE  y = x
  <2>1. Q[x] \in IntRow /\ Q[y] \in IntRow
    BY <1>1, <1>17 DEF IsFamily
  <2>2. Zeros(Q[x], A) \subseteq Zeros(Q[y], A)
    BY <1>23, <1>24, <2>1
  <2> QED BY <1>6, <2>2 DEF Apart, A, Q, n
<1>25. \A c \in E : P.Constraint[c][0] = 0
  BY <1>1, <1>10, <1>11
<1>26. Exact(C, Q)
  BY <1>23 DEF Alive, Means
<1>27. Full(P)
  BY <1>12, <1>23, <1>24, <1>25, <1>26 DEF Full, C, Q, E, F, n
<1> QED BY <1>23, <1>27 DEF C, Q

\* The end of Remove_Redundants: 1 >= 0 is added or was implied.
LEMMA IncludePositivityMeans ==
  ASSUME InStep10, IncludePositivity, NEW q, Listing(q)
  PROVE  pc' = "reduced" /\ Full(Pol') /\ Alive(PolWide(Pol'), Pol'.Ray, q)
<1> DEFINE p == UnitRow(1, Dimension - 1)
           L == Length(Pol.Constraint)
<1>1. pc' = "reduced" /\ IsPolyhedron(Pol')
  BY IncludePositivityStep
<1>2. i = NbRay /\ i >= NbRay
  <2>1. i >= NbRay /\ i \in NbBid..NbRay /\ NbRay \in Nat /\ NbBid \in 0..NbRay
    BY DEF IncludePositivity, InStep10, Building, Separated, ReduceTyped
  <2> QED BY <2>1
<1>3. IsRecord(Pol) /\ IsPolyhedron(Pol) /\ Pol.NbEq = NbEq2 /\ Pol.NbBid = NbBid2 /\ IsMatrix(Pol.Constraint)
  BY DEF InStep10, Building, IsPolyhedron
<1>4. L \in Nat
  BY <1>3, PolRows
<1>5. p \in IntRow /\ \A x \in IntRow : InnerProduct(x, p) = x[Dimension]
  <2>1. Dimension - 1 \in 0 .. Dimension - 1 /\ (Dimension - 1) + 1 = Dimension /\ 1 \in Int
    BY DimensionAssumption
  <2> QED BY <2>1, UnitRowIs
<1>6. Alike(p, PositivityRow)
  BY <1>5, PositivityProduct DEF Alike
<1> HIDE DEF p
<1>7. CASE Pol' = Pol
  <2>1. L .. L - 1 = {} /\ L >= L
    BY <1>4
  <2> HIDE DEF L
  <2>2. /\ \A x \in 0 .. Length(Pol.Constraint) - 1 : Pol.Constraint[x] = Pol.Constraint[x]
        /\ \A x \in Length(Pol.Constraint) .. Length(Pol.Constraint) - 1 : Alike(Pol.Constraint[x], PositivityRow)
        /\ Length(Pol.Constraint) >= Length(Pol.Constraint)
    BY <2>1 DEF L
  <2> QED BY <1>1, <1>2, <1>3, <1>7, <2>2, PolListed
<1>8. CASE Pol' = [Pol EXCEPT !.Constraint = Appended(@, p)]
  <2>1. /\ Pol'.Constraint = Appended(Pol.Constraint, p) /\ Pol'.Ray = Pol.Ray
        /\ Pol'.NbEq = Pol.NbEq /\ Pol'.NbBid = Pol.NbBid
    BY <1>3, <1>8 DEF IsRecord
  <2>2. /\ Length(Pol'.Constraint) = L + 1 /\ Pol'.Constraint[L] = p
        /\ \A x \in 0 .. L - 1 : Pol'.Constraint[x] = Pol.Constraint[x]
    BY <1>3, <1>5, <2>1, AppendedIs
  <2>3. \A x \in L .. (L + 1) - 1 : x = L
    BY <1>4
  <2>4. L + 1 >= L
    BY <1>4
  <2>5. /\ \A x \in 0 .. Length(Pol.Constraint) - 1 : Pol'.Constraint[x] = Pol.Constraint[x]
        /\ \A x \in Length(Pol.Constraint) .. Length(Pol'.Constraint) - 1 : Alike(Pol'.Constraint[x], PositivityRow)
        /\ Length(Pol'.Constraint) >= Length(Pol.Constraint)
    BY <1>6, <2>2, <2>3, <2>4
  <2> QED BY <1>1, <1>2, <1>3, <2>1, <2>5, PolListed
<1> QED BY <1>7, <1>8 DEF IncludePositivity, p

\* The size of the space of the rays, modulo the lines.
Spaced == Dim_RaySpace = Dimension - 1 - NbEq2 - NbBid2

\* An inequality is on all the rays at infinity.
Closed(P) ==
  \E d \in P.NbEq .. Length(P.Constraint) - 1 :
    Touched(PositivityRow, P.Ray) \subseteq Touched(P.Constraint[d], P.Ray)

\* With fewer rays at infinity than a facet has, the positivity constraint is
\* redundant: IncludePositivity counts rightly when it does not add it.
LEMMA PositivityIncluded ==
  ASSUME InStep10, IncludePositivity, NEW q, Listing(q), Spaced
  PROVE  Closed(Pol')
<1> DEFINE p == UnitRow(1, Dimension - 1)
           L == Length(Pol.Constraint)
<1>1. /\ IsRecord(Pol) /\ IsPolyhedron(Pol) /\ Pol.NbEq = NbEq2 /\ Pol.NbBid = NbBid2 /\ IsMatrix(Pol.Constraint)
      /\ NbEq2 \in 0..NbEq /\ NbEq \in Nat
  BY DEF InStep10, Building, IsPolyhedron, Separated, ReduceTyped
<1>2. L \in Nat /\ NbEq2 \in 0..L /\ NbEq2 \in Nat
  <2>1. L \in Nat /\ Pol.NbEq \in 0..L
    BY <1>1, PolRows
  <2> QED BY <1>1, <2>1
<1>3. p \in IntRow /\ \A x \in IntRow : InnerProduct(x, p) = x[Dimension]
  <2>1. Dimension - 1 \in 0 .. Dimension - 1 /\ (Dimension - 1) + 1 = Dimension /\ 1 \in Int
    BY DimensionAssumption
  <2> QED BY <2>1, UnitRowIs
<1> HIDE DEF p
<1>4. CASE KeptAtInfinity >= Dim_RaySpace
  <2>1. Pol' = [Pol EXCEPT !.Constraint = Appended(@, p)]
    BY <1>4 DEF IncludePositivity, p
  <2>2. Pol'.Constraint = Appended(Pol.Constraint, p) /\ Pol'.Ray = Pol.Ray /\ Pol'.NbEq = Pol.NbEq
    BY <1>1, <2>1 DEF IsRecord
  <2>3. Length(Pol'.Constraint) = L + 1 /\ Pol'.Constraint[L] = p
    BY <1>1, <1>3, <2>2, AppendedIs
  <2>4. L \in Pol'.NbEq .. Length(Pol'.Constraint) - 1
    BY <1>1, <1>2, <2>2, <2>3
  <2>5. \A r \in DOMAIN Pol.Ray : Pol.Ray[r] \in IntRow
    BY <1>1, PolRows DEF IsFamily
  <2>6. \A x \in IntRow : InnerProduct(x, p) = InnerProduct(x, PositivityRow)
    BY <1>3, PositivityProduct
  <2>7. Touched(PositivityRow, Pol'.Ray) \subseteq Touched(Pol'.Constraint[L], Pol'.Ray)
    BY <2>2, <2>3, <2>5, <2>6 DEF Touched
  <2> QED BY <2>4, <2>7 DEF Closed
<1>5. CASE ~(KeptAtInfinity >= Dim_RaySpace)
  <2> DEFINE C == PolWide(Pol)
             Q == Pol.Ray
             n == Length(Pol.Ray)
             K == {r \in NbBid2 .. n - 1 : AtInfinity(Q[r])}
             T == Touched(PositivityRow, Q)
             B == 0 .. NbBid2 - 1
  <2>1. Pol' = Pol
    BY <1>5 DEF IncludePositivity
  <2>2. i = NbRay
    <3>1. i >= NbRay /\ i \in NbBid..NbRay /\ NbRay \in Nat /\ NbBid \in 0..NbRay
      BY DEF IncludePositivity, InStep10, Building, Separated, ReduceTyped
    <3> QED BY <3>1
  <2>3. Full(Pol) /\ Alive(C, Q, q)
    <3>1. \A x \in 0 .. Length(Pol.Constraint) - 1 : Pol.Constraint[x] = Pol.Constraint[x]
      OBVIOUS
    <3>2. L .. L - 1 = {} /\ L >= L
      BY <1>2
    <3>3. /\ \A x \in Length(Pol.Constraint) .. Length(Pol.Constraint) - 1 : Alike(Pol.Constraint[x], PositivityRow)
          /\ Length(Pol.Constraint) >= Length(Pol.Constraint)
      BY <3>2
    <3> QED BY <1>1, <2>2, <3>1, <3>3, PolListed
  <2>4. /\ Exact(C, Q) /\ Flat(C, Q) = 0 .. NbEq2 - 1 /\ -1 \notin Flat(C, Q)
    BY <1>1, <2>3 DEF Full, Alive
  <2>5. /\ IsFamily(C) /\ DOMAIN C = 0 .. L - 1 \cup {-1} /\ C[-1] = PositivityRow
        /\ \A c \in 0 .. L - 1 : C[c] = Pol.Constraint[c]
        /\ IsFamily(Q) /\ DOMAIN Q = 0 .. n - 1 /\ n \in Nat /\ NbBid2 \in 0..n
    BY <1>1, PolRows
  <2>6. KeptAtInfinity = Cardinality(K)
    BY DEF KeptAtInfinity
  <2>7. \A r \in 0 .. n - 1 : r \in T <=> AtInfinity(Q[r])
    <3>1. \A r \in 0 .. n - 1 : Q[r] \in IntRow
      BY <2>5 DEF IsFamily
    <3> QED BY <2>5, <3>1, PositivityProduct DEF Touched, AtInfinity
  <2>8. T \subseteq B \cup K
    <3>1. T \subseteq 0 .. n - 1
      BY <2>5 DEF Touched
    <3>2. \A r \in 0 .. n - 1 : r \in B \/ r \in NbBid2 .. n - 1
      BY <2>5
    <3> QED BY <2>7, <3>1, <3>2
  <2>9. IsFiniteSet(B) /\ Cardinality(B) = NbBid2 /\ NbBid2 \in Nat
    <3>1. NbBid2 \in Nat
      BY <2>5
    <3> QED BY <3>1, CountTo, PartOfRange
  <2>10. IsFiniteSet(K) /\ Cardinality(K) \in Nat
    <3>1. K \subseteq 0 .. n - 1
      BY <2>5
    <3> QED BY <2>5, <3>1, PartOfRange
  <2>11. Cardinality(T) \in Nat /\ Cardinality(T) <= NbBid2 + Cardinality(K)
    <3> HIDE DEF T, B, K
    <3>1. IsFiniteSet(B \cup K) /\ Cardinality(B \cup K) = NbBid2 + Cardinality(K) - Cardinality(B \cap K)
      BY <2>9, <2>10, FS_Union
    <3>2. IsFiniteSet(T) /\ Cardinality(T) <= Cardinality(B \cup K)
      BY <2>8, <3>1, FS_Subset
    <3>3. IsFiniteSet(B \cap K)
      BY <2>9, FS_Subset
    <3>4. Cardinality(B \cap K) \in Nat /\ Cardinality(T) \in Nat /\ Cardinality(B \cup K) \in Nat
      BY <3>1, <3>2, <3>3, FS_CardinalityType
    <3> QED BY <2>9, <2>10, <3>1, <3>2, <3>4
  <2>12. Cardinality(Touched(C[-1], Q)) + NbEq2 + 1 < Dimension
    <3> DEFINE y == Cardinality(T)
               z == Cardinality(K)
               D == Dim_RaySpace
    <3>1. D = Dimension - 1 - NbEq2 - NbBid2 /\ ~(z >= D) /\ y \in Nat /\ z \in Nat /\ y <= NbBid2 + z
      BY <1>5, <2>6, <2>10, <2>11 DEF Spaced
    <3>2. Touched(C[-1], Q) = T
      BY <2>5
    <3> HIDE DEF y, z, D, T, K
    <3>3. y + NbEq2 + 1 < Dimension
      BY <1>2, <2>9, <3>1, DimensionAssumption
    <3> QED BY <3>2, <3>3 DEF y
  <2> HIDE DEF C, Q, T, K, B
  <2>13. Ranked(C, Q, NbEq2)
    BY <2>4 DEF Ranked
  <2>14. -1 \in DOMAIN C \ Flat(C, Q)
    BY <2>4, <2>5
  <2>15. \A c \in {-1} : Cardinality(Touched(C[c], Q)) + NbEq2 + 1 < Dimension
    BY <2>12
  <2>16. {-1} \subseteq DOMAIN C \ Flat(C, Q)
    BY <2>14
  <2>17. PICK d \in (DOMAIN C \ Flat(C, Q)) \ {-1} : Touched(C[-1], Q) \subseteq Touched(C[d], Q)
    <3>1. Exact(C, Q) /\ NbEq2 \in Nat
      BY <1>2, <2>4
    <3> DEFINE G == {-1}
    <3>2. G \subseteq DOMAIN C \ Flat(C, Q) /\ \A c \in G : Cardinality(Touched(C[c], Q)) + NbEq2 + 1 < Dimension
      BY <2>15, <2>16
    <3> HIDE DEF G
    <3>3. \E d \in (DOMAIN C \ Flat(C, Q)) \ G : Touched(C[-1], Q) \subseteq Touched(C[d], Q)
      BY <2>13, <2>14, <3>1, <3>2, EnoughCover
    <3> QED BY <3>3 DEF G
  <2>18. d \in NbEq2 .. L - 1
    <3>1. d \in 0 .. L - 1 /\ d \notin 0 .. NbEq2 - 1
      BY <2>4, <2>5, <2>17
    <3> QED BY <1>2, <3>1
  <2>19. C[d] = Pol.Constraint[d]
    BY <2>4, <2>5, <2>17
  <2>20. Touched(PositivityRow, Pol.Ray) \subseteq Touched(Pol.Constraint[d], Pol.Ray)
    BY <2>5, <2>17, <2>19 DEF Q
  <2> QED BY <1>1, <2>1, <2>18, <2>20 DEF Closed
<1> QED BY <1>4, <1>5

\* The result of a call: what it promises, or rightly the empty polyhedron.
Whole(P) == Full(P) /\ Closed(P)
\* P keeps the promise q.
Fulfils(P, q) == (Whole(P) /\ Alive(PolWide(P), P.Ray, q)) \/ (P = EmptyPolyhedron /\ Barren(q))

(***************************************************************************)
(* The promise q through Remove_Redundants, phase by phase.                *)
(***************************************************************************)
Kept(q) ==
  \/ pc = "step0" /\ InStep0 /\ Means(Wide, Ray, q)
  \/ pc = "step1" /\ InStep1 /\ Counting(q)
  \/ pc = "step2" /\ InStep2 /\ Counted(q)
  \/ pc = "step3" /\ InStep3 /\ Leveled(q)
  \/ pc = "step4" /\ InStep4 /\ Leveled(q) /\ Reduced(Mat, NbEq2, NbEq)
  \/ pc = "step6" /\ Separated /\ Ready(q)
  \/ pc = "step7" /\ Separated /\ Shaped(q) /\ RayCounts /\ RowsSorted
  \/ pc = "step9" /\ InStep9 /\ Spaced /\ Selected(q) /\ RowsListed(j) /\ LinesListed
  \/ pc = "step10" /\ InStep10 /\ Spaced /\ Listing(q)
  \/ pc = "reduced" /\ Fulfils(Pol, q)

\* Each step keeps the promise.
LEMMA RemoveMeans ==
  ASSUME RemoveStep, NEW q, Kept(q)
  PROVE  Kept(q)'
<1>1. CASE ResetRays
  <2>1. InStep0 /\ Means(Wide, Ray, q)
    BY <1>1 DEF ResetRays, Kept
  <2> QED BY <1>1, <2>1, ResetRaysMeans DEF Kept, GotoEmpty, Fulfils
<1>2. CASE RemovePositivity
  <2>1. pc = "step1" /\ InStep1 /\ Counting(q)
    BY <1>2 DEF RemovePositivity, Kept
  <2> QED BY <1>2, <2>1, RemovePositivityMeans DEF Kept
<1>3. CASE CountConstraint
  <2>1. pc = "step1" /\ InStep1 /\ Counting(q)
    BY <1>3 DEF CountConstraint, Kept
  <2> QED BY <1>3, <2>1, CountConstraintMeans DEF Kept
<1>4. CASE CountLines
  <2>1. pc = "step1" /\ InStep1 /\ Counting(q)
    BY <1>4 DEF CountLines, Kept
  <2> QED BY <1>4, <2>1, CountLinesMeans DEF Kept
<1>5. CASE SlideEquality
  <2>1. pc = "step2" /\ InStep2 /\ Counted(q)
    BY <1>5 DEF SlideEquality, Kept
  <2> QED BY <1>5, <2>1, SlideEqualityMeans DEF Kept
<1>6. CASE FilterEqualities
  <2>1. pc = "step2" /\ InStep2 /\ Counted(q)
    BY <1>6 DEF FilterEqualities, Kept
  <2> QED BY <1>6, <2>1, FilterEqualitiesMeans DEF Kept
<1>7. CASE ReduceEqualities
  <2>1. pc = "step3" /\ InStep3 /\ Leveled(q)
    BY <1>7 DEF ReduceEqualities, Kept
  <2> QED BY <1>7, <2>1, ReduceEqualitiesMeans DEF Kept
<1>8. CASE RaiseLine
  <2>1. pc = "step4" /\ InStep4 /\ Leveled(q) /\ Reduced(Mat, NbEq2, NbEq)
    BY <1>8 DEF RaiseLine, Kept
  <2> QED BY <1>8, <2>1, RaiseLineMeans DEF Kept
<1>9. CASE ReduceLines
  <2>1. pc = "step4" /\ InStep4 /\ Leveled(q) /\ Reduced(Mat, NbEq2, NbEq)
    BY <1>9 DEF ReduceLines, Kept
  <2> QED BY <1>9, <2>1, ReduceLinesMeans DEF Kept
<1>10. CASE ClassifyConstraints
  <2>1. Separated /\ Ready(q)
    BY <1>10 DEF ClassifyConstraints, Kept
  <2> QED BY <1>10, <2>1, ClassifyConstraintsMeans DEF Kept
<1>11. CASE ClassifyRays
  <2>1. Separated /\ Shaped(q) /\ RayCounts /\ RowsSorted
    BY <1>11 DEF ClassifyRays, Kept
  <2>2. Spaced'
    BY <1>11, <2>1 DEF ClassifyRays, Shaped, Spaced, counts
  <2> QED BY <1>11, <2>1, <2>2, ClassifyRaysMeans DEF Kept
<1>12. CASE KeepConstraint
  <2>1. pc = "step9" /\ InStep9 /\ Spaced /\ Selected(q) /\ RowsListed(j) /\ LinesListed
    BY <1>12 DEF KeepConstraint, Kept
  <2>2. Spaced'
    BY <1>12, <2>1 DEF KeepConstraint, Spaced, reduceVars, counts
  <2> QED BY <1>12, <2>1, <2>2, KeepConstraintMeans DEF Kept
<1>13. CASE StartRays
  <2>1. InStep9 /\ Spaced /\ Selected(q) /\ RowsListed(j) /\ LinesListed
    BY <1>13 DEF StartRays, Kept
  <2>2. Spaced'
    BY <1>13, <2>1 DEF StartRays, Spaced, reduceVars, counts
  <2> QED BY <1>13, <2>1, <2>2, StartRaysMeans DEF Kept
<1>14. CASE KeepRay
  <2>1. pc = "step10" /\ InStep10 /\ Spaced /\ Listing(q)
    BY <1>14 DEF KeepRay, Kept
  <2>2. Spaced'
    BY <1>14, <2>1 DEF KeepRay, Spaced, reduceVars, counts
  <2> QED BY <1>14, <2>1, <2>2, KeepRayMeans DEF Kept
<1>15. CASE IncludePositivity
  <2>1. InStep10 /\ Spaced /\ Listing(q)
    BY <1>15 DEF IncludePositivity, Kept
  <2>2. pc' = "reduced" /\ Full(Pol') /\ Alive(PolWide(Pol'), Pol'.Ray, q)
    BY <1>15, <2>1, IncludePositivityMeans
  <2>3. Closed(Pol')
    BY <1>15, <2>1, PositivityIncluded
  <2> QED BY <2>2, <2>3 DEF Kept, Fulfils, Whole
<1> QED BY <1>1, <1>2, <1>3, <1>4, <1>5, <1>6, <1>7, <1>8, <1>9, <1>10, <1>11, <1>12, <1>13, <1>14, <1>15 DEF RemoveStep

-----------------------------------------------------------------------------
(* The next call: what a polyhedron hands to Chernikova.                   *)

\* Its rays describe the cone of its constraints, the positivity constraint
\* among them.
LEMMA FullDescribes ==
  ASSUME NEW P, Full(P)
  PROVE  Describes(PolWide(P), P.Ray, 0 .. P.NbBid - 1, P.NbBid .. Length(P.Ray) - 1)
<1> DEFINE A == PolWide(P)
           R == P.Ray
           n == Length(P.Ray)
           m == Length(P.Constraint)
<1>1. /\ IsPolyhedron(P) /\ Exact(A, R) /\ Flat(A, R) = 0 .. P.NbEq - 1 /\ Flat(R, A) = 0 .. P.NbBid - 1
      /\ \A c \in 0 .. P.NbEq - 1 : P.Constraint[c][0] = 0
      /\ \A x \in P.NbBid .. n - 1, y \in P.NbBid .. n - 1 : Zeros(R[x], A) \subseteq Zeros(R[y], A) => y = x
  BY DEF Full
<1>2. /\ DOMAIN A = 0 .. m - 1 \cup {-1} /\ A[-1] = PositivityRow /\ -1 \notin 0 .. m - 1
      /\ \A c \in 0 .. m - 1 : A[c] = P.Constraint[c]
      /\ DOMAIN R = 0 .. n - 1 /\ m \in Nat /\ n \in Nat /\ P.NbEq \in 0..m /\ P.NbBid \in 0..n
  BY <1>1, PolRows
<1>3. \A c \in P.NbEq .. m - 1 : P.Constraint[c][0] = 1
  BY <1>1 DEF IsPolyhedron
<1>4. \A c \in 0 .. m - 1 : c \in 0 .. P.NbEq - 1 \/ (c \in P.NbEq .. m - 1 /\ c \notin 0 .. P.NbEq - 1)
  BY <1>2
<1>5. PositivityRow[0] # 0 /\ -1 \notin 0 .. P.NbEq - 1
  <2>1. PositivityRow[0] = 1
    BY DimensionAssumption DEF PositivityRow
  <2> QED BY <1>2, <2>1
<1>6. \A c \in DOMAIN A : A[c][0] = 0 <=> c \in Flat(A, R)
  <2>1. ASSUME NEW c \in 0 .. m - 1 PROVE A[c][0] = 0 <=> c \in Flat(A, R)
    <3>1. CASE c \in 0 .. P.NbEq - 1
      BY <1>1, <1>2, <3>1
    <3>2. CASE c \in P.NbEq .. m - 1 /\ c \notin 0 .. P.NbEq - 1
      <4>1. A[c][0] = 1
        BY <1>2, <1>3, <3>2
      <4> QED BY <1>1, <3>2, <4>1
    <3> QED BY <1>4, <3>1, <3>2
  <2>2. A[-1][0] # 0 /\ -1 \notin Flat(A, R)
    BY <1>1, <1>2, <1>5
  <2> QED BY <1>2, <2>1, <2>2
<1>7. DOMAIN R \ Flat(R, A) = P.NbBid .. n - 1
  BY <1>1, <1>2
<1> HIDE DEF A, R, n
<1>8. \A x \in DOMAIN R \ Flat(R, A), y \in DOMAIN R \ Flat(R, A) : Zeros(R[x], A) \subseteq Zeros(R[y], A) => y = x
  BY <1>1, <1>7
<1>9. Describes(A, R, Flat(R, A), DOMAIN R \ Flat(R, A))
  BY <1>1, <1>6, <1>8, ExactDescribes
<1> QED BY <1>1, <1>7, <1>9 DEF A, R, n

\* No inequality is on all the rays of another one.
Irreducible(P) ==
  \A c \in P.NbEq .. Length(P.Constraint) - 1, d \in P.NbEq .. Length(P.Constraint) - 1 :
    Touched(P.Constraint[c], P.Ray) \subseteq Touched(P.Constraint[d], P.Ray) => d = c

\* Then its constraints describe the cone of its rays as well, without the
\* positivity constraint.
LEMMA WholeDescribes ==
  ASSUME NEW P, Whole(P), Irreducible(P)
  PROVE  Describes(Family(P.Ray, Length(P.Ray), TRUE), P.Constraint,
                   0 .. P.NbEq - 1, P.NbEq .. Length(P.Constraint) - 1)
<1> DEFINE A == PolWide(P)
           R == P.Ray
           n == Length(P.Ray)
           m == Length(P.Constraint)
           K == 0 .. m - 1
           B == Only(A, K)
<1>1. /\ Full(P) /\ IsPolyhedron(P) /\ Exact(A, R) /\ Flat(A, R) = 0 .. P.NbEq - 1 /\ Flat(R, A) = 0 .. P.NbBid - 1
      /\ \A r \in 0 .. P.NbBid - 1 : R[r][0] = 0
  BY DEF Whole, Full
<1>2. /\ IsFamily(A) /\ DOMAIN A = 0 .. m - 1 \cup {-1} /\ A[-1] = PositivityRow /\ -1 \notin 0 .. m - 1
      /\ \A c \in 0 .. m - 1 : A[c] = P.Constraint[c]
      /\ DOMAIN P.Constraint = 0 .. m - 1 /\ IsFamily(R)
      /\ DOMAIN R = 0 .. n - 1 /\ m \in Nat /\ n \in Nat /\ P.NbEq \in 0..m /\ P.NbBid \in 0..n
  BY <1>1, PolRows
<1>3. PICK e \in P.NbEq .. m - 1 : Touched(PositivityRow, R) \subseteq Touched(P.Constraint[e], R)
  BY DEF Whole, Closed
<1>4. e \in K /\ e \notin 0 .. P.NbEq - 1 /\ 0 .. P.NbEq - 1 \subseteq K
  BY <1>2, <1>3
<1>5. \A r \in P.NbBid .. n - 1 : R[r][0] = 1
  BY <1>1 DEF IsPolyhedron
<1>6. \A r \in 0 .. n - 1 : r \in 0 .. P.NbBid - 1 \/ (r \in P.NbBid .. n - 1 /\ r \notin 0 .. P.NbBid - 1)
  BY <1>2
<1>7. \A c \in K : c \in 0 .. P.NbEq - 1 \/ c \in P.NbEq .. m - 1
  BY <1>2
<1>8. B = P.Constraint
  <2>1. IsMatrix(P.Constraint)
    BY <1>1 DEF IsPolyhedron
  <2>2. P.Constraint = [c \in K |-> P.Constraint[c]]
    BY <2>1 DEF IsMatrix
  <2> QED BY <1>2, <2>2 DEF Only
<1>9. Family(R, n, TRUE) = R
  <2>1. IsMatrix(R)
    BY <1>1 DEF IsPolyhedron
  <2>2. R = [c \in 0 .. n - 1 |-> R[c]]
    BY <2>1 DEF IsMatrix
  <2>3. \A c \in 0 .. n - 1 : c # -1
    BY <1>2
  <2>4. Family(R, n, TRUE) = [c \in 0 .. n - 1 |-> R[c]]
    BY <2>3 DEF Family
  <2> QED BY <2>2, <2>4
<1>10. Flat(A, R) \subseteq K /\ K \subseteq DOMAIN A
  BY <1>1, <1>2, <1>4
<1>11. \A c \in DOMAIN A \ K : \E d \in K \ Flat(A, R) : Touched(A[c], R) \subseteq Touched(A[d], R)
  <2>1. A[e] = P.Constraint[e] /\ e \in K \ Flat(A, R)
    BY <1>1, <1>2, <1>4
  <2>2. \A c \in DOMAIN A \ K : c = -1
    BY <1>2
  <2> QED BY <1>2, <1>3, <2>1, <2>2
<1> HIDE DEF A, R, n, m, K, B
<1>12. Replaces(B, A, R) /\ Flat(B, R) = Flat(A, R)
  BY <1>1, <1>10, <1>11, ExactLeftOut DEF B
<1>13. Exact(R, B) /\ Flat(R, B) = Flat(R, A)
  BY <1>12, ExactSwapped DEF Replaces
<1>14. DOMAIN B = K
  BY <1>2, <1>10, OnlyIs DEF B
<1>15. DOMAIN B \ Flat(B, R) = P.NbEq .. m - 1
  <2>1. DOMAIN B \ Flat(B, R) = K \ (0 .. P.NbEq - 1)
    BY <1>1, <1>12, <1>14
  <2> QED BY <1>2, <2>1 DEF K
<1>16. \A r \in DOMAIN R : R[r][0] = 0 <=> r \in Flat(R, B)
  <2>1. ASSUME NEW r \in 0 .. n - 1 PROVE R[r][0] = 0 <=> r \in 0 .. P.NbBid - 1
    <3>1. CASE r \in 0 .. P.NbBid - 1
      BY <1>1, <3>1
    <3>2. CASE r \in P.NbBid .. n - 1 /\ r \notin 0 .. P.NbBid - 1
      <4>1. R[r][0] = 1
        BY <1>5, <3>2
      <4> QED BY <3>2, <4>1
    <3> QED BY <1>6, <3>1, <3>2
  <2> QED BY <1>1, <1>2, <1>13, <2>1
<1>17. \A c \in DOMAIN B : B[c] \in IntRow
  BY <1>12 DEF Replaces, Exact, Tight, IsFamily
<1>18. \A c \in DOMAIN B : Zeros(B[c], R) = Touched(B[c], R)
  BY <1>2, <1>17, TouchedZeros
<1>19. \A c \in P.NbEq .. m - 1 : c \in DOMAIN B /\ B[c] = P.Constraint[c]
  BY <1>8, <1>15
<1>20. \A c \in DOMAIN B \ Flat(B, R), d \in DOMAIN B \ Flat(B, R) :
         Zeros(B[c], R) \subseteq Zeros(B[d], R) => d = c
  <2>1. ASSUME NEW c \in P.NbEq .. m - 1, NEW d \in P.NbEq .. m - 1, Zeros(B[c], R) \subseteq Zeros(B[d], R)
        PROVE  d = c
    <3>1. Touched(P.Constraint[c], R) \subseteq Touched(P.Constraint[d], R)
      BY <1>18, <1>19, <2>1
    <3> QED BY <3>1 DEF Irreducible, R, m
  <2> QED BY <1>15, <2>1
<1>21. Describes(R, B, Flat(B, R), DOMAIN B \ Flat(B, R))
  BY <1>13, <1>16, <1>20, ExactDescribes
<1> QED BY <1>1, <1>8, <1>9, <1>12, <1>15, <1>21 DEF R, n, m

\* The empty polyhedron: as many equalities as coordinates.
LEMMA EmptyPolIs ==
  /\ IsPolyhedron(EmptyPolyhedron)
  /\ EmptyPolyhedron.NbEq = Dimension /\ EmptyPolyhedron.NbBid = 0
  /\ Length(EmptyPolyhedron.Constraint) = Dimension /\ Length(EmptyPolyhedron.Ray) = 0
  /\ EmptyPolyhedron.Ray = EmptyMatrix
  /\ \A x \in 0 .. Dimension - 1 :
       /\ EmptyPolyhedron.Constraint[x] \in IntRow /\ EmptyPolyhedron.Constraint[x][0] = 0
       /\ \A p \in IntRow : InnerProduct(p, EmptyPolyhedron.Constraint[x]) = p[x + 1]
  /\ AreUnits(EmptyPolyhedron.Constraint)
<1> DEFINE C == [x \in 0 .. Dimension - 1 |-> UnitRow(0, x)]
           P == EmptyPolyhedron
<1>1. P.Constraint = C /\ P.Ray = EmptyMatrix /\ P.NbEq = Dimension /\ P.NbBid = 0
  BY DEF EmptyPolyhedron
<1>2. C \in MatrixOf(Dimension) /\ Dimension \in Nat
  BY UnitRowIs, DimensionAssumption DEF MatrixOf
<1>3. \A x \in 0 .. Dimension - 1 :
        /\ C[x] \in IntRow /\ C[x][0] = 0
        /\ \A p \in IntRow : InnerProduct(p, C[x]) = p[x + 1]
  BY UnitRowIs
<1>4. AreUnits(C)
  <2>1. ASSUME NEW x \in 0 .. Dimension - 1, NEW c \in Coordinates PROVE C[x][c] = IF c = x + 1 THEN 1 ELSE 0
    BY DimensionAssumption DEF UnitRow, Coordinates
  <2> QED BY <1>3, <2>1 DEF AreUnits
<1> HIDE DEF C, P
<1>5. Length(C) = Dimension /\ IsMatrix(C)
  BY <1>2, LengthIs
<1>6. IsPolyhedron(P)
  <2>1. Dimension \in 0..Dimension /\ Dimension .. Dimension - 1 = {} /\ 0 .. 0 - 1 = {} /\ 0 \in 0..0
    BY <1>2
  <2> QED BY <1>1, <1>5, <2>1, EmptyIs DEF IsPolyhedron
<1> QED BY <1>1, <1>3, <1>4, <1>5, <1>6, EmptyIs DEF P

\* The empty polyhedron: its constraints leave the origin, which no ray describes, ...
LEMMA EmptyDescribes ==
  LET P == EmptyPolyhedron
  IN  Describes(PolWide(P), P.Ray, 0 .. P.NbBid - 1, P.NbBid .. Length(P.Ray) - 1)
<1> DEFINE P == EmptyPolyhedron
           A == PolWide(P)
<1>1. /\ IsFamily(A) /\ DOMAIN A = 0 .. Dimension - 1 \cup {-1} /\ A[-1] = PositivityRow /\ -1 \notin 0 .. Dimension - 1
      /\ \A c \in 0 .. Dimension - 1 : A[c] = P.Constraint[c]
  BY EmptyPolIs, PolRows
<1>2. P.NbBid = 0 /\ Length(P.Ray) = 0
  BY EmptyPolIs
<1>3. \A x \in 0 .. Dimension - 1 : A[x][0] = 0 /\ \A p \in IntRow : InnerProduct(p, A[x]) = p[x + 1]
  BY <1>1, EmptyPolIs
<1> HIDE DEF P, A
<1>4. 0 .. 0 - 1 = {}
  OBVIOUS
<1>5. ASSUME NEW x \in IntRow, Within(x, A) PROVE \A c \in Coordinates : x[c] = 0
  <2>1. ASSUME NEW c \in Coordinates PROVE x[c] = 0
    <3>1. c - 1 \in 0 .. Dimension - 1 /\ (c - 1) + 1 = c
      BY DimensionAssumption DEF Coordinates
    <3>2. InnerProduct(x, A[c - 1]) = 0
      BY <1>1, <1>3, <1>5, <3>1 DEF Within, Verifies
    <3> QED BY <1>3, <3>1, <3>2
  <2> QED BY <2>1
<1>6. Covers(A, P.Ray, {})
  <2>1. ASSUME NEW x \in IntRow, Within(x, A) PROVE Zeros(x, A) = DOMAIN A
    <3>1. \A c \in 0 .. Dimension - 1 : InnerProduct(x, A[c]) = 0
      <4>1. \A c \in 0 .. Dimension - 1 : c + 1 \in Coordinates
        BY DimensionAssumption DEF Coordinates
      <4> QED BY <1>3, <1>5, <2>1, <4>1
    <3>2. InnerProduct(x, A[-1]) = 0
      <4>1. Dimension \in Coordinates
        BY DimensionAssumption DEF Coordinates
      <4> QED BY <1>1, <1>5, <2>1, <4>1, PositivityProduct
    <3> QED BY <1>1, <3>1, <3>2 DEF Zeros
  <2> QED BY <2>1 DEF Covers
<1>7. Extreme(A, P.Ray, {})
  BY DEF Extreme
<1>8. LinesSpan(A, P.Ray, {})
  <2>1. ASSUME NEW z \in IntRow, NEW v \in IntRow, Zeros(z, A) = DOMAIN A PROVE InnerProduct(v, z) = 0
    <3>1. \A c \in DOMAIN A : InnerProduct(z, A[c]) = 0
      BY <2>1 DEF Zeros
    <3>2. \A c \in Coordinates : c - 1 \in 0 .. Dimension - 1 /\ (c - 1) + 1 = c
      BY DimensionAssumption DEF Coordinates
    <3>3. \A c \in Coordinates : z[c] = 0
      BY <1>1, <1>3, <3>1, <3>2
    <3> QED BY <3>3, DisjointProduct
  <2> QED BY <2>1 DEF LinesSpan
<1>9. IsFiniteSet({})
  BY FS_EmptySet
<1>10. Describes(A, P.Ray, {}, {})
  BY <1>1, <1>6, <1>7, <1>8, <1>9 DEF Describes
<1> QED BY <1>2, <1>4, <1>10 DEF A, P

\* ... and these constraints describe the cone of no rays.
LEMMA EmptyDescribed ==
  LET P == EmptyPolyhedron
  IN  Describes(Family(P.Ray, Length(P.Ray), TRUE), P.Constraint,
                0 .. P.NbEq - 1, P.NbEq .. Length(P.Constraint) - 1)
<1>1. Describes(Family(EmptyMatrix, 0, TRUE), EmptyPolyhedron.Constraint, FirstLines(TRUE), FirstRays(TRUE))
  BY EmptyPolIs, UnitsDescribe
<1> QED BY <1>1, EmptyPolIs DEF FirstLines, FirstRays

\* The polyhedron there is before the first call.
LEMMA UniverseWhole == Whole(UniversePolyhedron) /\ -1 \notin Flat(PolWide(UniversePolyhedron), UniversePolyhedron.Ray)
<1> DEFINE P == UniversePolyhedron
           C == [x \in {0} |-> UnitRow(1, Dimension - 1)]
           R == UnitRays
           A == PolWide(P)
           B == Family(C, 0, FALSE)
           D == Dimension - 1
<1>1. P.NbEq = 0 /\ P.NbBid = D /\ P.Constraint = C /\ P.Ray = R
  BY DEF UniversePolyhedron, UnitRays
<1>2. Dimension \in Nat /\ D \in Nat /\ D >= 1 /\ D \in 0 .. Dimension - 1 /\ D + 1 = Dimension
  BY DimensionAssumption
<1>3. /\ C[0] \in IntRow /\ C[0][0] = 1 /\ DOMAIN C = {0}
      /\ \A p \in IntRow : InnerProduct(p, C[0]) = p[Dimension]
  BY <1>2, UnitRowIs
<1>4. IsMatrix(C) /\ Length(C) = 1
  <2>1. 0 .. 1 - 1 = {0}
    OBVIOUS
  <2>2. C = [x \in {0} |-> C[0]]
    OBVIOUS
  <2> HIDE DEF C
  <2>3. C \in MatrixOf(1)
    BY <1>3, <2>1, <2>2 DEF MatrixOf
  <2> QED BY <2>3, LengthIs
<1>5. /\ IsMatrix(R) /\ Length(R) = Dimension /\ DOMAIN R = 0 .. D
      /\ \A x \in 0 .. D : R[x] = UnitRow(IF x = D THEN 1 ELSE 0, x)
  BY <1>2, UnitMatrices DEF UnitRays
<1>6. ASSUME NEW r \in 0 .. D
      PROVE  R[r] \in IntRow /\ R[r][0] = (IF r = D THEN 1 ELSE 0) /\ R[r][Dimension] = IF r = D THEN 1 ELSE 0
  BY <1>2, <1>5, UnitRowIs
<1>7. AreUnits(R)
  <2>1. ASSUME NEW x \in 0 .. Dimension - 1, NEW c \in Coordinates PROVE R[x][c] = IF c = x + 1 THEN 1 ELSE 0
    <3>1. R[x] = UnitRow(IF x = D THEN 1 ELSE 0, x)
      BY <1>2, <1>5
    <3> QED BY <3>1, DimensionAssumption DEF UnitRow, Coordinates
  <2> QED BY <1>2, <1>6, <2>1 DEF AreUnits
<1>8. /\ \A r \in 0 .. D - 1 : r \in 0 .. D /\ r # D
      /\ \A r \in 0 .. D : r \in 0 .. D - 1 \/ r = D
      /\ D .. Dimension - 1 = {D} /\ D \in 0 .. D
  BY <1>2
<1> HIDE DEF P, C, R
<1>9. IsPolyhedron(P)
  <2>1. \A r \in D .. Dimension - 1 : R[r][0] = 1
    BY <1>6, <1>8
  <2>2. \A c \in 0 .. 1 - 1 : C[c][0] = 1
    BY <1>3
  <2>3. D \in 0..Dimension /\ 0 \in 0..1
    BY <1>2
  <2> QED BY <1>1, <1>4, <1>5, <2>1, <2>2, <2>3 DEF IsPolyhedron
<1>10. /\ IsFamily(A) /\ DOMAIN A = 0 .. 1 - 1 \cup {-1} /\ A[-1] = PositivityRow
       /\ \A c \in 0 .. 1 - 1 : A[c] = C[c]
       /\ IsFamily(R)
  BY <1>1, <1>4, <1>9, PolRows
<1>11. DOMAIN B = {-1} /\ B[-1] = PositivityRow
  BY DEF Family
<1>12. Describes(B, R, 0 .. D - 1, {D})
  <2>1. Describes(B, R, FirstLines(FALSE), FirstRays(FALSE))
    BY <1>7, UnitsDescribe
  <2> QED BY <1>8, <2>1 DEF FirstLines, FirstRays
<1>13. \A r \in 0 .. D : InnerProduct(R[r], PositivityRow) = IF r = D THEN 1 ELSE 0
  BY <1>6, PositivityProduct
<1> HIDE DEF A, B, D
<1>14. Exact(B, R)
  <2>1. DOMAIN R = 0 .. D - 1 \cup {D}
    BY <1>5, <1>8
  <2>2. \A n \in 0 .. D - 1, c \in DOMAIN B : InnerProduct(R[n], B[c]) = 0
    BY <1>8, <1>11, <1>13
  <2> QED BY <1>10, <1>12, <2>1, <2>2, DescribedExact
<1>15. Replaces(A, B, R)
  <2>1. \A a \in DOMAIN A : Alike(A[a], B[-1])
    <3>1. Alike(C[0], PositivityRow)
      BY <1>3, PositivityProduct DEF Alike
    <3>2. \A a \in DOMAIN A : A[a] = C[0] \/ A[a] = PositivityRow
      BY <1>10
    <3> QED BY <1>11, <3>1, <3>2 DEF Alike
  <2>2. -1 \in DOMAIN A /\ -1 \in DOMAIN B
    BY <1>10, <1>11
  <2>3. \A a \in DOMAIN A : \E b \in DOMAIN B : Alike(A[a], B[b])
    BY <2>1, <2>2
  <2>4. \A b \in DOMAIN B : \/ \E a \in DOMAIN A : Alike(A[a], B[b])
                            \/ \A x \in IntRow : InnerProduct(x, B[b]) = 0
    BY <1>11, <2>1, <2>2
  <2> QED BY <1>10, <1>14, <2>3, <2>4, ExactRows
<1>16. Exact(A, R) /\ Flat(R, A) = Flat(R, B)
  BY <1>15 DEF Replaces
<1>17. Flat(R, B) = 0 .. D - 1
  <2>1. \A r \in 0 .. D : InnerProduct(PositivityRow, R[r]) = IF r = D THEN 1 ELSE 0
    BY <1>6, <1>13, PositivityProduct, InnerProductSymmetric
  <2> QED BY <1>5, <1>8, <1>11, <2>1 DEF Flat
<1>18. Flat(A, R) = {}
  <2>1. \A a \in DOMAIN A : InnerProduct(R[D], A[a]) = 1
    <3>1. InnerProduct(R[D], C[0]) = 1
      BY <1>3, <1>6, <1>8
    <3> QED BY <1>8, <1>10, <1>13, <3>1
  <2> QED BY <1>5, <1>8, <2>1 DEF Flat
<1>19. Full(P)
  <2>1. 0 .. 0 - 1 = {} /\ D .. Dimension - 1 = {D}
    BY <1>8
  <2>2. \A r \in 0 .. D - 1 : R[r][0] = 0
    BY <1>6, <1>8
  <2> QED BY <1>1, <1>5, <1>9, <1>16, <1>17, <1>18, <2>1, <2>2 DEF Full, A
<1>20. Closed(P)
  <2>1. Touched(PositivityRow, R) \subseteq Touched(C[0], R)
    <3>1. \A r \in DOMAIN R : InnerProduct(R[r], C[0]) = InnerProduct(R[r], PositivityRow)
      BY <1>3, <1>5, <1>6, PositivityProduct
    <3> QED BY <3>1 DEF Touched
  <2>2. 0 \in 0 .. 1 - 1
    OBVIOUS
  <2> QED BY <1>1, <1>4, <2>1, <2>2 DEF Closed
<1> QED BY <1>1, <1>18, <1>19, <1>20 DEF Whole, P, A, R

-----------------------------------------------------------------------------
(* The calls: what Chernikova is asked.                                    *)

\* The rows BuildSat evaluates describe what the rows given describe.
LEMMA CallDescribes ==
  ASSUME NEW M, IsMatrix(M), NEW R, IsMatrix(R), NEW lines \in 0..Length(R), NEW w,
         NEW first \in 0..Length(M), NEW d \in BOOLEAN,
         CallChernikova(M, R, lines, w, first, d),
         Describes(Family(M, first, d), R, 0 .. lines - 1, lines .. Length(R) - 1)
  PROVE  Described' /\ PairsMade' /\ pc' = "head" /\ Mat' = M /\ dual' = d
<1> DEFINE n == Length(R)
           E == Evaluated(M, R, first)
<1>1. /\ pc' = "head" /\ Mat' = M /\ Ray' = E /\ NbRay' = n /\ NbBid' = lines /\ k' = first /\ dual' = d
  BY DEF CallChernikova
<1>2. n \in Nat /\ R \in MatrixOf(n) /\ lines \in 0..n
  BY MatrixIs
<1>3. E \in MatrixOf(n) /\ \A x \in 0 .. n - 1 : SameCoordinates(R[x], E[x])
  BY EvaluatedIs
<1> HIDE DEF n, E
<1>4. \A x \in (0 .. lines - 1) \cup (lines .. n - 1) : x \in 0 .. n - 1
  BY <1>2
<1>5. \A x \in (0 .. lines - 1) \cup (lines .. n - 1) : E[x] \in IntRow /\ SameCoordinates(R[x], E[x])
  BY <1>3, <1>4 DEF MatrixOf
<1>6. Describes(Family(M, first, d), R, 0 .. lines - 1, lines .. n - 1)
  BY DEF n
<1>7. Describes(Family(M, first, d), E, 0 .. lines - 1, lines .. n - 1)
  BY <1>5, <1>6, DescribesSame
<1>8. Known' = Family(M, first, d)
  BY <1>1 DEF Known
<1>9. OldRays' = lines .. n - 1
  BY <1>1 DEF OldRays
<1>10. Described'
  BY <1>1, <1>7, <1>8, <1>9 DEF Described
<1>11. PairsMade'
  BY <1>1 DEF PairsMade
<1> QED BY <1>1, <1>10, <1>11

\* The matrix of Chernikova stands for the promise q: constraints in the
\* primal case, in the dual case rays.
Asked(q) ==
  /\ q.constrained <=> ~dual
  /\ q.generated <=> dual
  /\ ~dual => \A x \in IntRow : Within(x, Family(Mat, NbConstraints, FALSE)) <=> x \in q.cone
  /\ dual => /\ \A p \in IntRow : Within(p, Family(Mat, NbConstraints, TRUE)) <=> p \in q.valid
             /\ q.vertex <=> \E r \in DOMAIN Mat : ~AtInfinity(Mat[r])
             /\ \A r \in DOMAIN Mat : Mat[r][0] = 0 => AtInfinity(Mat[r])

\* What is asked before Chernikova is told by the rows alone.
LEMMA FamilyRows ==
  ASSUME NEW M, IsMatrix(M), NEW x \in IntRow
  PROVE  /\ Within(x, Family(M, Length(M), FALSE)) <=> x[Dimension] >= 0 /\ SatisfiesAll(x, M)
         /\ Within(x, Family(M, Length(M), TRUE)) <=> ValidFor(x, M)
<1> DEFINE n == Length(M)
<1>1. n \in Nat /\ M \in MatrixOf(n) /\ DOMAIN M = 0 .. n - 1 /\ \A c \in 0 .. n - 1 : M[c] \in IntRow
  BY MatrixIs DEF MatrixOf
<1> HIDE DEF n
<1>2. HasRows(M, 0 .. n - 1)
  BY <1>1 DEF HasRows
<1>3. ASSUME NEW d \in BOOLEAN
      PROVE  Within(x, Family(M, n, d)) <=> (\A c \in 0 .. n - 1 : Verifies(x, M[c])) /\ (d \/ x[Dimension] >= 0)
  <2>1. Within(x, Family(M, n, d)) <=> InCone(x, M, 0 .. n - 1, d)
    BY <1>1, <1>2, FamilyIs
  <2> QED BY <2>1 DEF InCone
<1>4. SatisfiesAll(x, M) <=> \A c \in 0 .. n - 1 : Verifies(x, M[c])
  BY <1>1 DEF SatisfiesAll, SatisfiesRow, Verifies
<1>5. ValidFor(x, M) <=> \A c \in 0 .. n - 1 : Verifies(x, M[c])
  <2>1. \A c \in 0 .. n - 1 : InnerProduct(M[c], x) = InnerProduct(x, M[c])
    BY <1>1, InnerProductSymmetric
  <2> QED BY <1>1, <2>1 DEF ValidFor, Verifies
<1> QED BY <1>3, <1>4, <1>5 DEF n

\* The rows of both parts.
LEMMA StackedRows ==
  ASSUME NEW M, IsMatrix(M), NEW N, IsMatrix(N)
  PROVE  /\ DOMAIN Stacked(M, N) = 0 .. Length(M) + Length(N) - 1
         /\ \A y \in DOMAIN M : y \in DOMAIN Stacked(M, N) /\ Stacked(M, N)[y] = M[y]
         /\ \A y \in DOMAIN N : y + Length(M) \in DOMAIN Stacked(M, N) /\ Stacked(M, N)[y + Length(M)] = N[y]
         /\ \A x : SatisfiesAll(x, Stacked(M, N)) <=> SatisfiesAll(x, M) /\ SatisfiesAll(x, N)
<1> DEFINE m == Length(M)
           n == Length(N)
           S == Stacked(M, N)
<1>1. m \in Nat /\ n \in Nat /\ M \in MatrixOf(m) /\ N \in MatrixOf(n)
  BY MatrixIs
<1>2. S = [x \in 0 .. m + n - 1 |-> IF x < m THEN M[x] ELSE N[x - m]]
  BY DEF Stacked
<1>3. \A x \in DOMAIN S : (\E y \in DOMAIN M : S[x] = M[y]) \/ (\E y \in DOMAIN N : S[x] = N[y])
  BY StackedIs
<1> HIDE DEF m, n, S
<1>4. DOMAIN M = 0 .. m - 1 /\ DOMAIN N = 0 .. n - 1 /\ DOMAIN S = 0 .. m + n - 1
  BY <1>1, <1>2 DEF MatrixOf
<1>5. \A y \in DOMAIN M : y \in DOMAIN S /\ S[y] = M[y]
  BY <1>1, <1>2, <1>4
<1>6. \A y \in DOMAIN N : y + m \in DOMAIN S /\ S[y + m] = N[y]
  <2>1. ASSUME NEW y \in DOMAIN N PROVE y + m \in DOMAIN S /\ S[y + m] = N[y]
    <3>1. y \in 0 .. n - 1 /\ y + m \in 0 .. m + n - 1 /\ ~(y + m < m) /\ (y + m) - m = y
      BY <1>1, <1>4
    <3> QED BY <1>2, <1>4, <3>1
  <2> QED BY <2>1
<1>7. \A x : SatisfiesAll(x, S) <=> SatisfiesAll(x, M) /\ SatisfiesAll(x, N)
  BY <1>3, <1>5, <1>6 DEF SatisfiesAll
<1> QED BY <1>4, <1>5, <1>6, <1>7 DEF m, n, S

\* A polyhedron that a call has returned, or the one before the first call.
Settled(P) == Whole(P) \/ P = EmptyPolyhedron

\* What every call may rely on.
LEMMA SettledIs ==
  ASSUME NEW P, Settled(P)
  PROVE  /\ IsPolyhedron(P)
         /\ Describes(PolWide(P), P.Ray, 0 .. P.NbBid - 1, P.NbBid .. Length(P.Ray) - 1)
         /\ Irreducible(P) =>
              Describes(Family(P.Ray, Length(P.Ray), TRUE), P.Constraint,
                        0 .. P.NbEq - 1, P.NbEq .. Length(P.Constraint) - 1)
         /\ \A r \in DOMAIN P.Ray : P.Ray[r][0] = 0 => AtInfinity(P.Ray[r])
<1>1. CASE Whole(P)
  <2>1. Full(P) /\ IsPolyhedron(P)
    BY <1>1 DEF Whole, Full
  <2>2. ASSUME NEW r \in DOMAIN P.Ray, P.Ray[r][0] = 0 PROVE AtInfinity(P.Ray[r])
    <3>1. /\ DOMAIN P.Ray = 0 .. Length(P.Ray) - 1 /\ P.NbBid \in 0..Length(P.Ray) /\ Length(P.Ray) \in Nat
          /\ -1 \in DOMAIN PolWide(P) /\ PolWide(P)[-1] = PositivityRow
          /\ P.Ray[r] \in IntRow
      BY <2>1, PolRows DEF IsFamily
    <3>2. r \in 0 .. P.NbBid - 1 \/ r \in P.NbBid .. Length(P.Ray) - 1
      BY <3>1
    <3>3. r \in 0 .. P.NbBid - 1
      BY <2>1, <2>2, <3>2 DEF IsPolyhedron
    <3>4. r \in Flat(P.Ray, PolWide(P))
      BY <2>1, <3>3 DEF Full
    <3>5. InnerProduct(PositivityRow, P.Ray[r]) = 0
      BY <3>1, <3>4 DEF Flat
    <3>6. P.Ray[r][Dimension] = 0
      BY <3>1, <3>5, PositivityProduct, InnerProductSymmetric
    <3> QED BY <3>6 DEF AtInfinity
  <2> QED BY <1>1, <2>1, <2>2, FullDescribes, WholeDescribes
<1>2. CASE P = EmptyPolyhedron
  <2>1. DOMAIN P.Ray = {}
    BY <1>2, EmptyPolIs DEF EmptyMatrix
  <2> QED BY <1>2, <2>1, EmptyPolIs, EmptyDescribes, EmptyDescribed
<1> QED BY <1>1, <1>2 DEF Settled

\* The promise of function o on the polyhedron a, for rows to add to the
\* constraints of a or for rays.
Promise(o, rows, a, rays) ==
  [constrained |-> o \in {"Constraints2Polyhedron", "AddConstraints", "SimplifyConstraints", "SubConstraint"},
   cone |-> {x \in IntRow : /\ x[Dimension] >= 0 /\ SatisfiesAll(x, rows)
                            /\ o = "Constraints2Polyhedron" \/ SatisfiesAll(x, a.Constraint)},
   generated |-> o \in {"Rays2Polyhedron", "AddRays"},
   valid |-> {p \in IntRow : ValidFor(p, rays)},
   vertex |-> HasVertex(rays)]

\* What the call under way, or the last one, promises.
GivenRays == IF op = "AddRays" THEN Stacked(Arg.Ray, Given) ELSE Given
\* The promise of the call at hand.
Promised == Promise(op, GivenConstraints, Arg, GivenRays)

\* Spelled out.
LEMMA PromisedIs ==
  /\ Promised.constrained <=>
       op \in {"Constraints2Polyhedron", "AddConstraints", "SimplifyConstraints", "SubConstraint"}
  /\ Promised.generated <=> op \in {"Rays2Polyhedron", "AddRays"}
  /\ \A x \in IntRow : x \in Promised.cone <=>
       /\ x[Dimension] >= 0 /\ SatisfiesAll(x, GivenConstraints)
       /\ op = "Constraints2Polyhedron" \/ SatisfiesAll(x, Arg.Constraint)
  /\ \A p \in IntRow : p \in Promised.valid <=> ValidFor(p, GivenRays)
  /\ Promised.vertex <=> HasVertex(GivenRays)
BY DEF Promised, Promise

\* M is a matrix of the constraints of function o.
Gathers(M, o, rows, a) ==
  /\ o \in {"Constraints2Polyhedron", "AddConstraints", "SimplifyConstraints", "SubConstraint"}
  /\ \A x \in IntRow : SatisfiesAll(x, M) <=>
       SatisfiesAll(x, rows) /\ (o = "Constraints2Polyhedron" \/ SatisfiesAll(x, a.Constraint))

\* What a call asks of Chernikova on constraints, and on rays.
LEMMA AskedRows ==
  ASSUME NEW M, IsMatrix(M), Mat' = M, dual' = FALSE, NEW o, NEW rows, NEW a, NEW rays,
         Gathers(M, o, rows, a),
         NEW q, q = Promise(o, rows, a, rays)
  PROVE  Asked(q)'
<1>1. NbConstraints' = Length(M)
  BY DEF NbConstraints, Length
<1>2. q.constrained /\ ~q.generated
  BY DEF Promise, Gathers
<1>3. \A x \in IntRow : x \in q.cone <=> x[Dimension] >= 0 /\ SatisfiesAll(x, M)
  BY DEF Promise, Gathers
<1>4. \A x \in IntRow : Within(x, Family(M, Length(M), FALSE)) <=> x \in q.cone
  BY <1>3, FamilyRows
<1> QED BY <1>1, <1>2, <1>4 DEF Asked

\* A call on rays asks for its promise.
LEMMA AskedRays ==
  ASSUME NEW M, IsMatrix(M), Mat' = M, dual' = TRUE, NEW o, NEW rows, NEW a,
         o \in {"Rays2Polyhedron", "AddRays"}, \A r \in DOMAIN M : M[r][0] = 0 => AtInfinity(M[r]),
         NEW q, q = Promise(o, rows, a, M)
  PROVE  Asked(q)'
<1>1. NbConstraints' = Length(M)
  BY DEF NbConstraints, Length
<1>2. q.generated /\ ~q.constrained /\ (q.vertex <=> \E r \in DOMAIN M : ~AtInfinity(M[r]))
  BY DEF Promise, HasVertex
<1>3. \A p \in IntRow : p \in q.valid <=> ValidFor(p, M)
  BY DEF Promise
<1>4. \A p \in IntRow : Within(p, Family(M, Length(M), TRUE)) <=> p \in q.valid
  BY <1>3, FamilyRows
<1> QED BY <1>1, <1>2, <1>4 DEF Asked

\* AddConstraints, SubConstraint and SimplifyConstraints: the rows of the
\* polyhedron and those given, on its rays.
LEMMA ConstrainAsks ==
  ASSUME NEW P, Settled(P), NEW given, IsMatrix(given), NEW w, Constrain(P, given, w),
         NEW o \in {"AddConstraints", "SimplifyConstraints", "SubConstraint"}, NEW rays,
         NEW q, q = Promise(o, given, P, rays)
  PROVE  pc' = "head" /\ Described' /\ PairsMade' /\ Asked(q)'
<1> DEFINE M == Stacked(P.Constraint, given)
           n == Length(P.Constraint)
<1>1. IsPolyhedron(P) /\ Describes(PolWide(P), P.Ray, 0 .. P.NbBid - 1, P.NbBid .. Length(P.Ray) - 1)
  BY SettledIs
<1>2. IsMatrix(P.Constraint) /\ IsMatrix(P.Ray) /\ P.NbBid \in 0..Length(P.Ray) /\ n \in Nat /\ Length(given) \in Nat
  BY <1>1, MatrixIs DEF IsPolyhedron
<1>3. /\ IsMatrix(M) /\ Length(M) = n + Length(given) /\ \A c \in 0 .. n - 1 : M[c] = P.Constraint[c]
      /\ \A x : SatisfiesAll(x, M) <=> SatisfiesAll(x, P.Constraint) /\ SatisfiesAll(x, given)
  <2>1. IsMatrix(M) /\ Length(M) = n + Length(given) /\ \A c \in 0 .. n - 1 : M[c] = P.Constraint[c]
    BY <1>2, StackedIs
  <2>2. \A x : SatisfiesAll(x, M) <=> SatisfiesAll(x, P.Constraint) /\ SatisfiesAll(x, given)
    BY <1>2, StackedRows
  <2> QED BY <2>1, <2>2
<1>4. CallChernikova(M, P.Ray, P.NbBid, Max2(Length(P.Ray), w), n, FALSE)
  BY DEF Constrain
<1>5. PolWide(P) = Family(P.Constraint, n, FALSE)
  BY DEF PolWide
<1> HIDE DEF M, n
<1>6. n \in 0..Length(M)
  BY <1>2, <1>3
<1>7. Family(M, n, FALSE) = Family(P.Constraint, n, FALSE)
  <2>1. \A c \in 0 .. n - 1 \cup {-1} : c # -1 => M[c] = P.Constraint[c]
    BY <1>3
  <2> QED BY <2>1 DEF Family
<1>8. pc' = "head" /\ Described' /\ PairsMade' /\ Mat' = M /\ dual' = FALSE
  <2>1. Describes(Family(M, n, FALSE), P.Ray, 0 .. P.NbBid - 1, P.NbBid .. Length(P.Ray) - 1)
    BY <1>1, <1>5, <1>7
  <2>2. FALSE \in BOOLEAN
    OBVIOUS
  <2> QED BY <1>2, <1>3, <1>4, <1>6, <2>1, <2>2, CallDescribes
<1>9. Gathers(M, o, given, P)
  BY <1>3 DEF Gathers
<1>10. Asked(q)'
  BY <1>3, <1>8, <1>9, AskedRows
<1> QED BY <1>8, <1>10

\* The rows of the two constructions are unit rows.
LEMMA StartsAreUnits == AreUnits(UnitRays) /\ AreUnits(UnitLines)
<1>1. \A x \in 0 .. Dimension - 1 : UnitRow(1, x) \in IntRow /\ UnitRow(0, x) \in IntRow
  BY UnitRowIs
<1>2. \A x \in 0 .. Dimension - 1, c \in Coordinates, s \in {0, 1} : UnitRow(s, x)[c] = IF c = x + 1 THEN 1 ELSE 0
  BY DimensionAssumption DEF UnitRow, Coordinates
<1> QED BY <1>1, <1>2 DEF AreUnits, UnitRays, UnitLines

\* Constraints2Polyhedron starts from the whole space.
LEMMA Constraints2Asks ==
  ASSUME NEW M, IsMatrix(M), NEW w,
         CallChernikova(M, UnitRays, Dimension - 1, Max2(Dimension, w), 0, FALSE), NEW a, NEW rays,
         NEW q, q = Promise("Constraints2Polyhedron", M, a, rays)
  PROVE  pc' = "head" /\ Described' /\ PairsMade' /\ Asked(q)'
<1>1. Dimension \in Nat /\ Dimension - 1 \in 0..Dimension /\ IsMatrix(UnitRays) /\ Length(UnitRays) = Dimension
  BY UnitMatrices, DimensionAssumption
<1>2. Describes(Family(M, 0, FALSE), UnitRays, FirstLines(FALSE), FirstRays(FALSE))
  BY StartsAreUnits, UnitsDescribe
<1>3. Describes(Family(M, 0, FALSE), UnitRays, 0 .. (Dimension - 1) - 1, Dimension - 1 .. Length(UnitRays) - 1)
  BY <1>1, <1>2 DEF FirstLines, FirstRays
<1>4. 0 \in 0..Length(M) /\ FALSE \in BOOLEAN
  BY MatrixIs
<1>5. pc' = "head" /\ Described' /\ PairsMade' /\ Mat' = M /\ dual' = FALSE
  BY <1>1, <1>3, <1>4, CallDescribes
<1>6. Gathers(M, "Constraints2Polyhedron", M, a)
  BY DEF Gathers
<1>7. Asked(q)'
  BY <1>5, <1>6, AskedRows
<1> QED BY <1>5, <1>7

\* Rays2Polyhedron starts from no rays.
LEMMA Rays2Asks ==
  ASSUME NEW R, IsMatrix(R), \A r \in DOMAIN R : R[r][0] = 0 => AtInfinity(R[r]), NEW w,
         CallChernikova(R, UnitLines, Dimension, Max2(Dimension, w), 0, TRUE), NEW rows, NEW a,
         NEW q, q = Promise("Rays2Polyhedron", rows, a, R)
  PROVE  pc' = "head" /\ Described' /\ PairsMade' /\ Asked(q)'
<1>1. Dimension \in Nat /\ Dimension \in 0..Dimension /\ IsMatrix(UnitLines) /\ Length(UnitLines) = Dimension
  BY UnitMatrices, DimensionAssumption
<1>2. Describes(Family(R, 0, TRUE), UnitLines, FirstLines(TRUE), FirstRays(TRUE))
  BY StartsAreUnits, UnitsDescribe
<1>3. Describes(Family(R, 0, TRUE), UnitLines, 0 .. Dimension - 1, Dimension .. Length(UnitLines) - 1)
  BY <1>1, <1>2 DEF FirstLines, FirstRays
<1>4. 0 \in 0..Length(R) /\ TRUE \in BOOLEAN
  BY MatrixIs
<1>5. pc' = "head" /\ Described' /\ PairsMade' /\ Mat' = R /\ dual' = TRUE
  BY <1>1, <1>3, <1>4, CallDescribes
<1>6. Asked(q)'
  BY <1>5, AskedRays
<1> QED BY <1>5, <1>6

\* AddRays: the rays of the polyhedron and those given, on its constraints;
\* Chernikova needs that none of these could be left out.
LEMMA AddRaysAsks ==
  ASSUME NEW P, Settled(P), Irreducible(P), NEW given, IsMatrix(given),
         \A r \in DOMAIN given : given[r][0] = 0 => AtInfinity(given[r]), NEW w,
         CallChernikova(Stacked(P.Ray, given), P.Constraint, P.NbEq,
                        Max2(w, Length(P.Constraint)), Length(P.Ray), TRUE), NEW rows,
         NEW q, q = Promise("AddRays", rows, P, Stacked(P.Ray, given))
  PROVE  pc' = "head" /\ Described' /\ PairsMade' /\ Asked(q)'
<1> DEFINE M == Stacked(P.Ray, given)
           n == Length(P.Ray)
<1>1. /\ IsPolyhedron(P) /\ \A r \in DOMAIN P.Ray : P.Ray[r][0] = 0 => AtInfinity(P.Ray[r])
      /\ Describes(Family(P.Ray, n, TRUE), P.Constraint, 0 .. P.NbEq - 1, P.NbEq .. Length(P.Constraint) - 1)
  BY SettledIs
<1>2. IsMatrix(P.Constraint) /\ IsMatrix(P.Ray) /\ P.NbEq \in 0..Length(P.Constraint) /\ n \in Nat /\ Length(given) \in Nat
  BY <1>1, MatrixIs DEF IsPolyhedron
<1>3. /\ IsMatrix(M) /\ Length(M) = n + Length(given) /\ \A c \in 0 .. n - 1 : M[c] = P.Ray[c]
      /\ \A x \in DOMAIN M : (\E y \in DOMAIN P.Ray : M[x] = P.Ray[y]) \/ (\E y \in DOMAIN given : M[x] = given[y])
  BY <1>2, StackedIs
<1>4. CallChernikova(M, P.Constraint, P.NbEq, Max2(w, Length(P.Constraint)), n, TRUE) /\ q = Promise("AddRays", rows, P, M)
  OBVIOUS
<1> HIDE DEF M, n
<1>5. n \in 0..Length(M)
  BY <1>2, <1>3
<1>6. Family(M, n, TRUE) = Family(P.Ray, n, TRUE)
  <2>1. \A c \in 0 .. n - 1 \cup {} : M[c] = P.Ray[c]
    BY <1>3
  <2> QED BY <2>1 DEF Family
<1>7. pc' = "head" /\ Described' /\ PairsMade' /\ Mat' = M /\ dual' = TRUE
  <2>1. Describes(Family(M, n, TRUE), P.Constraint, 0 .. P.NbEq - 1, P.NbEq .. Length(P.Constraint) - 1)
    BY <1>1, <1>6
  <2>2. TRUE \in BOOLEAN
    OBVIOUS
  <2> QED BY <1>2, <1>3, <1>4, <1>5, <2>1, <2>2, CallDescribes
<1>8. \A r \in DOMAIN M : M[r][0] = 0 => AtInfinity(M[r])
  BY <1>1, <1>3
<1>9. Asked(q)'
  BY <1>3, <1>4, <1>7, <1>8, AskedRays
<1> QED BY <1>7, <1>9

\* The matrix SubConstraint records: its row, and the pass.
GivenKnown ==
  op = "SubConstraint" =>
    \E Con \in Constraints, Pass \in 0..3 :
      Given = [x \in 0..1 |-> IF x = 0 THEN Con ELSE WithStatus(Con, Pass)]

\* SubConstraint finds its row and its Pass in Given.
LEMMA PassGiven ==
  ASSUME NEW Con \in Constraints, NEW Pass \in 0..3, NEW G,
         G = [x \in 0..1 |-> IF x = 0 THEN Con ELSE WithStatus(Con, Pass)]
  PROVE  G[0] = Con /\ G[1] = WithStatus(Con, Pass) /\ G[1][0] = Pass /\ Con \in IntRow
<1>1. Con \in IntRow /\ Pass \in Int
  BY ConstraintsAssumption DEF IntRow
<1>2. WithStatus(Con, Pass)[0] = Pass
  BY <1>1, StatusOnly
<1>3. G[0] = Con /\ G[1] = WithStatus(Con, Pass)
  OBVIOUS
<1> QED BY <1>1, <1>2, <1>3

\* Each of the six functions asks Chernikova what it promises.
LEMMA CallAsks ==
  ASSUME Settled(Pol), IsMatrix(Arg.Constraint),
         \/ Constraints2Polyhedron \/ Rays2Polyhedron \/ AddConstraints
         \/ SimplifyConstraints \/ SubConstraint \/ AddRays,
         op' = "AddRays" => Irreducible(Pol), NEW q, q = Promised'
  PROVE  pc' = "head" /\ Described' /\ PairsMade' /\ Asked(q)' /\ GivenKnown'
<1>1. ASSUME NEW name, NEW given, Call(name, given) PROVE Arg' = Pol /\ op' = name /\ Given' = given
  BY <1>1 DEF Call
<1>2. q = Promise(op', GivenConstraints', Arg', GivenRays')
  BY DEF Promised
<1>3. op' # "SubConstraint" => GivenConstraints' = Given' /\ GivenKnown'
  BY DEF GivenConstraints, GivenKnown
<1>4. op' # "AddRays" => GivenRays' = Given'
  BY DEF GivenRays
<1>5. ASSUME NEW R \in RayMatrices PROVE IsMatrix(R) /\ \A r \in DOMAIN R : R[r][0] = 0 => AtInfinity(R[r])
  BY RaysAssumption DEF AtInfinity
<1>6. CASE Constraints2Polyhedron
  <2>1. PICK M \in ConstraintMatrices, w \in WorkSpaces :
          /\ Call("Constraints2Polyhedron", M)
          /\ CallChernikova(M, UnitRays, Dimension - 1, Max2(Dimension, w), 0, FALSE)
    BY <1>6 DEF Constraints2Polyhedron
  <2>2. IsMatrix(M)
    BY ConstraintsAssumption
  <2>3. q = Promise("Constraints2Polyhedron", M, Arg', GivenRays') /\ GivenKnown'
    BY <1>1, <1>2, <1>3, <2>1
  <2> QED BY <2>1, <2>2, <2>3, Constraints2Asks
<1>7. CASE Rays2Polyhedron
  <2>1. PICK R \in RayMatrices, w \in WorkSpaces :
          /\ Call("Rays2Polyhedron", R)
          /\ CallChernikova(R, UnitLines, Dimension, Max2(Dimension, w), 0, TRUE)
    BY <1>7 DEF Rays2Polyhedron
  <2>2. op' = "Rays2Polyhedron" /\ Given' = R
    BY <1>1, <2>1
  <2>3. q = Promise("Rays2Polyhedron", GivenConstraints', Arg', R) /\ GivenKnown'
    BY <1>2, <1>3, <1>4, <2>2
  <2> QED BY <1>5, <2>1, <2>3, Rays2Asks
<1>8. CASE AddConstraints
  <2>1. PICK M \in ConstraintMatrices, w \in WorkSpaces :
          Call("AddConstraints", M) /\ Constrain(Pol, M, w)
    BY <1>8 DEF AddConstraints
  <2>2. IsMatrix(M)
    BY ConstraintsAssumption
  <2>3. q = Promise("AddConstraints", M, Pol, GivenRays') /\ GivenKnown'
    BY <1>1, <1>2, <1>3, <2>1
  <2> QED BY <2>1, <2>2, <2>3, ConstrainAsks
<1>9. CASE SimplifyConstraints
  <2>1. PICK w \in WorkSpaces :
          Call("SimplifyConstraints", Arg.Constraint) /\ Constrain(Pol, Arg.Constraint, w)
    BY <1>9 DEF SimplifyConstraints
  <2>2. q = Promise("SimplifyConstraints", Arg.Constraint, Pol, GivenRays') /\ GivenKnown'
    BY <1>1, <1>2, <1>3, <2>1
  <2> QED BY <2>1, <2>2, ConstrainAsks
<1>10. CASE SubConstraint
  <2>1. PICK Con \in Constraints, Pass \in 0..3, w \in WorkSpaces :
          /\ Call("SubConstraint", [x \in 0..1 |-> IF x = 0 THEN Con ELSE WithStatus(Con, Pass)])
          /\ Constrain(Pol, [x \in {0} |-> Inverted(Con, Pass)], w)
    BY <1>10 DEF SubConstraint
  <2>2. IsMatrix([x \in {0} |-> Inverted(Con, Pass)])
    BY InvertedIs
  <2>3. /\ op' = "SubConstraint" /\ Arg' = Pol
        /\ Given' = [x \in 0..1 |-> IF x = 0 THEN Con ELSE WithStatus(Con, Pass)]
    BY <1>1, <2>1
  <2>4. Given'[0] = Con /\ Given'[1][0] = Pass
    BY <2>3, PassGiven
  <2>5. GivenConstraints' = [x \in {0} |-> Inverted(Con, Pass)]
    BY <2>3, <2>4 DEF GivenConstraints
  <2>6. GivenKnown'
    BY <2>3 DEF GivenKnown
  <2>7. q = Promise("SubConstraint", [x \in {0} |-> Inverted(Con, Pass)], Pol, GivenRays')
    BY <1>2, <2>3, <2>5
  <2> QED BY <2>1, <2>2, <2>6, <2>7, ConstrainAsks
<1>11. CASE AddRays
  <2>1. PICK R \in RayMatrices, w \in WorkSpaces :
          /\ Call("AddRays", R)
          /\ CallChernikova(Stacked(Pol.Ray, R), Pol.Constraint, Pol.NbEq,
                            Max2(w, Length(Pol.Constraint)), Length(Pol.Ray), TRUE)
    BY <1>11 DEF AddRays
  <2>2. op' = "AddRays" /\ Arg' = Pol /\ Given' = R
    BY <1>1, <2>1
  <2>3. GivenRays' = Stacked(Pol.Ray, R)
    BY <2>2 DEF GivenRays
  <2>4. q = Promise("AddRays", GivenConstraints', Pol, Stacked(Pol.Ray, R)) /\ GivenKnown'
    BY <1>2, <1>3, <2>2, <2>3
  <2> QED BY <1>5, <2>1, <2>2, <2>4, AddRaysAsks
<1> QED BY <1>6, <1>7, <1>8, <1>9, <1>10, <1>11

-----------------------------------------------------------------------------
(* Chernikova runs, and hands over to Remove_Redundants.                   *)

\* Chernikova works on the promise q.
Describing(q) == pc \in {"head", "line", "sort", "pairs"} /\ Described /\ PairsMade /\ Asked(q)

\* It does until it is done; ...
LEMMA InChernikovaAnswers ==
  ASSUME Computing, InChernikova, NEW q, Describing(q)
  PROVE  Describing(q)'
<1>1. ProcessConstraint /\ ChernikovaInv /\ Described /\ PairsMade /\ Asked(q)
  BY DEF InChernikova, Computing, Describing
<1>2. Described' /\ PairsMade'
  BY <1>1, ProcessConstraintDescribes
<1>3. pc' \in {"head", "line", "sort", "pairs"} /\ Mat' = Mat /\ dual' = dual
  <2>1. CASE Evaluate
    BY <2>1 DEF Evaluate
  <2>2. CASE LineToRay \/ DiscardLine
    BY <2>2 DEF LineToRay, DiscardLine, NextConstraint
  <2>3. CASE Sort \/ StartPairs
    BY <2>3 DEF Sort, StartPairs
  <2>4. CASE AddRay \/ SkipPair
    BY <2>4 DEF AddRay, SkipPair, InPairs
  <2>5. CASE Eliminate
    BY <2>5 DEF Eliminate, NextConstraint
  <2> QED BY <1>1, <2>1, <2>2, <2>3, <2>4, <2>5 DEF ProcessConstraint
<1>4. Asked(q)'
  BY <1>1, <1>3 DEF Asked, NbConstraints
<1> QED BY <1>2, <1>3, <1>4 DEF Describing

\* At the end the rows of Chernikova and its matrix are an exact pair.
LEMMA ReturnedExact ==
  ASSUME ChernikovaInv, Returned, Described
  PROVE  LET A == Family(Mat, NbConstraints, dual)
         IN  Exact(A, Ray) /\ \A x \in IntRow : Obeys(x, A, Flat(A, Ray)) <=> Within(x, A)
<1> DEFINE A == Family(Mat, NbConstraints, dual)
<1>1. /\ ChernikovaTyped /\ Verified /\ pc = "head" /\ k = NbConstraints
      /\ NbRay \in Nat /\ NbBid \in 0..NbRay /\ Ray \in MatrixOf(NbRay)
  BY DEF ChernikovaInv, Returned, ChernikovaTyped, MatrixOf
<1>2. A = Known /\ OldRays = NbBid .. NbRay - 1
  BY <1>1 DEF Known, OldRays
<1> HIDE DEF A
<1>3. Describes(A, Ray, 0 .. NbBid - 1, NbBid .. NbRay - 1)
  BY <1>2 DEF Described
<1>4. IsFamily(Ray) /\ DOMAIN Ray = 0 .. NbRay - 1
  BY <1>1, RowsAre
<1>5. 0 .. NbRay - 1 = (0 .. NbBid - 1) \cup (NbBid .. NbRay - 1)
  BY <1>1
<1>6. ASSUME NEW n \in 0 .. NbBid - 1, NEW c \in DOMAIN A PROVE InnerProduct(Ray[n], A[c]) = 0
  <2>1. n \in 0 .. NbRay - 1 /\ Ray[n] \in IntRow
    BY <1>1, <1>5 DEF MatrixOf
  <2>2. InLineality(Ray[n], Mat, Before, dual)
    BY <1>1 DEF Verified
  <2>3. Zeros(Ray[n], A) = DOMAIN A
    BY <1>2, <2>1, <2>2, KnownIs
  <2> QED BY <2>3 DEF Zeros
<1>7. Exact(A, Ray) /\ \A x \in IntRow : Obeys(x, A, Flat(A, Ray)) <=> Within(x, A)
  BY <1>3, <1>4, <1>5, <1>6, DescribedExact
<1> QED BY <1>7 DEF A

\* ... its rays then describe the cone, which Remove_Redundants takes over.
LEMMA ReducePrimalMeans ==
  ASSUME Computing, ReducePrimal, NEW q, Describing(q)
  PROVE  Kept(q)'
<1>1. /\ ChernikovaInv /\ Returned /\ Described /\ Asked(q) /\ ~dual /\ dual = FALSE
      /\ UNCHANGED <<Mat, Ray>> /\ NbConstraints' = NbConstraints
  BY DEF Computing, Describing, ReducePrimal, ChernikovaInv, ChernikovaTyped, NbConstraints
<1>2. pc' = "step0" /\ InStep0'
  BY <1>1, ReducePrimalStep
<1>3. Exact(Wide, Ray) /\ \A x \in IntRow : Obeys(x, Wide, Flat(Wide, Ray)) <=> Within(x, Wide)
  BY <1>1, ReturnedExact DEF Wide
<1>4. -1 \in DOMAIN Wide /\ Wide[-1] = PositivityRow
  BY DEF Wide, Family
<1>5. q.constrained /\ ~q.generated /\ \A x \in IntRow : Within(x, Wide) <=> x \in q.cone
  BY <1>1 DEF Asked, Wide
<1>6. Means(Wide, Ray, q)
  BY <1>3, <1>4, <1>5 DEF Means
<1>7. Means(Wide, Ray, q)'
  <2>1. Wide' = Wide
    BY <1>1 DEF Wide
  <2> QED BY <1>1, <1>6, <2>1
<1> QED BY <1>2, <1>7 DEF Kept

\* The rows of Chernikova become the constraints; with the positivity
\* constraint, which the rays given satisfy, they mean the same.
LEMMA ReduceDualMeans ==
  ASSUME Computing, ReduceDual, NEW q, Describing(q)
  PROVE  Kept(q)'
<1>1. /\ ChernikovaInv /\ Returned /\ Described /\ Asked(q) /\ dual /\ dual = TRUE /\ Upward(Mat)
      /\ Mat' = Ray /\ Ray' = Mat
  BY DEF Computing, Describing, ReduceDual, ChernikovaInv, ChernikovaTyped
<1>2. /\ NbConstraints \in Nat /\ Mat \in MatrixOf(NbConstraints)
      /\ NbRay \in Nat /\ Ray \in MatrixOf(NbRay)
  BY <1>1 DEF ChernikovaInv, ChernikovaTyped, MatrixOf
<1>3. NbConstraints' = NbRay
  BY <1>1, <1>2, LengthIs DEF NbConstraints, Length
<1>4. pc' = "step0" /\ InStep0'
  BY <1>1, ReduceDualStep
<1> DEFINE n == NbConstraints
           B == Family(Ray, NbRay, FALSE)
<1>5. Family(Mat, n, TRUE) = Mat
  <2>1. Mat = [c \in 0 .. n - 1 |-> Mat[c]] /\ \A c \in 0 .. n - 1 : c # -1
    BY <1>2 DEF MatrixOf
  <2> QED BY <2>1 DEF Family
<1>6. Exact(Mat, Ray) /\ \A p \in IntRow : Obeys(p, Mat, Flat(Mat, Ray)) <=> Within(p, Mat)
  BY <1>1, <1>5, ReturnedExact
<1>7. /\ q.generated /\ ~q.constrained /\ (q.vertex <=> \E r \in DOMAIN Mat : ~AtInfinity(Mat[r]))
      /\ \A p \in IntRow : Within(p, Mat) <=> p \in q.valid
      /\ \A r \in DOMAIN Mat : Mat[r][0] = 0 => AtInfinity(Mat[r])
  BY <1>1, <1>5 DEF Asked
<1>8. /\ IsFamily(B) /\ DOMAIN B = 0 .. NbRay - 1 \cup {-1} /\ B[-1] = PositivityRow /\ PositivityRow \in IntRow
      /\ \A c \in 0 .. NbRay - 1 : B[c] = Ray[c]
      /\ DOMAIN Ray = 0 .. NbRay - 1 /\ -1 \notin 0 .. NbRay - 1
      /\ DOMAIN Mat = 0 .. n - 1 /\ \A r \in DOMAIN Mat : Mat[r] \in IntRow
  BY <1>2, WideIs DEF MatrixOf
<1>9. Wide' = B
  BY <1>1, <1>3 DEF Wide
<1> HIDE DEF B, n
<1>10. ASSUME NEW r \in DOMAIN Mat
       PROVE  /\ InnerProduct(Mat[r], PositivityRow) = Mat[r][Dimension] /\ Mat[r][Dimension] \in Nat
              /\ InnerProduct(PositivityRow, Mat[r]) = Mat[r][Dimension]
  <2>1. Mat[r][Dimension] \in Int
    BY <1>8, DimensionAssumption DEF IntRow
  <2>2. Mat[r][Dimension] >= 0
    BY <1>1 DEF Upward
  <2> QED BY <1>8, <2>1, <2>2, PositivityProduct, InnerProductSymmetric
<1>11. Obeys(PositivityRow, Mat, Flat(Mat, Ray))
  <2>1. ASSUME NEW r \in DOMAIN Mat PROVE Verifies(PositivityRow, Mat[r])
    BY <1>7, <1>10 DEF Verifies, AtInfinity
  <2>2. Within(PositivityRow, Mat)
    BY <2>1 DEF Within
  <2> QED BY <1>6, <1>8, <2>2
<1>12. Exact(Ray, Mat)
  BY <1>6, ExactSwapped
<1>13. ASSUME NEW b \in DOMAIN B, NEW r \in DOMAIN Mat
       PROVE  /\ InnerProduct(Mat[r], B[b]) >= 0
              /\ r \in Flat(Mat, Ray) => InnerProduct(Mat[r], B[b]) = 0
  <2>1. CASE b \in 0 .. NbRay - 1
    <3>1. b \in DOMAIN Ray /\ B[b] = Ray[b]
      BY <1>8, <2>1
    <3>2. InnerProduct(Mat[r], Ray[b]) \in Nat /\ (r \in Flat(Mat, Ray) => InnerProduct(Mat[r], Ray[b]) = 0)
      BY <1>12, <3>1, ExactProducts
    <3> QED BY <3>1, <3>2
  <2>2. CASE b = -1
    BY <1>8, <1>10, <1>11, <2>2 DEF Obeys
  <2> QED BY <1>8, <2>1, <2>2
<1>14. ASSUME NEW x \in IntRow, Obeys(x, B, Flat(B, Mat)) PROVE Obeys(x, Ray, Flat(Ray, Mat))
  <2>1. ASSUME NEW c \in DOMAIN Ray
        PROVE  c \in DOMAIN B /\ B[c] = Ray[c] /\ (c \in Flat(Ray, Mat) => c \in Flat(B, Mat))
    BY <1>8 DEF Flat
  <2> QED BY <1>14, <2>1 DEF Obeys
<1>15. Replaces(B, Ray, Mat)
  BY <1>8, <1>12, <1>13, <1>14, ExactReplaced
<1>16. Exact(B, Mat) /\ Flat(Mat, B) = Flat(Mat, Ray)
  BY <1>15 DEF Replaces
<1>17. -1 \in Flat(B, Mat) <=> \A r \in DOMAIN Mat : AtInfinity(Mat[r])
  BY <1>8, <1>10 DEF Flat, AtInfinity
<1>18. Means(B, Mat, q)
  BY <1>6, <1>7, <1>8, <1>16, <1>17 DEF Means
<1>19. Means(Wide, Ray, q)'
  BY <1>1, <1>9, <1>18
<1> QED BY <1>4, <1>19 DEF Kept

-----------------------------------------------------------------------------
(* The invariant and the theorems.                                         *)

\* Nothing happens.
LEMMA DescribingStays ==
  ASSUME UNCHANGED vars, NEW q, Describing(q)
  PROVE  Describing(q)'
<1>1. UNCHANGED <<pc, Mat, k, dual, Ray, NbBid, NbRay, sup_bound, i, j, bound>>
  BY DEF vars, chernikovaVars, bounds, pair
<1>2. Known' = Known /\ OldRays' = OldRays /\ NbConstraints' = NbConstraints
  BY <1>1 DEF Known, OldRays, NbConstraints
<1>3. \A a, b : /\ Crosses(a, b)' <=> Crosses(a, b)
                /\ Reached(a, b)' <=> Reached(a, b)
  BY <1>1, <1>2 DEF Crosses, Reached
<1>4. Visited' = Visited
  BY <1>2, <1>3 DEF Visited
<1>5. Described' /\ PairsMade'
  BY <1>1, <1>2, <1>4 DEF Described, PairsMade, Describing
<1>6. Asked(q)'
  BY <1>1, <1>2 DEF Asked, Describing
<1> QED BY <1>1, <1>5, <1>6 DEF Describing

\* Nothing changes.
LEMMA KeptStays ==
  ASSUME UNCHANGED vars, NEW q, Kept(q)
  PROVE  Kept(q)'
<1>1. UNCHANGED <<pc, Mat, k, Ray, Sat, NbBid, NbRay, i, j, bits, NbEq, NbEq2, NbBid2, Dim_RaySpace, Pol>>
  BY DEF vars, chernikovaVars, pair, reduceVars, counts
<1>2. /\ NbConstraints' = NbConstraints /\ AllRays' = AllRays /\ ConstraintRows' = ConstraintRows
      /\ Wide' = Wide /\ Irredundants' = Irredundants /\ Generators' = Generators
  BY <1>1 DEF NbConstraints, AllRays, ConstraintRows, Wide, Irredundants, Generators
<1>3. Chosen' = Chosen /\ ChosenRays' = ChosenRays
  BY <1>1, <1>2 DEF Chosen, ChosenRays, RowsKept, RaysKept
<1>4. (ReduceTyped => ReduceTyped') /\ (BitsKnown => BitsKnown') /\ (LinesKnown => LinesKnown')
  BY <1>1, <1>2 DEF ReduceTyped, Upward, BitsKnown, LinesKnown, Lines, SaturatesAll, Saturates
<1>5. /\ EqualitiesKnown(j) => EqualitiesKnown(j)'
      /\ EqualitiesKnown(NbConstraints) => EqualitiesKnown(NbConstraints)'
  BY <1>1, <1>2 DEF EqualitiesKnown, EqualitiesBefore, IsEquality, Saturates
<1>6. (InStep0 => InStep0') /\ (InStep1 => InStep1')
  BY <1>1, <1>2, <1>4, <1>5 DEF InStep0, InStep1, FirstBits, SaturatedBefore, Saturates
<1>7. (InStep2 => InStep2') /\ (InStep3 => InStep3')
  BY <1>1, <1>2, <1>4, <1>5 DEF InStep2, InStep3, IsEquality, Saturates
<1>8. (InStep4 => InStep4') /\ (Separated => Separated')
  BY <1>1, <1>2, <1>4, <1>7 DEF InStep4, Separated, SaturatesAll
<1>9. Building => Building'
  BY <1>1, <1>2, <1>8 DEF Building
<1>10. (InStep9 => InStep9') /\ (InStep10 => InStep10')
  BY <1>1, <1>2, <1>9 DEF InStep9, InStep10
<1>11. (Means(Wide, Ray, q))' <=> Means(Wide, Ray, q)
  BY <1>1, <1>2
<1>12. (Alive(Wide, Ray, q))' <=> Alive(Wide, Ray, q)
  BY <1>1, <1>2
<1>13. (RayCounts => RayCounts') /\ (RowCounts(j) => RowCounts(j)') /\ (RowCounts(NbConstraints) => RowCounts(NbConstraints)')
  BY <1>1, <1>2 DEF RayCounts, RowCounts
<1>14. (Counting(q) => Counting(q)') /\ (Counted(q) => Counted(q)')
  BY <1>12, <1>13 DEF Counting, Counted
<1>15. Leveled(q) => Leveled(q)'
  BY <1>1, <1>2, <1>14 DEF Leveled
<1>16. (Reduced(Mat, NbEq2, NbEq) => Reduced(Mat, NbEq2, NbEq)') /\ (Reduced(Ray, NbBid2, NbBid) => Reduced(Ray, NbBid2, NbBid)')
  BY <1>1
<1>17. (Ready(q) => Ready(q)') /\ (Shaped(q) => Shaped(q)')
  BY <1>1, <1>2, <1>12, <1>15, <1>16 DEF Ready, Shaped
<1>18. RowsSorted => RowsSorted'
  BY <1>1, <1>2 DEF RowsSorted
<1>19. Selected(q) => Selected(q)'
  BY <1>1, <1>3, <1>16 DEF Selected
<1>20. /\ RowsListed(j) => RowsListed(j)'
       /\ RowsListed(NbConstraints) => RowsListed(NbConstraints)'
       /\ LinesListed => LinesListed'
  BY <1>1, <1>2 DEF RowsListed, LinesListed
<1>21. (RaysListed(i) => RaysListed(i)') /\ (Apart(i) => Apart(i)')
  BY <1>1, <1>2, <1>3 DEF RaysListed, Apart
<1>22. Listing(q) => Listing(q)'
  BY <1>19, <1>20, <1>21 DEF Listing
<1>23. Spaced => Spaced'
  BY <1>1 DEF Spaced
<1>24. Fulfils(Pol, q) => (Fulfils(Pol, q))'
  BY <1>1
<1> QED BY <1>1, <1>6, <1>7, <1>8, <1>10, <1>11, <1>14, <1>15, <1>16, <1>17, <1>13, <1>18, <1>19, <1>20,
           <1>22, <1>23, <1>24 DEF Kept

\* The inductive invariant: that of PolyhedronCalls_proof, and what the call
\* under way, or the last one, promises is what the phase it is in keeps.
ContractsInv ==
  /\ CallsInv /\ GivenKnown
  /\ \A q : q = Promised => Describing(q) \/ Kept(q)

\* Chernikova is started only on constraints none of which could be left out.
AddsToIrreducible == op = "AddRays" => Irreducible(Arg)

\* The promise is made by the arguments alone.
LEMMA PromisedStays ==
  ASSUME UNCHANGED <<op, Given, Arg>>
  PROVE  Promised' = Promised /\ (GivenKnown => GivenKnown')
<1>1. GivenConstraints' = GivenConstraints /\ GivenRays' = GivenRays
  BY DEF GivenConstraints, GivenRays
<1> QED BY <1>1 DEF Promised, GivenKnown

\* Before the first call.
LEMMA InitContracts == Init => ContractsInv
<1> SUFFICES ASSUME Init PROVE ContractsInv
  OBVIOUS
<1>1. pc = "reduced" /\ Pol = UniversePolyhedron /\ op = "none"
  BY DEF Init
<1>2. GivenKnown /\ ~Promised.constrained /\ ~Promised.generated
  BY <1>1, PromisedIs DEF GivenKnown
<1>3. /\ Whole(UniversePolyhedron)
      /\ -1 \notin Flat(PolWide(UniversePolyhedron), UniversePolyhedron.Ray)
  BY UniverseWhole
<1>4. ASSUME NEW q, q = Promised PROVE Kept(q)
  <2>1. ~q.constrained /\ ~q.generated
    BY <1>2, <1>4
  <2>2. IsPolyhedron(UniversePolyhedron) /\ Exact(PolWide(UniversePolyhedron), UniversePolyhedron.Ray)
    BY <1>3 DEF Whole, Full
  <2>3. -1 \in DOMAIN PolWide(UniversePolyhedron) /\ PolWide(UniversePolyhedron)[-1] = PositivityRow
    BY <2>2, PolRows
  <2>4. Alive(PolWide(UniversePolyhedron), UniversePolyhedron.Ray, q)
    BY <1>3, <2>1, <2>2, <2>3 DEF Alive, Means
  <2> QED BY <1>1, <1>3, <2>4 DEF Kept, Fulfils
<1> QED BY <1>2, <1>4, InitCalls DEF ContractsInv

\* Between calls the polyhedron is one that a call has returned.
LEMMA ReturnedSettled ==
  ASSUME ContractsInv, pc = "reduced"
  PROVE  Settled(Pol) /\ Fulfils(Pol, Promised)
<1>1. \A q : q = Promised => Fulfils(Pol, q)
  BY DEF ContractsInv, Describing, Kept
<1>2. Fulfils(Pol, Promised)
  BY <1>1
<1> QED BY <1>2 DEF Fulfils, Settled

\* Every step keeps it, as long as the polyhedra given to AddRays are such.
LEMMA ContractsStep ==
  ASSUME ContractsInv, CallsInv', AddsToIrreducible', [Next]_vars
  PROVE  ContractsInv'
<1>1. CASE \/ Constraints2Polyhedron \/ Rays2Polyhedron \/ AddConstraints
           \/ SimplifyConstraints \/ SubConstraint \/ AddRays
  <2>1. pc = "reduced" /\ Arg' = Pol
    BY <1>1 DEF Constraints2Polyhedron, Rays2Polyhedron, AddConstraints, SimplifyConstraints,
       SubConstraint, AddRays, Call
  <2>2. Settled(Pol) /\ IsMatrix(Arg.Constraint)
    BY <2>1, ReturnedSettled DEF ContractsInv, CallsInv
  <2>3. op' = "AddRays" => Irreducible(Pol)
    BY <2>1 DEF AddsToIrreducible
  <2>4. ASSUME NEW q, q = Promised' PROVE Describing(q)' /\ GivenKnown'
    BY <1>1, <2>2, <2>3, <2>4, CallAsks DEF Describing
  <2> QED BY <2>4 DEF ContractsInv
<1>2. CASE InChernikova
  <2>1. pc \in {"head", "line", "sort", "pairs"}
    BY <1>2 DEF InChernikova, ProcessConstraint, Evaluate, LineToRay, DiscardLine, Sort, StartPairs,
       AddRay, SkipPair, InPairs, Eliminate
  <2>2. Computing
    BY <2>1 DEF ContractsInv, CallsInv, Phase
  <2>3. Promised' = Promised /\ GivenKnown'
    BY <1>2, PromisedStays DEF InChernikova, callVars, ContractsInv
  <2>4. ASSUME NEW q, q = Promised PROVE Describing(q)'
    <3>1. Describing(q)
      BY <2>1, <2>4 DEF ContractsInv, Kept
    <3> QED BY <1>2, <2>2, <3>1, InChernikovaAnswers
  <2> QED BY <2>3, <2>4 DEF ContractsInv
<1>3. CASE ReducePrimal \/ ReduceDual
  <2>1. pc = "head" /\ UNCHANGED <<op, Given, Arg>>
    BY <1>3 DEF ReducePrimal, ReduceDual, Returned, CallUnchanged, callVars
  <2>2. Computing
    BY <2>1 DEF ContractsInv, CallsInv, Phase
  <2>3. Promised' = Promised /\ GivenKnown'
    BY <2>1, PromisedStays DEF ContractsInv
  <2>4. ASSUME NEW q, q = Promised PROVE Kept(q)'
    <3>1. Describing(q)
      BY <2>1, <2>4 DEF ContractsInv, Kept
    <3> QED BY <1>3, <2>2, <3>1, ReducePrimalMeans, ReduceDualMeans
  <2> QED BY <2>3, <2>4 DEF ContractsInv
<1>4. CASE InRemove
  <2>1. RemoveStep /\ UNCHANGED <<op, Given, Arg>>
    BY <1>4 DEF InRemove, callVars
  <2>2. pc \notin {"head", "line", "sort", "pairs"}
    BY <2>1 DEF RemoveStep, ResetRays, RemovePositivity, CountConstraint, CountLines, SlideEquality,
       FilterEqualities, ReduceEqualities, RaiseLine, ReduceLines, ClassifyConstraints, ClassifyRays,
       KeepConstraint, StartRays, KeepRay, IncludePositivity
  <2>3. Promised' = Promised /\ GivenKnown'
    BY <2>1, PromisedStays DEF ContractsInv
  <2>4. ASSUME NEW q, q = Promised PROVE Kept(q)'
    <3>1. Kept(q)
      BY <2>2, <2>4 DEF ContractsInv, Describing
    <3> QED BY <2>1, <3>1, RemoveMeans
  <2> QED BY <2>3, <2>4 DEF ContractsInv
<1>5. CASE UNCHANGED vars
  <2>1. Promised' = Promised /\ GivenKnown'
    BY <1>5, PromisedStays DEF ContractsInv, vars, callVars
  <2>2. ASSUME NEW q, q = Promised PROVE (Describing(q) \/ Kept(q))'
    BY <1>5, <2>2, DescribingStays, KeptStays DEF ContractsInv
  <2> QED BY <2>1, <2>2 DEF ContractsInv
<1> QED BY <1>1, <1>2, <1>3, <1>4, <1>5 DEF Next

(***************************************************************************)
(* As long as AddRays is called only on polyhedra without redundant        *)
(* inequalities, Chernikova and Remove_Redundants keep in every phase what *)
(* the call promises.  The hypothesis is the one Chernikova needs of the   *)
(* rows it starts from; the run four_dimensions shows a call without it.   *)
(***************************************************************************)
THEOREM ContractsInvariance == Spec /\ []AddsToIrreducible => []ContractsInv
<1>1. ContractsInv /\ CallsInv' /\ AddsToIrreducible' /\ [Next]_vars => ContractsInv'
  BY ContractsStep
<1> QED BY <1>1, InitContracts, Invariance, PTL DEF Spec

-----------------------------------------------------------------------------
(* What a call has promised, as its caller reads it.                       *)

\* The rows of a polyhedron, and its rays, read by their status words.
LEMMA WholeReads ==
  ASSUME NEW P, Whole(P)
  PROVE  /\ \A x \in IntRow : x[Dimension] >= 0 =>
              (Obeys(x, PolWide(P), Flat(PolWide(P), P.Ray)) <=> SatisfiesAll(x, P.Constraint))
         /\ \A p \in IntRow : Obeys(p, P.Ray, Flat(P.Ray, PolWide(P))) <=> ValidFor(p, P.Ray)
<1> DEFINE A == PolWide(P)
           R == P.Ray
           m == Length(P.Constraint)
           n == Length(P.Ray)
<1>1. /\ IsPolyhedron(P) /\ Flat(A, R) = 0 .. P.NbEq - 1 /\ Flat(R, A) = 0 .. P.NbBid - 1
      /\ \A c \in 0 .. P.NbEq - 1 : P.Constraint[c][0] = 0
      /\ \A r \in 0 .. P.NbBid - 1 : R[r][0] = 0
  BY DEF Whole, Full
<1>2. /\ DOMAIN A = 0 .. m - 1 \cup {-1} /\ -1 \notin 0 .. m - 1 /\ A[-1] = PositivityRow
      /\ \A c \in 0 .. m - 1 : A[c] = P.Constraint[c] /\ P.Constraint[c] \in IntRow
      /\ DOMAIN P.Constraint = 0 .. m - 1
      /\ IsFamily(R) /\ DOMAIN R = 0 .. n - 1 /\ m \in Nat /\ n \in Nat
      /\ P.NbEq \in 0..m /\ P.NbBid \in 0..n
  BY <1>1, PolRows
<1>3. \A c \in 0 .. m - 1 : c \in 0 .. P.NbEq - 1 <=> P.Constraint[c][0] = 0
  <2>1. ASSUME NEW c \in 0 .. m - 1, c \notin 0 .. P.NbEq - 1 PROVE P.Constraint[c][0] = 1
    <3>1. c \in P.NbEq .. m - 1
      BY <1>2, <2>1
    <3> QED BY <1>1, <3>1 DEF IsPolyhedron
  <2> QED BY <1>1, <2>1
<1>4. \A r \in 0 .. n - 1 : r \in 0 .. P.NbBid - 1 <=> R[r][0] = 0
  <2>1. ASSUME NEW r \in 0 .. n - 1, r \notin 0 .. P.NbBid - 1 PROVE R[r][0] = 1
    <3>1. r \in P.NbBid .. n - 1
      BY <1>2, <2>1
    <3> QED BY <1>1, <3>1 DEF IsPolyhedron
  <2> QED BY <1>1, <2>1
<1>5. -1 \notin 0 .. P.NbEq - 1
  BY <1>2
<1> HIDE DEF A, R, m, n
<1>6. ASSUME NEW x \in IntRow, x[Dimension] >= 0
      PROVE  Obeys(x, A, Flat(A, R)) <=> SatisfiesAll(x, P.Constraint)
  <2>1. InnerProduct(x, A[-1]) >= 0
    BY <1>2, <1>6, PositivityProduct
  <2>2. \A c \in 0 .. m - 1 : InnerProduct(x, P.Constraint[c]) \in Int
    BY <1>2, InnerProductInt
  <2>3. Obeys(x, A, Flat(A, R)) <=>
          \A c \in 0 .. m - 1 : /\ InnerProduct(x, P.Constraint[c]) >= 0
                                /\ P.Constraint[c][0] = 0 => InnerProduct(x, P.Constraint[c]) = 0
    BY <1>1, <1>2, <1>3, <1>5, <2>1 DEF Obeys
  <2>4. \A c \in 0 .. m - 1 :
          SatisfiesRow(x, P.Constraint[c]) <=>
            /\ InnerProduct(x, P.Constraint[c]) >= 0
            /\ P.Constraint[c][0] = 0 => InnerProduct(x, P.Constraint[c]) = 0
    BY <2>2 DEF SatisfiesRow
  <2> QED BY <1>2, <2>3, <2>4 DEF SatisfiesAll
<1>7. ASSUME NEW p \in IntRow PROVE Obeys(p, R, Flat(R, A)) <=> ValidFor(p, R)
  <2>1. \A r \in 0 .. n - 1 : /\ InnerProduct(p, R[r]) \in Int
                              /\ InnerProduct(R[r], p) = InnerProduct(p, R[r])
    BY <1>2, InnerProductInt, InnerProductSymmetric DEF IsFamily
  <2>2. Obeys(p, R, Flat(R, A)) <=>
          \A r \in 0 .. n - 1 : /\ InnerProduct(p, R[r]) >= 0
                                /\ R[r][0] = 0 => InnerProduct(p, R[r]) = 0
    BY <1>1, <1>2, <1>4 DEF Obeys
  <2>3. ValidFor(p, R) <=>
          \A r \in 0 .. n - 1 : IF R[r][0] = 0 THEN InnerProduct(p, R[r]) = 0
                                               ELSE InnerProduct(p, R[r]) >= 0
    BY <1>2, <2>1 DEF ValidFor
  <2> QED BY <2>1, <2>2, <2>3
<1> QED BY <1>6, <1>7 DEF A, R

\* A promise kept, in those terms.
LEMMA FulfilsMeans ==
  ASSUME NEW P, NEW q, Fulfils(P, q)
  PROVE  /\ q.constrained => \A x \in IntRow : x[Dimension] > 0 =>
              (SatisfiesAll(x, P.Constraint) <=> x \in q.cone)
         /\ q.generated => IF q.vertex THEN \A p \in IntRow : ValidFor(p, P.Ray) <=> p \in q.valid
                                       ELSE IsEmpty(P)
<1>1. CASE Whole(P) /\ Alive(PolWide(P), P.Ray, q)
  <2>1. ASSUME NEW x \in IntRow, x[Dimension] > 0, q.constrained
        PROVE  SatisfiesAll(x, P.Constraint) <=> x \in q.cone
    <3>1. x[Dimension] \in Int
      BY DimensionAssumption DEF IntRow
    <3>2. x[Dimension] >= 0
      BY <2>1, <3>1
    <3> QED BY <1>1, <2>1, <3>2, WholeReads DEF Alive, Means
  <2>2. ASSUME q.generated
        PROVE  q.vertex /\ \A p \in IntRow : ValidFor(p, P.Ray) <=> p \in q.valid
    BY <1>1, <2>2, WholeReads DEF Alive, Means
  <2> QED BY <2>1, <2>2
<1>2. CASE P = EmptyPolyhedron /\ Barren(q)
  <2>1. ASSUME NEW x \in IntRow, x[Dimension] > 0, q.constrained
        PROVE  ~SatisfiesAll(x, P.Constraint) /\ x \notin q.cone
    <3>1. x[Dimension] # 0
      BY <2>1
    <3>2. Dimension - 1 \in 0 .. Dimension - 1 /\ (Dimension - 1) + 1 = Dimension /\ Dimension \in Nat
      BY DimensionAssumption
    <3>3. /\ EmptyPolyhedron.Constraint[Dimension - 1][0] = 0
          /\ InnerProduct(x, EmptyPolyhedron.Constraint[Dimension - 1]) = x[Dimension]
      BY <3>2, EmptyPolIs
    <3>4. Dimension - 1 \in DOMAIN EmptyPolyhedron.Constraint
      BY <3>2 DEF EmptyPolyhedron
    <3> QED BY <1>2, <2>1, <3>1, <3>3, <3>4 DEF SatisfiesAll, SatisfiesRow, Barren
  <2>2. IsEmpty(P)
    BY <1>2, EmptyPolIs DEF IsEmpty
  <2> QED BY <1>2, <2>1, <2>2 DEF Barren
<1> QED BY <1>1, <1>2 DEF Fulfils

\* The side of the constraint that SubConstraint keeps.
LEMMA InvertedProduct ==
  ASSUME NEW Con \in Constraints, NEW Pass \in 0..3, NEW x \in IntRow
  PROVE  /\ Con \in IntRow /\ Inverted(Con, Pass)[0] = 1
         /\ InnerProduct(x, Inverted(Con, Pass)) =
              (IF Pass \in {0, 2} THEN -1 ELSE 1) * InnerProduct(x, Con)
                + (IF Pass \in {0, 1} THEN -1 ELSE 0) * x[Dimension]
<1> DEFINE s == IF Pass \in {0, 2} THEN -1 ELSE 1
           t == IF Pass \in {0, 1} THEN -1 ELSE 0
           p == IF Pass \in {0, 2} THEN Opposite(Con) ELSE Con
           q == Inverted(Con, Pass)
           m == Mix(s, Con, t, PositivityRow)
<1>1. Con \in IntRow /\ s \in Int /\ t \in Int /\ \A c \in 0..Dimension : Con[c] \in Int
  <2>1. Con \in IntRow
    BY ConstraintsAssumption DEF IntRow
  <2>2. s \in Int /\ t \in Int
    OBVIOUS
  <2> QED BY <2>1, <2>2 DEF IntRow
<1>2. p \in IntRow /\ \A c \in Coordinates : p[c] = s * Con[c]
  <2>1. Opposite(Con) \in IntRow /\ \A c \in Coordinates : Opposite(Con)[c] = -Con[c]
    BY <1>1, OppositeRow
  <2>2. \A c \in Coordinates : -Con[c] = (-1) * Con[c] /\ Con[c] = 1 * Con[c]
    BY <1>1, DimensionAssumption DEF Coordinates
  <2> QED BY <1>1, <2>1, <2>2
<1>3. q = [p EXCEPT ![0] = 1, ![Dimension] = IF Pass \in {0, 1} THEN @ - 1 ELSE @]
  BY DEF Inverted
<1>4. PositivityRow \in IntRow /\ InnerProduct(x, PositivityRow) = x[Dimension]
  BY PositivityProduct
<1>5. \A c \in Coordinates : PositivityRow[c] = IF c = Dimension THEN 1 ELSE 0
  BY DimensionAssumption DEF PositivityRow, Coordinates
<1> HIDE DEF p, q
<1>6. q \in IntRow /\ q[0] = 1 /\ \A c \in Coordinates : q[c] = p[c] + (IF c = Dimension THEN t ELSE 0)
  <2>1. q \in IntRow /\ q[0] = 1
    BY <1>2, <1>3, DimensionAssumption DEF IntRow
  <2>2. ASSUME NEW c \in Coordinates PROVE q[c] = p[c] + (IF c = Dimension THEN t ELSE 0)
    <3>1. c \in 0..Dimension /\ c # 0 /\ p[c] \in Int
      BY <1>2, DimensionAssumption DEF Coordinates, IntRow
    <3> QED BY <1>2, <1>3, <3>1 DEF IntRow
  <2> QED BY <2>1, <2>2
<1> HIDE DEF s, t
<1>7. m \in IntRow /\ \A c \in Coordinates : m[c] = s * Con[c] + t * PositivityRow[c]
  BY <1>1, <1>4, MixRow
<1>8. \A c \in Coordinates : q[c] = m[c]
  <2>1. ASSUME NEW c \in Coordinates PROVE t * PositivityRow[c] = (IF c = Dimension THEN t ELSE 0)
    <3>1. t * 1 = t /\ t * 0 = 0
      BY <1>1
    <3> QED BY <1>5, <3>1
  <2> QED BY <1>2, <1>6, <1>7, <2>1
<1>9. InnerProduct(x, m) = s * InnerProduct(x, Con) + t * InnerProduct(x, PositivityRow)
  BY <1>1, <1>4, ProductMix
<1> HIDE DEF m
<1>10. InnerProduct(q, x) = InnerProduct(m, x)
  BY <1>6, <1>7, <1>8, InnerProductSame
<1>11. InnerProduct(x, q) = InnerProduct(x, m)
  BY <1>6, <1>7, <1>10, InnerProductSymmetric
<1> QED BY <1>1, <1>4, <1>6, <1>9, <1>11 DEF q, s, t

\* A point of the box is a row.
LEMMA BoxRows == \A x \in Box : x \in IntRow
BY BoxAssumption DEF IntRow

\* The call has returned what the comment of its function says.
LEMMA ConstraintsMeant ==
  ASSUME ContractsInv
  PROVE  ConstraintsContract
<1> SUFFICES ASSUME Done, op \in {"Constraints2Polyhedron", "AddConstraints",
                                  "SimplifyConstraints", "SubConstraint"},
                    NEW x \in Points
             PROVE  SatisfiesAll(x, Pol.Constraint) <=>
                      /\ SatisfiesAll(x, GivenConstraints)
                      /\ op = "Constraints2Polyhedron" \/ SatisfiesAll(x, Arg.Constraint)
  BY DEF ConstraintsContract
<1>1. x \in IntRow /\ x[Dimension] > 0
  BY BoxRows DEF Points
<1>2. x[Dimension] >= 0
  <2>1. x[Dimension] \in Int
    BY <1>1, DimensionAssumption DEF IntRow
  <2> QED BY <1>1, <2>1
<1>3. Fulfils(Pol, Promised)
  BY ReturnedSettled DEF Done
<1>4. Promised.constrained
  BY PromisedIs
<1>5. SatisfiesAll(x, Pol.Constraint) <=> x \in Promised.cone
  BY <1>1, <1>3, <1>4, FulfilsMeans
<1> QED BY <1>1, <1>2, <1>5, PromisedIs

\* Only between calls is there something to show.
LEMMA DifferenceMeant ==
  ASSUME ContractsInv
  PROVE  DifferenceContract
<1> SUFFICES ASSUME Done, op = "SubConstraint", NEW x \in IntegerPoints, SatisfiesAll(x, Arg.Constraint)
             PROVE  SatisfiesAll(x, Pol.Constraint) <=>
                      CASE Given[1][0] = 0 -> InnerProduct(x, WithStatus(Given[0], 1)) < 0
                        [] Given[1][0] = 1 -> InnerProduct(x, WithStatus(Given[0], 1)) > 0
                        [] Given[1][0] = 2 -> InnerProduct(x, WithStatus(Given[0], 1)) <= 0
                        [] Given[1][0] = 3 -> InnerProduct(x, WithStatus(Given[0], 1)) >= 0
  BY DEF DifferenceContract
<1>1. x \in IntRow /\ x[Dimension] = 1 /\ x \in Points
  BY BoxRows DEF IntegerPoints, Points
<1>2. PICK Con \in Constraints, Pass \in 0..3 :
        Given = [y \in 0..1 |-> IF y = 0 THEN Con ELSE WithStatus(Con, Pass)]
  BY DEF ContractsInv, GivenKnown
<1>3. Given[0] = Con /\ Given[1][0] = Pass /\ Con \in IntRow
  BY <1>2, PassGiven
<1>4. GivenConstraints = [y \in {0} |-> Inverted(Con, Pass)]
  BY <1>3 DEF GivenConstraints
<1> DEFINE e == InnerProduct(x, Con)
           v == InnerProduct(x, Inverted(Con, Pass))
<1>5. e \in Int /\ InnerProduct(x, WithStatus(Con, 1)) = e
  BY <1>1, <1>3, InnerProductInt, StatusOnly
<1>6. /\ Inverted(Con, Pass)[0] = 1
      /\ v = (IF Pass \in {0, 2} THEN -1 ELSE 1) * e + (IF Pass \in {0, 1} THEN -1 ELSE 0) * x[Dimension]
  BY <1>1, InvertedProduct
<1>7. SatisfiesAll(x, Pol.Constraint) <=> SatisfiesAll(x, GivenConstraints)
  BY <1>1, ConstraintsMeant DEF ConstraintsContract
<1>8. SatisfiesAll(x, GivenConstraints) <=> v >= 0
  BY <1>4, <1>6 DEF SatisfiesAll, SatisfiesRow
<1> HIDE DEF e, v
<1>9. /\ Pass = 0 => v = -e - 1
      /\ Pass = 1 => v = e - 1
      /\ Pass = 2 => v = -e
      /\ Pass = 3 => v = e
  BY <1>1, <1>5, <1>6
<1>10. /\ Pass = 0 => (v >= 0 <=> e < 0)
       /\ Pass = 1 => (v >= 0 <=> e > 0)
       /\ Pass = 2 => (v >= 0 <=> e <= 0)
       /\ Pass = 3 => (v >= 0 <=> e >= 0)
  BY <1>5, <1>9
<1>11. Pass = 0 \/ Pass = 1 \/ Pass = 2 \/ Pass = 3
  OBVIOUS
<1> QED BY <1>3, <1>5, <1>7, <1>8, <1>10, <1>11

\* The same for rays.
LEMMA RaysMeant ==
  ASSUME ContractsInv
  PROVE  RaysContract
<1> SUFFICES ASSUME Done, op \in {"Rays2Polyhedron", "AddRays"}
             PROVE  IF HasVertex(GivenRays)
                    THEN \A p \in Box : ValidFor(p, Pol.Ray) <=> ValidFor(p, GivenRays)
                    ELSE IsEmpty(Pol)
  BY DEF RaysContract, GivenRays
<1>1. Fulfils(Pol, Promised)
  BY ReturnedSettled DEF Done
<1>2. Promised.generated /\ (Promised.vertex <=> HasVertex(GivenRays))
  BY PromisedIs
<1>3. IF Promised.vertex THEN \A p \in IntRow : ValidFor(p, Pol.Ray) <=> p \in Promised.valid
                         ELSE IsEmpty(Pol)
  BY <1>1, <1>2, FulfilsMeans
<1> QED BY <1>2, <1>3, BoxRows, PromisedIs

\* As long as AddRays is called only on polyhedra without redundant
\* inequalities, every call returns the set its comment promises, whatever the
\* calls before it, in every dimension and for every matrix: an intersection,
\* one side of a constraint, or a hull.
THEOREM Contracts == Spec /\ []AddsToIrreducible => []CallsContract
<1>1. ContractsInv => CallsContract
  BY ConstraintsMeant, DifferenceMeant, RaysMeant DEF CallsContract
<1> QED BY <1>1, ContractsInvariance, PTL

-----------------------------------------------------------------------------
(* Where Remove_Redundants leaves no redundant inequality.                 *)

\* The rows x < rank of M have the pivots of Gauss4, none in the last column.
Pivots(M, rank, n) ==
  \E column : Pivotal(M, column, rank, 0 .. n - 1) /\ Dimension \in Free(column, rank)

\* Status words do not matter to the pivots.
LEMMA PivotsSame ==
  ASSUME NEW n \in Nat, NEW M, NEW N, Same(M, N, n), NEW rank \in Nat, Pivots(M, rank, n)
  PROVE  Pivots(N, rank, n)
<1>1. PICK column : Pivotal(M, column, rank, 0 .. n - 1) /\ Dimension \in Free(column, rank)
  BY DEF Pivots
<1>2. \A y \in 0 .. n - 1 : N[y] \in IntRow
  BY DEF Same, MatrixOf
<1>3. \A y \in 0 .. n - 1 : \A c \in Coordinates : N[y][c] = M[y][c]
  BY DEF Same, SameCoordinates
<1>4. ASSUME NEW x \in 0 .. rank - 1
      PROVE  /\ x \in 0 .. n - 1 /\ column[x] \in Coordinates /\ N[x][column[x]] # 0
             /\ \A c \in 1 .. column[x] - 1 : N[x][c] = 0
             /\ \A y \in 0 .. n - 1 : y # x => N[y][column[x]] = 0
  <2>1. /\ x \in 0 .. n - 1 /\ column[x] \in Coordinates /\ M[x][column[x]] # 0
        /\ \A c \in 1 .. column[x] - 1 : M[x][c] = 0
        /\ \A y \in 0 .. n - 1 : y # x => M[y][column[x]] = 0
    BY <1>1 DEF Pivotal
  <2>2. \A c \in 1 .. column[x] - 1 : c \in Coordinates
    BY <2>1, DimensionAssumption DEF Coordinates
  <2> QED BY <1>3, <2>1, <2>2
<1>5. Pivotal(N, column, rank, 0 .. n - 1)
  BY <1>2, <1>4 DEF Pivotal
<1> QED BY <1>1, <1>5 DEF Pivots

\* Gauss4 leaves such rows.
LEMMA GaussPivotal ==
  ASSUME NEW m \in Nat, NEW n \in 0..m, NEW M \in MatrixOf(m), NEW g, g = Gauss4(M, n, m)
  PROVE  /\ g.rank \in 0..n /\ g.M \in MatrixOf(m)
         /\ \E column : Pivotal(g.M, column, g.rank, 0 .. m - 1)
<1>1. /\ Equivalent(g.M, M, n, m) /\ g.rank \in 0..n
      /\ \E column : Echelon(g.M, column, g.rank, n) /\ Alone(g.M, column, 0, g.rank, n, m)
  BY GaussCorrect
<1>2. PICK column : Echelon(g.M, column, g.rank, n) /\ Alone(g.M, column, 0, g.rank, n, m)
  BY <1>1
<1>3. g.M \in MatrixOf(m)
  BY <1>1 DEF Equivalent
<1> DEFINE N == g.M
           rank == g.rank
<1>4. N \in MatrixOf(m) /\ rank \in 0..n /\ Echelon(N, column, rank, n) /\ Alone(N, column, 0, rank, n, m)
  BY <1>1, <1>2, <1>3
<1> HIDE DEF N, rank
<1>5. Pivotal(N, column, rank, 0 .. m - 1)
  BY <1>4, EchelonPivotal
<1> QED BY <1>4, <1>5 DEF N, rank

\* No pivot is in the last column when no row is the positivity constraint.
LEMMA PivotsBefore ==
  ASSUME NEW M, NEW column, NEW rank \in Nat, NEW n \in Nat, Pivotal(M, column, rank, 0 .. n - 1),
         \A x \in 0 .. rank - 1 : \E c \in Coordinates : c # Dimension /\ M[x][c] # 0
  PROVE  Dimension \in Free(column, rank)
<1>1. ASSUME NEW x \in 0 .. rank - 1, column[x] = Dimension PROVE FALSE
  <2>1. \A c \in 1 .. Dimension - 1 : M[x][c] = 0
    BY <1>1 DEF Pivotal
  <2>2. \A c \in Coordinates : c # Dimension => c \in 1 .. Dimension - 1
    BY DimensionAssumption DEF Coordinates
  <2> QED BY <2>1, <2>2
<1>2. Dimension \in Coordinates
  BY DimensionAssumption DEF Coordinates
<1> QED BY <1>1, <1>2 DEF Free

\* A row is the positivity constraint, or a multiple of it, when its other
\* coordinates are zero.
LEMMA PositivityIs ==
  ASSUME NEW p \in IntRow
  PROVE  IsPositivity(p) <=> \A c \in Coordinates : c # Dimension => p[c] = 0
<1>1. Dimension - 1 \in 0..Dimension
  BY DimensionAssumption
<1>2. IsPositivity(p) <=> \A c \in 1 .. Dimension - 1 : p[c] = 0
  BY <1>1, FirstNonZeroIs DEF IsPositivity
<1>3. \A c \in Coordinates : c # Dimension <=> c \in 1 .. Dimension - 1
  BY DimensionAssumption DEF Coordinates
<1>4. \A c \in 1 .. Dimension - 1 : c \in Coordinates
  BY DimensionAssumption DEF Coordinates
<1> QED BY <1>2, <1>3, <1>4

\* Step 3 finds fewer than Dimension pivots, none in the last column.
LEMMA ReduceEqualitiesPivots ==
  ASSUME InStep3, ReduceEqualities, NEW q, Leveled(q)
  PROVE  NbEq2' \in 0 .. Dimension - 1 /\ Pivots(Mat', NbEq2', NbConstraints')
<1> DEFINE m == NbConstraints
           g == Gauss4(Mat, NbEq, m)
<1>1. m \in Nat /\ Mat \in MatrixOf(m) /\ NbEq \in 0..m
  BY DEF InStep3, ReduceTyped
<1>2. pc' = "step4" /\ InStep4' /\ Leveled(q)' /\ Reduced(Mat, NbEq2, NbEq)'
  BY ReduceEqualitiesMeans
<1>3. ~(g.rank >= Dimension) /\ Mat' = g.M /\ NbEq2' = g.rank /\ NbEq' = NbEq
  BY <1>2 DEF ReduceEqualities, GotoEmpty
<1>4. g.rank \in 0..NbEq /\ g.M \in MatrixOf(m) /\ \E column : Pivotal(g.M, column, g.rank, 0 .. m - 1)
  BY <1>1, GaussPivotal
<1>5. NbConstraints' = m
  <2>1. ~GotoEmpty
    BY <1>2 DEF GotoEmpty
  <2> QED BY <2>1, ReduceEqualitiesStep
<1> HIDE DEF g
<1>6. PICK column : Pivotal(Mat', column, NbEq2', 0 .. m - 1)
  BY <1>3, <1>4
<1>7. NbEq2' \in 0..NbEq /\ NbEq2' \in Nat /\ Mat' \in MatrixOf(m) /\ ~(NbEq2' >= Dimension)
  BY <1>1, <1>3, <1>4
<1>8. /\ Alive(Wide', Ray', q) /\ Flat(Wide', Ray') = 0 .. NbEq - 1
      /\ Wide' = Family(Mat', m, FALSE)
  BY <1>2, <1>3, <1>5 DEF Leveled, Counted, Wide
<1>9. \A c \in 0 .. m - 1 : Wide'[c] = Mat'[c] /\ Mat'[c] \in IntRow
  BY <1>1, <1>7, <1>8, WideIs
<1>10. ASSUME NEW x \in 0 .. NbEq2' - 1 PROVE \E c \in Coordinates : c # Dimension /\ Mat'[x][c] # 0
  <2>1. \E c \in Coordinates : Mat'[x][c] # 0
    BY <1>2, <1>10 DEF Reduced
  <2>2. x \in 0 .. NbEq - 1 /\ x \in 0 .. m - 1
    <3> DEFINE a == NbEq2'
               b == NbEq
    <3>1. x \in 0 .. a - 1 /\ a \in 0..b /\ b \in 0..m /\ m \in Nat
      BY <1>1, <1>7
    <3> HIDE DEF a, b, m
    <3>2. x \in 0 .. b - 1 /\ x \in 0 .. m - 1
      BY <3>1
    <3> QED BY <3>2 DEF b
  <2>3. ~IsPositivity(Wide'[x])
    BY <1>8, <1>9, <2>1, <2>2, NoPositivity
  <2> QED BY <1>9, <2>2, <2>3, PositivityIs
<1>11. Dimension \in Free(column, NbEq2')
  BY <1>1, <1>6, <1>7, <1>10, PivotsBefore
<1>12. NbEq2' \in 0 .. Dimension - 1
  BY <1>7, DimensionAssumption
<1> QED BY <1>5, <1>6, <1>11, <1>12 DEF Pivots

\* The lines have pivots as well, and with the equalities fewer than Dimension.
RayPivots == \E pivot : Pivotal(Ray, pivot, NbBid2, 0 .. NbRay - 1)

LEMMA ReduceLinesPivots ==
  ASSUME InStep4, ReduceLines, NEW q, Leveled(q), Reduced(Mat, NbEq2, NbEq),
         Pivots(Mat, NbEq2, NbConstraints)
  PROVE  RayPivots' /\ Dim_RaySpace' \in 0 .. Dimension - 1
<1> DEFINE n == NbRay
           g == Gauss4(Ray, NbBid, n)
<1>1. /\ NbConstraints \in Nat /\ Mat \in MatrixOf(NbConstraints) /\ n \in Nat /\ Ray \in MatrixOf(n)
      /\ NbBid \in 0..n /\ NbEq \in 0..NbConstraints /\ NbEq2 \in 0..NbEq
  BY NbBidIs DEF InStep4, InStep3, ReduceTyped
<1>2. pc' = "step6" /\ Separated' /\ Ready(q)'
  BY ReduceLinesMeans
<1>3. /\ Ray' = g.M /\ NbBid2' = g.rank /\ NbRay' = n /\ NbBid' = NbBid /\ Mat' = Mat
      /\ NbEq' = NbEq /\ NbEq2' = NbEq2
      /\ Dim_RaySpace' = Dimension - 1 - NbEq2 - g.rank
  BY <1>2 DEF ReduceLines, GotoEmpty
<1>4. g.rank \in 0..NbBid /\ g.M \in MatrixOf(n) /\ \E pivot : Pivotal(g.M, pivot, g.rank, 0 .. n - 1)
  BY <1>1, GaussPivotal
<1> HIDE DEF g
<1>5. PICK pivot : Pivotal(Ray', pivot, NbBid2', 0 .. n - 1)
  BY <1>3, <1>4
<1>6. PICK column : Pivotal(Mat, column, NbEq2, 0 .. NbConstraints - 1) /\ Dimension \in Free(column, NbEq2)
  BY DEF Pivots
<1>7. NbBid2' \in 0..NbBid /\ NbBid2' \in Nat /\ NbEq2 \in Nat
  BY <1>1, <1>3, <1>4
<1>8. ASSUME NEW z \in 0 .. NbBid2' - 1
      PROVE  Ray'[z][Dimension] = 0 /\ \A x \in 0 .. NbEq2 - 1 : InnerProduct(Ray'[z], Mat[x]) = 0
  <2>1. z \in 0 .. n - 1 /\ z < NbBid
    <3> DEFINE a == NbBid2'
               b == NbBid
    <3>1. z \in 0 .. a - 1 /\ a \in 0..b /\ b \in 0..n /\ n \in Nat
      BY <1>1, <1>7
    <3> HIDE DEF a, b, n
    <3>2. z \in 0 .. n - 1 /\ z < b
      BY <3>1
    <3> QED BY <3>2 DEF b
  <2>2. \A x \in 0 .. NbEq2 - 1 : x \in 0 .. NbConstraints - 1
    BY <1>1
  <2>3. NbConstraints' = NbConstraints
    BY <1>3 DEF NbConstraints
  <2>4. z \in AllRays' /\ \A x \in 0 .. NbEq2 - 1 : x \in ConstraintRows'
    BY <1>3, <2>1, <2>2, <2>3 DEF AllRays, ConstraintRows
  <2>5. /\ Inside(Ray'[z], z < NbBid')
        /\ \A c \in ConstraintRows' : Agree(Ray'[z], Mat'[c], c < NbEq' \/ z < NbBid')
    BY <1>2, <2>4 DEF Separated
  <2> QED BY <1>3, <2>1, <2>4, <2>5 DEF Inside, Agree
<1>9. NbEq2 + NbBid2' <= Dimension - 1
  BY <1>5, <1>6, <1>7, <1>8, RankSum
<1>10. Dim_RaySpace' \in 0 .. Dimension - 1
  BY <1>3, <1>7, <1>9, DimensionAssumption
<1> QED BY <1>3, <1>5, <1>10 DEF RayPivots

-----------------------------------------------------------------------------
(* Step 9 parts the inequalities: each has a vector on it and off the others. *)

PartedBy(A, E, p, s) == \E v \in IntRow : Obeys(v, A, E) /\ InnerProduct(v, p) = 0 /\ InnerProduct(v, s) # 0
Parted(p, s) == PartedBy(Wide, 0 .. NbEq - 1, p, s)

\* Those kept before c are parted from all the others, and those listed as well.
RowsParted(c) == \A d \in Irredundants, e \in Irredundants : d < c /\ e # d => Parted(Mat[d], Mat[e])
ListParted ==
  \A x \in NbEq2 .. Length(Pol.Constraint) - 1, y \in NbEq2 .. Length(Pol.Constraint) - 1 :
    x # y => Parted(Pol.Constraint[x], Pol.Constraint[y])

NoPositivityLeft == \A c \in Irredundants : ~IsPositivity(Mat[c])

LEMMA PartedTwins ==
  ASSUME NEW A, NEW B, Twins(A, B), NEW E, NEW p, NEW s, PartedBy(A, E, p, s)
  PROVE  PartedBy(B, E, p, s)
<1>1. PICK v \in IntRow : Obeys(v, A, E) /\ InnerProduct(v, p) = 0 /\ InnerProduct(v, s) # 0
  BY DEF PartedBy
<1>2. DOMAIN B = DOMAIN A
  BY DEF Twins
<1>3. \A c \in DOMAIN A : InnerProduct(v, B[c]) = InnerProduct(v, A[c])
  BY TwinProducts
<1>4. Obeys(v, B, E)
  BY <1>1, <1>2, <1>3 DEF Obeys
<1> QED BY <1>1, <1>4 DEF PartedBy

\* A ray that saturates one of two rows parts them.
LEMMA RayParts ==
  ASSUME Separated, NEW c \in Irredundants, NEW e \in Irredundants, NEW r \in Generators,
         Saturates(r, c), ~Saturates(r, e)
  PROVE  Parted(Mat[c], Mat[e])
<1>1. /\ ReduceTyped /\ BitsKnown /\ NbEq \in 0..NbConstraints /\ NbConstraints \in Nat
      /\ r \in AllRays /\ c \in ConstraintRows /\ e \in ConstraintRows
  BY ChosenFacts DEF Separated, ReduceTyped, AllRays, ConstraintRows
<1>2. /\ DOMAIN Wide = 0 .. NbConstraints - 1 \cup {-1} /\ Wide[-1] = PositivityRow
      /\ \A d \in 0 .. NbConstraints - 1 : Wide[d] = Mat[d]
      /\ Ray[r] \in IntRow
  BY <1>1, WideFacts DEF AllRays
<1>3. Inside(Ray[r], r < NbBid) /\ \A d \in ConstraintRows : Agree(Ray[r], Mat[d], d < NbEq \/ r < NbBid)
  BY <1>1 DEF Separated
<1>4. Ray[r][Dimension] >= 0
  BY <1>3 DEF Inside
<1>5. \A d \in 0 .. NbConstraints - 1 : /\ InnerProduct(Ray[r], Mat[d]) >= 0
                                        /\ d \in 0 .. NbEq - 1 => InnerProduct(Ray[r], Mat[d]) = 0
  <2>1. \A d \in 0 .. NbConstraints - 1 : d \in 0 .. NbEq - 1 => d < NbEq
    BY <1>1
  <2> QED BY <1>3, <2>1 DEF Agree, ConstraintRows
<1>6. InnerProduct(Ray[r], Wide[-1]) >= 0 /\ -1 \notin 0 .. NbEq - 1
  BY <1>1, <1>2, <1>4, PositivityProduct
<1>7. Obeys(Ray[r], Wide, 0 .. NbEq - 1)
  BY <1>2, <1>5, <1>6 DEF Obeys
<1>8. InnerProduct(Ray[r], Mat[c]) = 0 /\ InnerProduct(Ray[r], Mat[e]) # 0
  BY <1>1, SaturatesIs
<1> QED BY <1>2, <1>7, <1>8 DEF Parted, PartedBy

\* What step 9 does to the rows it has still to keep.
LEMMA KeepConstraintRows ==
  ASSUME pc = "step9", InStep9, KeepConstraint
  PROVE  /\ Irredundants' \subseteq Irredundants
         /\ \A d \in Irredundants' : Mat'[d] = Mat[d]
         /\ j \in Irredundants' => ~ConstraintRedundant(j)
         /\ \A p, s : Parted(p, s) => Parted(p, s)'
<1> DEFINE m == NbConstraints
<1>1. Same(Mat, Mat', m) /\ m' = m
  BY KeepConstraintStep
<1>2. NbEq' = NbEq
  BY DEF KeepConstraint, counts
<1>3. Separated /\ NbEq \in 0..m /\ m \in Nat /\ \A c \in Irredundants : c \in 0 .. m - 1
  BY ChosenFacts DEF InStep9, Building, Separated, ReduceTyped
<1>4. \A p, s : Parted(p, s) => Parted(p, s)'
  <2>1. Twins(Wide, Wide')
    BY <1>1, <1>3, WideTwins DEF Wide
  <2> QED BY <1>2, <2>1, PartedTwins DEF Parted
<1>5. CASE Mat' = Mat
  <2>1. Irredundants' = Irredundants
    BY <1>1, <1>2, <1>5 DEF Irredundants
  <2>2. ASSUME j \in Irredundants, ConstraintRedundant(j) PROVE FALSE
    <3>1. Mat' = [Mat EXCEPT ![j][0] = 2] /\ Mat[j][0] = 1 /\ j \in 0 .. m - 1
      BY <1>3, <2>2 DEF KeepConstraint, Irredundants
    <3>2. DOMAIN Mat = 0 .. m - 1 /\ Mat[j] \in IntRow
      BY <1>1, <3>1 DEF Same, MatrixOf
    <3>3. 0 \in DOMAIN Mat[j]
      BY <3>2, DimensionAssumption DEF IntRow
    <3>4. Mat'[j][0] = 2
      BY <3>1, <3>2, <3>3
    <3> QED BY <1>5, <3>1, <3>4
  <2> QED BY <1>4, <1>5, <2>1, <2>2
<1>6. CASE Mat' # Mat
  <2>1. j \in Irredundants /\ Mat' = [Mat EXCEPT ![j][0] = 2]
    BY <1>6 DEF KeepConstraint
  <2>2. j \in 0 .. m - 1 /\ DOMAIN Mat = 0 .. m - 1 /\ Mat[j] \in IntRow
    BY <1>1, <1>3, <2>1 DEF Same, MatrixOf
  <2>3. 0 \in DOMAIN Mat[j]
    BY <2>2, DimensionAssumption DEF IntRow
  <2>4. Mat'[j][0] = 2 /\ \A d \in 0 .. m - 1 : d # j => Mat'[d] = Mat[d]
    BY <2>1, <2>2, <2>3
  <2>5. \A d \in Irredundants' : d \in NbEq .. m - 1 /\ Mat'[d][0] = 1
    BY <1>1, <1>2 DEF Irredundants
  <2>6. \A d \in Irredundants' : d \in 0 .. m - 1 /\ d # j
    <3>1. \A d \in NbEq .. m - 1 : d \in 0 .. m - 1
      BY <1>3
    <3> QED BY <2>4, <2>5, <3>1
  <2>7. Irredundants' \subseteq Irredundants
    BY <2>4, <2>5, <2>6 DEF Irredundants
  <2> QED BY <1>4, <2>4, <2>6, <2>7
<1> QED BY <1>5, <1>6

LEMMA KeepConstraintParts ==
  ASSUME pc = "step9", InStep9, KeepConstraint, NEW q, Selected(q), RowsListed(j),
         RowsParted(j), ListParted, NoPositivityLeft
  PROVE  (RowsParted(j) /\ ListParted /\ NoPositivityLeft)'
<1>1. /\ Irredundants' \subseteq Irredundants
      /\ \A d \in Irredundants' : Mat'[d] = Mat[d]
      /\ j \in Irredundants' => ~ConstraintRedundant(j)
      /\ \A p, s : Parted(p, s) => PartedBy(Wide', 0 .. NbEq' - 1, p, s)
  BY KeepConstraintRows DEF Parted
<1>2. /\ Separated /\ j \in Int /\ IsRecord(Pol) /\ IsMatrix(Pol.Constraint) /\ NbEq2 \in 0..Length(Pol.Constraint)
      /\ \A c \in Irredundants : c \in 0 .. NbConstraints - 1
      /\ Mat \in MatrixOf(NbConstraints)
  <2>1. Separated /\ IsRecord(Pol) /\ IsMatrix(Pol.Constraint) /\ NbEq2 \in 0..Length(Pol.Constraint)
        /\ j \in NbEq..NbConstraints
    BY DEF InStep9, Building, IsPolyhedron
  <2> QED BY <2>1, ChosenFacts DEF Separated, ReduceTyped
<1>3. j' = j + 1 /\ NbEq2' = NbEq2
  BY DEF KeepConstraint, counts
<1>4. NoPositivityLeft'
  BY <1>1 DEF NoPositivityLeft
<1>5. ASSUME j \in Irredundants, ~ConstraintRedundant(j), NEW e \in Irredundants, e # j
      PROVE  Parted(Mat[j], Mat[e])
  <2>1. PICK r \in Generators : Saturates(r, j) /\ ~Saturates(r, e)
    BY <1>5 DEF ConstraintRedundant
  <2> QED BY <1>2, <1>5, <2>1, RayParts
<1>6. RowsParted(j)'
  <2> SUFFICES ASSUME NEW d \in Irredundants', NEW e \in Irredundants', d < j', e # d
               PROVE  PartedBy(Wide', 0 .. NbEq' - 1, Mat'[d], Mat'[e])
    BY DEF RowsParted, Parted
  <2>1. d \in Irredundants /\ e \in Irredundants /\ Mat'[d] = Mat[d] /\ Mat'[e] = Mat[e]
    BY <1>1
  <2>2. d = j \/ d < j
    <3>1. d \in Int
      BY <1>2, <2>1
    <3> QED BY <1>2, <1>3, <3>1
  <2>3. Parted(Mat[d], Mat[e])
    BY <1>1, <1>5, <2>1, <2>2 DEF RowsParted
  <2> QED BY <1>1, <2>1, <2>3
<1>7. ListParted'
  <2>1. CASE j \in Irredundants /\ ~ConstraintRedundant(j)
    <3> DEFINE P == Pol.Constraint
               p == Mat[j]
               L == Length(P)
               N == Pol'.Constraint
    <3>1. Pol' = [Pol EXCEPT !.Constraint = Appended(@, p)]
      BY <2>1 DEF KeepConstraint
    <3>2. p \in IntRow
      BY <1>2, <2>1 DEF MatrixOf
    <3>3. N = Appended(P, p)
      BY <1>2, <3>1 DEF IsRecord
    <3>4. Length(N) = L + 1 /\ N[L] = p /\ L \in Nat /\ \A x \in 0 .. L - 1 : N[x] = P[x]
      BY <1>2, <3>2, <3>3, AppendedIs, MatrixIs
    <3>5. NbEq2 \in Nat /\ NbEq2 <= L
      BY <1>2, <3>4
    <3> HIDE DEF P, p, L, N
    <3>6. ASSUME NEW x \in NbEq2 .. L - 1 PROVE Parted(P[x], p) /\ Parted(p, P[x])
      <4>1. PICK d \in Irredundants : d < j /\ P[x] = Mat[d]
        BY <3>6 DEF RowsListed, P, L
      <4>2. d # j
        BY <1>2, <4>1
      <4>3. Parted(Mat[d], Mat[j])
        BY <2>1, <4>1, <4>2 DEF RowsParted
      <4>4. Parted(Mat[j], Mat[d])
        BY <1>5, <2>1, <4>2
      <4> QED BY <4>1, <4>3, <4>4 DEF p
    <3>7. ASSUME NEW x \in NbEq2 .. (L + 1) - 1, NEW y \in NbEq2 .. (L + 1) - 1, x # y
          PROVE  Parted(N[x], N[y])
      <4>1. \A z \in NbEq2 .. (L + 1) - 1 : z = L \/ (z \in NbEq2 .. L - 1 /\ z \in 0 .. L - 1)
        BY <3>4, <3>5
      <4>2. CASE x = L
        <5>1. y \in NbEq2 .. L - 1 /\ y \in 0 .. L - 1
          BY <3>7, <4>1, <4>2
        <5> QED BY <3>4, <3>6, <4>2, <5>1
      <4>3. CASE y = L
        <5>1. x \in NbEq2 .. L - 1 /\ x \in 0 .. L - 1
          BY <3>7, <4>1, <4>3
        <5> QED BY <3>4, <3>6, <4>3, <5>1
      <4>4. CASE x # L /\ y # L
        <5>1. x \in NbEq2 .. L - 1 /\ x \in 0 .. L - 1 /\ y \in NbEq2 .. L - 1 /\ y \in 0 .. L - 1
          BY <4>1, <4>4
        <5>2. Parted(P[x], P[y])
          BY <3>7, <5>1 DEF ListParted, P, L
        <5> QED BY <3>4, <5>1, <5>2
      <4> QED BY <4>2, <4>3, <4>4
    <3>8. \A x \in NbEq2 .. Length(N) - 1, y \in NbEq2 .. Length(N) - 1 :
            x # y => PartedBy(Wide', 0 .. NbEq' - 1, N[x], N[y])
      BY <1>1, <3>4, <3>7
    <3> QED BY <1>3, <3>8 DEF ListParted, Parted, N
  <2>2. CASE ~(j \in Irredundants /\ ~ConstraintRedundant(j))
    <3>1. Pol' = Pol
      BY <2>2 DEF KeepConstraint
    <3> QED BY <1>1, <1>3, <3>1 DEF ListParted, Parted
  <2> QED BY <2>1, <2>2
<1> QED BY <1>4, <1>6, <1>7

-----------------------------------------------------------------------------
(* The positivity constraint, included last.                               *)

\* As many elements of K as asked for.
LEMMA SomeOf ==
  ASSUME NEW K, IsFiniteSet(K), NEW D \in Nat, D <= Cardinality(K)
  PROVE  \E g : /\ \A x \in 1..D : g[x] \in K
                /\ \A x \in 1..D, y \in 1..D : g[x] = g[y] => x = y
<1>1. Cardinality(K) \in Nat /\ ExistsBijection(1 .. Cardinality(K), K)
  BY FS_CardinalityType
<1>2. PICK g : g \in Bijection(1 .. Cardinality(K), K)
  BY <1>1 DEF ExistsBijection
<1>3. \A x \in 1..D : x \in 1 .. Cardinality(K)
  BY <1>1
<1>4. g \in [1 .. Cardinality(K) -> K] /\ IsInjective(g)
  BY <1>2 DEF Bijection, Injection
<1>5. DOMAIN g = 1 .. Cardinality(K)
  BY <1>4
<1>6. \A x \in 1..D : g[x] \in K
  BY <1>3, <1>4
<1>7. \A x \in 1..D, y \in 1..D : g[x] = g[y] => x = y
  BY <1>3, <1>4, <1>5 DEF IsInjective
<1> QED BY <1>6, <1>7

\* The rays of Q from b on, none below another, without the pivots of the lines.
Spread(Q, b, m, A, pivot) ==
  \A r \in b .. m - 1 :
    /\ ZeroAtPivots(Q[r], pivot, b)
    /\ \A a \in DOMAIN A : InnerProduct(Q[r], A[a]) >= 0
    /\ \E a \in DOMAIN A : InnerProduct(Q[r], A[a]) # 0
    /\ \A s \in b .. m - 1 : Zeros(Q[r], A) \subseteq Zeros(Q[s], A) => s = r

\* Their lines are those of N, and all of them satisfy the equalities of M.
Lined(Q, b, m, N, M, rank) ==
  /\ \A r \in 0 .. b - 1 : Q[r] = N[r] /\ Q[r][Dimension] = 0
  /\ \A r \in 0 .. m - 1 : Q[r] \in IntRow /\ \A y \in 0 .. rank - 1 : InnerProduct(Q[r], M[y]) = 0

\* As many of these rays are at infinity as a facet has.
Bounding(Q, b, m, A, pivot, N, M, rank, D) ==
  /\ Spread(Q, b, m, A, pivot) /\ Lined(Q, b, m, N, M, rank) /\ IsFamily(A)
  /\ D <= Cardinality({r \in b .. m - 1 : Q[r][Dimension] = 0})

\* A row that is not only the last coordinate, with all the rays at infinity.
AtBound(w, Q, m, column, rank) ==
  /\ ZeroAtPivots(w, column, rank)
  /\ \A r \in 0 .. m - 1 : Q[r][Dimension] = 0 => InnerProduct(Q[r], w) = 0
  /\ \E t \in Coordinates : t # Dimension /\ w[t] # 0

\* No row is on all the rays at infinity when these are as many as a facet has.
LEMMA InfinityNotBelow ==
  ASSUME NEW rank \in Nat, NEW M, NEW column, NEW K, Pivotal(M, column, rank, K), Dimension \in Free(column, rank),
         NEW b \in Nat, NEW N, NEW pivot, NEW I, Pivotal(N, pivot, b, I),
         NEW D \in Nat, D <= 3, b + D = Dimension - 1 - rank, NEW m \in Nat, b <= m,
         NEW A, NEW Q, Bounding(Q, b, m, A, pivot, N, M, rank, D), NEW w, AtBound(w, Q, m, column, rank)
  PROVE  FALSE
<1> /\ Spread(Q, b, m, A, pivot) /\ Lined(Q, b, m, N, M, rank) /\ IsFamily(A)
    /\ D <= Cardinality({r \in b .. m - 1 : Q[r][Dimension] = 0})
  BY DEF Bounding
<1> /\ ZeroAtPivots(w, column, rank)
    /\ \A r \in 0 .. m - 1 : Q[r][Dimension] = 0 => InnerProduct(Q[r], w) = 0
  BY DEF AtBound
<1> PICK t \in Coordinates : t # Dimension /\ w[t] # 0
  BY DEF AtBound
<1> DEFINE Z == {r \in b .. m - 1 : Q[r][Dimension] = 0}
           n == b + D
<1>1. IsFiniteSet(Z)
  <2>1. Z \subseteq 0 .. m - 1
    OBVIOUS
  <2> QED BY <2>1, PartOfRange
<1>2. PICK g : /\ \A x \in 1..D : g[x] \in Z
               /\ \A x \in 1..D, y \in 1..D : g[x] = g[y] => x = y
  <2> HIDE DEF Z
  <2> QED BY <1>1, SomeOf DEF Z
<1>3. \A r \in Z : r \in b .. m - 1 /\ r \in 0 .. m - 1 /\ Q[r][Dimension] = 0
  OBVIOUS
<1> DEFINE S == [x \in 1..n |-> IF x <= b THEN Q[x - 1] ELSE Q[g[x - b]]]
<1>4. n \in Nat /\ n = Dimension - 1 - rank /\ b <= n /\ n <= b + 3
  OBVIOUS
<1>5. \A x \in b + 1 .. n : x - b \in 1..D /\ x \in 1..n /\ ~(x <= b)
  OBVIOUS
<1>6. \A x \in 1..b : x - 1 \in 0 .. b - 1 /\ x - 1 \in 0 .. m - 1 /\ x \in 1..n /\ x <= b
  OBVIOUS
<1>7. \A x \in 1..n : x \in 1..b \/ x \in b + 1 .. n
  OBVIOUS
<1> HIDE DEF Z, n
<1>8. \A x \in b + 1 .. n : S[x] = Q[g[x - b]] /\ g[x - b] \in Z
  BY <1>2, <1>5
<1>9. \A x \in 1..b : S[x] = Q[x - 1]
  BY <1>6
<1> HIDE DEF S
<1>10. \A x \in 1..n : \E r \in 0 .. m - 1 : S[x] = Q[r] /\ Q[r][Dimension] = 0
  <2>1. \A x \in 1..b : Q[x - 1][Dimension] = 0
    BY <1>6 DEF Lined
  <2> QED BY <1>3, <1>6, <1>7, <1>8, <1>9, <2>1
<1>11. AtInfinityRows(S, n, M, rank)
  <2>1. ASSUME NEW x \in 1..n
        PROVE  /\ S[x] \in IntRow /\ S[x][Dimension] = 0
               /\ \A y \in 0 .. rank - 1 : InnerProduct(S[x], M[y]) = 0
    BY <1>10 DEF Lined
  <2> QED BY <2>1 DEF AtInfinityRows
<1>12. Begins(S, b, n, N, pivot)
  <2>1. \A x \in 1..b : S[x] = N[x - 1]
    BY <1>6, <1>9 DEF Lined
  <2>2. \A x \in b + 1 .. n : ZeroAtPivots(S[x], pivot, b)
    BY <1>3, <1>8 DEF Spread
  <2> QED BY <2>1, <2>2 DEF Begins
<1>13. Separate(S, b, n, A)
  <2>1. ASSUME NEW x \in b + 1 .. n
        PROVE  /\ S[x] \in IntRow
               /\ \A a \in DOMAIN A : InnerProduct(S[x], A[a]) >= 0
               /\ \E a \in DOMAIN A : InnerProduct(S[x], A[a]) # 0
    BY <1>3, <1>8 DEF Spread, ZeroAtPivots
  <2>2. ASSUME NEW x \in b + 1 .. n, NEW z \in b + 1 .. n, Zeros(S[x], A) \subseteq Zeros(S[z], A)
        PROVE  z = x
    <3>1. g[x - b] \in b .. m - 1 /\ g[z - b] \in b .. m - 1
      BY <1>3, <1>8
    <3>2. g[z - b] = g[x - b]
      BY <1>8, <2>2, <3>1 DEF Spread
    <3>3. z - b = x - b
      BY <1>2, <1>5, <3>2
    <3>4. z \in Int /\ x \in Int
      BY <1>4
    <3> QED BY <3>3, <3>4
  <2> QED BY <2>1, <2>2 DEF Separate
<1>14. \A x \in 1..n : InnerProduct(S[x], w) = 0
  BY <1>10
<1>15. Crowd(S, b, n, N, pivot, M, rank, A)
  BY <1>11, <1>12, <1>13 DEF Crowd
<1>16. Facing(w, S, n, column, rank)
  BY <1>14 DEF Facing
<1> QED BY <1>4, <1>15, <1>16, CrowdedFace

\* Rows that are parted are not below each other.
LEMMA PartedApart ==
  ASSUME NEW A, NEW R, Exact(A, R), NEW c \in DOMAIN A, NEW d \in DOMAIN A, PartedBy(A, Flat(A, R), A[c], A[d])
  PROVE  ~(Touched(A[c], R) \subseteq Touched(A[d], R))
<1>1. PICK v \in IntRow : Obeys(v, A, Flat(A, R)) /\ InnerProduct(v, A[c]) = 0 /\ InnerProduct(v, A[d]) # 0
  BY DEF PartedBy
<1>2. Tight(A, Flat(A, R), R, Flat(R, A))
  BY DEF Exact
<1>3. PICK r \in DOMAIN R : Zeros(v, A) \subseteq Zeros(R[r], A) /\ InnerProduct(R[r], A[d]) # 0
  BY <1>1, <1>2, TightPositive
<1>4. InnerProduct(R[r], A[c]) = 0
  BY <1>1, <1>3 DEF Zeros
<1> QED BY <1>3, <1>4 DEF Touched

\* The inequalities that step 9 listed are not below each other.
LEMMA ListedApart ==
  ASSUME InStep10, NEW q, Listing(q), ListParted,
         NEW P, Full(P), P.NbEq = NbEq2,
         Length(P.Constraint) >= Length(Pol.Constraint),
         \A x \in 0 .. Length(Pol.Constraint) - 1 : P.Constraint[x] = Pol.Constraint[x],
         \A x \in Length(Pol.Constraint) .. Length(P.Constraint) - 1 : Alike(P.Constraint[x], PositivityRow),
         NEW x \in NbEq2 .. Length(Pol.Constraint) - 1, NEW y \in NbEq2 .. Length(Pol.Constraint) - 1, x # y
  PROVE  ~(Touched(P.Constraint[x], P.Ray) \subseteq Touched(P.Constraint[y], P.Ray))
<1> DEFINE C == PolWide(P)
           L == Length(Pol.Constraint)
           M == Length(P.Constraint)
           E == 0 .. NbEq2 - 1
<1>1. /\ IsPolyhedron(P) /\ Exact(C, P.Ray) /\ Flat(C, P.Ray) = E
  BY DEF Full
<1>2. /\ DOMAIN C = 0 .. M - 1 \cup {-1} /\ -1 \notin 0 .. M - 1 /\ C[-1] = PositivityRow
      /\ \A c \in 0 .. M - 1 : C[c] = P.Constraint[c]
      /\ M \in Nat /\ NbEq2 \in 0..M
  BY <1>1, PolRows
<1>3. /\ Separated /\ ReduceTyped /\ IsPolyhedron(Pol) /\ Pol.NbEq = NbEq2
      /\ NbEq2 \in 0..NbEq /\ NbEq \in Nat /\ NbConstraints \in Nat /\ NbEq \in 0..NbConstraints
  BY DEF InStep10, Building, Separated, ReduceTyped
<1>4. L \in Nat /\ NbEq2 \in 0..L
  BY <1>3, PolRows
<1>5. M >= L
  OBVIOUS
<1>6. RowsListed(NbConstraints)
  BY DEF Listing
<1>7. /\ DOMAIN Wide = 0 .. NbConstraints - 1 \cup {-1} /\ Wide[-1] = PositivityRow
      /\ -1 \notin 0 .. NbConstraints - 1
      /\ \A d \in 0 .. NbConstraints - 1 : Wide[d] = Mat[d]
  BY <1>3, WideFacts
<1>8. \A d \in Irredundants : d \in 0 .. NbConstraints - 1
  BY <1>3, ChosenFacts
<1>9. \A z \in 0 .. L - 1 : z \in 0 .. M - 1 /\ C[z] = Pol.Constraint[z]
  BY <1>2, <1>4, <1>5
<1>10. \A z \in E : z \in 0 .. L - 1 /\ z \in 0 .. NbEq - 1 /\ z \in 0 .. NbConstraints - 1
  BY <1>3, <1>4
<1>11. \A z \in E : Pol.Constraint[z] = Mat[z]
  BY <1>6 DEF RowsListed
<1>12. \A z \in NbEq2 .. L - 1 : z \in 0 .. L - 1 /\ z \notin E
  BY <1>4
<1>13. \A z \in L .. M - 1 : z \in 0 .. M - 1 /\ z \notin E
  BY <1>2, <1>4
<1>14. \A z \in 0 .. M - 1 : z \in E \/ z \in NbEq2 .. L - 1 \/ z \in L .. M - 1
  BY <1>2, <1>4, <1>5
<1>15. -1 \notin E
  BY <1>3
<1>16. \A z \in L .. M - 1 : Alike(P.Constraint[z], PositivityRow)
  OBVIOUS
<1>17. \A z \in NbEq2 .. L - 1 : \E d \in Irredundants : Pol.Constraint[z] = Mat[d]
  BY <1>6 DEF RowsListed
<1>18. Parted(Pol.Constraint[x], Pol.Constraint[y])
  BY DEF ListParted
<1> HIDE DEF C, L, M, E
<1>19. PICK v \in IntRow : /\ Obeys(v, Wide, 0 .. NbEq - 1)
                           /\ InnerProduct(v, Pol.Constraint[x]) = 0 /\ InnerProduct(v, Pol.Constraint[y]) # 0
  BY <1>18 DEF Parted, PartedBy
<1>20. InnerProduct(v, PositivityRow) >= 0
  BY <1>7, <1>19 DEF Obeys
<1>21. \A d \in 0 .. NbConstraints - 1 : /\ InnerProduct(v, Mat[d]) >= 0
                                         /\ d \in 0 .. NbEq - 1 => InnerProduct(v, Mat[d]) = 0
  BY <1>7, <1>19 DEF Obeys
<1>22. ASSUME NEW z \in DOMAIN C
       PROVE  InnerProduct(v, C[z]) >= 0 /\ (z \in E => InnerProduct(v, C[z]) = 0)
  <2>1. CASE z = -1
    BY <1>2, <1>15, <1>20, <2>1
  <2>2. CASE z \in E
    BY <1>9, <1>10, <1>11, <1>21, <2>2
  <2>3. CASE z \in NbEq2 .. L - 1
    BY <1>8, <1>9, <1>12, <1>17, <1>21, <2>3
  <2>4. CASE z \in L .. M - 1
    BY <1>2, <1>13, <1>16, <1>20, <2>4 DEF Alike
  <2> QED BY <1>2, <1>14, <2>1, <2>2, <2>3, <2>4
<1>23. Obeys(v, C, E)
  BY <1>22 DEF Obeys
<1>24. /\ x \in DOMAIN C /\ y \in DOMAIN C /\ C[x] = Pol.Constraint[x] /\ C[y] = Pol.Constraint[y]
       /\ C[x] = P.Constraint[x] /\ C[y] = P.Constraint[y]
  <2>1. x \in NbEq2 .. L - 1 /\ y \in NbEq2 .. L - 1
    BY DEF L
  <2>2. x \in 0 .. L - 1 /\ y \in 0 .. L - 1
    BY <1>12, <2>1
  <2>3. x \in 0 .. M - 1 /\ y \in 0 .. M - 1
    BY <1>9, <2>2
  <2> QED BY <1>2, <1>9, <2>2, <2>3
<1>25. PartedBy(C, E, C[x], C[y])
  BY <1>19, <1>23, <1>24 DEF PartedBy
<1> QED BY <1>1, <1>24, <1>25, PartedApart
\* The polyhedron P that Pol becomes when the positivity constraint is included,
\* or not: the rows listed, and one like PositivityRow at the most.
Included(P) ==
  /\ Full(P) /\ P.NbEq = NbEq2 /\ P.NbBid = NbBid2 /\ P.Ray = Pol.Ray
  /\ Length(P.Constraint) >= Length(Pol.Constraint)
  /\ \A x \in 0 .. Length(Pol.Constraint) - 1 : P.Constraint[x] = Pol.Constraint[x]
  /\ \A x \in Length(Pol.Constraint) .. Length(P.Constraint) - 1 : Alike(P.Constraint[x], PositivityRow)
  /\ \/ Length(P.Constraint) = Length(Pol.Constraint)
     \/ /\ Length(P.Constraint) = Length(Pol.Constraint) + 1
        /\ KeptAtInfinity >= Dim_RaySpace

LEMMA PositivityAppended ==
  ASSUME InStep10, IncludePositivity, NEW q, Listing(q)
  PROVE  Included(Pol')
<1> DEFINE p == UnitRow(1, Dimension - 1)
           L == Length(Pol.Constraint)
<1>1. Full(Pol')
  BY IncludePositivityMeans
<1>2. IsRecord(Pol) /\ IsPolyhedron(Pol) /\ Pol.NbEq = NbEq2 /\ Pol.NbBid = NbBid2 /\ IsMatrix(Pol.Constraint)
  BY DEF InStep10, Building, IsPolyhedron
<1>3. L \in Nat
  BY <1>2, PolRows
<1>4. p \in IntRow /\ \A x \in IntRow : InnerProduct(x, p) = x[Dimension]
  <2>1. Dimension - 1 \in 0 .. Dimension - 1 /\ (Dimension - 1) + 1 = Dimension /\ 1 \in Int
    BY DimensionAssumption
  <2> QED BY <2>1, UnitRowIs
<1>5. Alike(p, PositivityRow)
  BY <1>4, PositivityProduct DEF Alike
<1>6. L .. L - 1 = {} /\ L >= L /\ L + 1 >= L /\ \A x \in L .. (L + 1) - 1 : x = L
  BY <1>3
<1>7. \/ Pol' = Pol
      \/ Pol' = [Pol EXCEPT !.Constraint = Appended(@, p)] /\ KeptAtInfinity >= Dim_RaySpace
  BY DEF IncludePositivity
<1> HIDE DEF p, L
<1>8. CASE Pol' = Pol
  BY <1>1, <1>2, <1>6, <1>8 DEF Included, L
<1>9. CASE Pol' = [Pol EXCEPT !.Constraint = Appended(@, p)] /\ KeptAtInfinity >= Dim_RaySpace
  <2>1. /\ Pol'.Constraint = Appended(Pol.Constraint, p) /\ Pol'.Ray = Pol.Ray
        /\ Pol'.NbEq = Pol.NbEq /\ Pol'.NbBid = Pol.NbBid
    BY <1>2, <1>9 DEF IsRecord
  <2>2. /\ Length(Pol'.Constraint) = L + 1 /\ Pol'.Constraint[L] = p
        /\ \A x \in 0 .. L - 1 : Pol'.Constraint[x] = Pol.Constraint[x]
    BY <1>2, <1>4, <2>1, AppendedIs DEF L
  <2>3. \A x \in L .. Length(Pol'.Constraint) - 1 : Alike(Pol'.Constraint[x], PositivityRow)
    BY <1>5, <1>6, <2>2
  <2>4. Length(Pol'.Constraint) >= L
    BY <1>6, <2>2
  <2> QED BY <1>1, <1>2, <1>9, <2>1, <2>2, <2>3, <2>4 DEF Included, L
<1> QED BY <1>7, <1>8, <1>9

\* What the rows of such a polyhedron are.
LEMMA IncludedRows ==
  ASSUME InStep10, NEW q, Listing(q), NoPositivityLeft, NEW P, Included(P),
         NEW column, Pivotal(Mat, column, NbEq2, 0 .. NbConstraints - 1),
         NEW x \in NbEq2 .. Length(Pol.Constraint) - 1
  PROVE  /\ x \in DOMAIN PolWide(P) \ (0 .. NbEq2 - 1) /\ PolWide(P)[x] = P.Constraint[x]
         /\ ZeroAtPivots(P.Constraint[x], column, NbEq2)
         /\ \E t \in Coordinates : t # Dimension /\ P.Constraint[x][t] # 0
<1> DEFINE L == Length(Pol.Constraint)
           M == Length(P.Constraint)
<1>1. IsPolyhedron(P) /\ M >= L /\ \A z \in 0 .. L - 1 : P.Constraint[z] = Pol.Constraint[z]
  BY DEF Included, Full
<1>2. /\ DOMAIN PolWide(P) = 0 .. M - 1 \cup {-1} /\ M \in Nat
      /\ \A c \in 0 .. M - 1 : PolWide(P)[c] = P.Constraint[c]
  BY <1>1, PolRows
<1>3. /\ Separated /\ IsPolyhedron(Pol) /\ Pol.NbEq = NbEq2
      /\ NbEq2 \in 0..NbEq /\ NbEq \in 0..NbConstraints /\ NbConstraints \in Nat /\ Mat \in MatrixOf(NbConstraints)
  BY DEF InStep10, Building, Separated, ReduceTyped
<1>4. L \in Nat /\ NbEq2 \in 0..L
  BY <1>3, PolRows
<1>5. PICK d \in Irredundants : Pol.Constraint[x] = Mat[d]
  BY DEF Listing, RowsListed
<1>6. x \in NbEq2 .. L - 1
  OBVIOUS
<1> HIDE DEF L, M
<1>7. x \in 0 .. L - 1 /\ x \in 0 .. M - 1 /\ x \notin 0 .. NbEq2 - 1
  BY <1>1, <1>2, <1>4, <1>6
<1>8. P.Constraint[x] = Mat[d]
  BY <1>1, <1>5, <1>7
<1>9. d \in 0 .. NbConstraints - 1 /\ d \in NbEq .. NbConstraints - 1
  BY <1>3, ChosenFacts DEF Irredundants
<1>10. Mat[d] \in IntRow /\ ~IsPositivity(Mat[d])
  BY <1>3, <1>9 DEF NoPositivityLeft, MatrixOf
<1>11. \E t \in Coordinates : t # Dimension /\ Mat[d][t] # 0
  BY <1>10, PositivityIs
<1>12. ZeroAtPivots(Mat[d], column, NbEq2)
  <2>1. ASSUME NEW z \in 0 .. NbEq2 - 1 PROVE Mat[d][column[z]] = 0
    <3>1. d # z
      BY <1>3, <1>9
    <3> QED BY <1>9, <3>1 DEF Pivotal
  <2> QED BY <1>10, <2>1 DEF ZeroAtPivots
<1> QED BY <1>2, <1>7, <1>8, <1>11, <1>12

\* An inequality listed is not below the positivity constraint: it would only
\* have a last coordinate.
LEMMA NotBelowPositivity ==
  ASSUME InStep10, NEW q, Listing(q), ListParted, NoPositivityLeft, NEW P, Included(P),
         Pivots(Mat, NbEq2, NbConstraints),
         NEW x \in NbEq2 .. Length(Pol.Constraint) - 1
  PROVE  ~(Touched(P.Constraint[x], P.Ray) \subseteq Touched(PositivityRow, P.Ray))
<1> DEFINE C == PolWide(P)
           L == Length(Pol.Constraint)
           M == Length(P.Constraint)
           E == 0 .. NbEq2 - 1
<1>1. PICK column : Pivotal(Mat, column, NbEq2, 0 .. NbConstraints - 1) /\ Dimension \in Free(column, NbEq2)
  BY DEF Pivots
<1>2. /\ Full(P) /\ IsPolyhedron(P) /\ Exact(C, P.Ray) /\ Flat(C, P.Ray) = E
      /\ P.NbEq = NbEq2 /\ M >= L
      /\ \A z \in 0 .. L - 1 : P.Constraint[z] = Pol.Constraint[z]
      /\ \A z \in L .. M - 1 : Alike(P.Constraint[z], PositivityRow)
  BY DEF Included, Full
<1>3. /\ DOMAIN C = 0 .. M - 1 \cup {-1} /\ C[-1] = PositivityRow
      /\ \A c \in 0 .. M - 1 : C[c] = P.Constraint[c]
      /\ M \in Nat
  BY <1>2, PolRows
<1>4. Separated /\ IsPolyhedron(Pol) /\ Pol.NbEq = NbEq2 /\ NbEq2 \in Nat
  BY DEF InStep10, Building, Separated, ReduceTyped
<1>5. L \in Nat /\ NbEq2 \in 0..L
  BY <1>4, PolRows
<1>6. /\ x \in DOMAIN C \ E /\ C[x] = P.Constraint[x] /\ ZeroAtPivots(P.Constraint[x], column, NbEq2)
      /\ \E t \in Coordinates : t # Dimension /\ P.Constraint[x][t] # 0
  BY <1>1, IncludedRows
<1>7. -1 \in DOMAIN C \ E
  BY <1>3, <1>4
<1>8. \A v \in IntRow : InnerProduct(v, C[-1]) = v[Dimension]
  BY <1>3, PositivityProduct
<1>9. \A z \in E : C[z] = Mat[z]
  <2>1. \A z \in E : z \in 0 .. L - 1 /\ z \in 0 .. M - 1
    BY <1>2, <1>3, <1>5
  <2>2. \A z \in E : Pol.Constraint[z] = Mat[z]
    BY DEF Listing, RowsListed
  <2> QED BY <1>2, <1>3, <2>1, <2>2
<1>10. \A z \in 0 .. M - 1 : z \in E \/ z \in NbEq2 .. L - 1 \/ z \in L .. M - 1
  BY <1>2, <1>3, <1>5
<1>11. \A z \in NbEq2 .. L - 1 : z \in 0 .. M - 1
  BY <1>2, <1>3, <1>5
<1>12. \A z \in L .. M - 1 : z \in 0 .. M - 1
  BY <1>3, <1>5
<1> SUFFICES ASSUME Touched(P.Constraint[x], P.Ray) \subseteq Touched(PositivityRow, P.Ray) PROVE FALSE
  OBVIOUS
<1>13. ASSUME NEW d \in DOMAIN C \ E, Touched(C[x], P.Ray) \subseteq Touched(C[d], P.Ray)
       PROVE  d = x \/ Alike(C[d], C[-1])
  <2>1. CASE d = -1
    BY <2>1 DEF Alike
  <2>2. CASE d \in NbEq2 .. L - 1
    <3>1. C[d] = P.Constraint[d]
      BY <1>3, <1>11, <2>2
    <3>2. Touched(P.Constraint[x], P.Ray) \subseteq Touched(P.Constraint[d], P.Ray)
      BY <1>6, <1>13, <3>1
    <3> QED BY <1>2, <2>2, <3>2, ListedApart DEF Included
  <2>3. CASE d \in L .. M - 1
    BY <1>2, <1>3, <1>12, <2>3
  <2> QED BY <1>3, <1>10, <1>13, <2>1, <2>2, <2>3
<1> HIDE DEF C, L, M, E
<1>14. Touched(C[x], P.Ray) \subseteq Touched(C[-1], P.Ray)
  BY <1>3, <1>6
<1>15. \A v \in IntRow : (\A z \in 0 .. NbEq2 - 1 : InnerProduct(v, Mat[z]) = 0) =>
                           \A e \in E : InnerProduct(v, C[e]) = 0
  BY <1>9 DEF E
<1>16. Tight(C, E, P.Ray, Flat(P.Ray, C))
  BY <1>2 DEF Exact
<1>17. SpansAtInfinity(Mat, NbEq2, C[x])
  BY <1>4, <1>6, <1>7, <1>8, <1>13, <1>14, <1>15, <1>16, BelowPositivity
<1>18. \A c \in Coordinates : c # Dimension => C[x][c] = 0
  BY <1>1, <1>4, <1>6, <1>17, LastOnly
<1> QED BY <1>6, <1>18
\* The rays kept are spread: none is below another.
LEMMA KeptSpread ==
  ASSUME InStep10, IncludePositivity, NEW q, Listing(q), NEW P, Included(P),
         NEW pivot, Pivotal(Ray, pivot, NbBid2, 0 .. NbRay - 1)
  PROVE  /\ Spread(P.Ray, NbBid2, Length(P.Ray), PolWide(P), pivot)
         /\ Lined(P.Ray, NbBid2, Length(P.Ray), Ray, Mat, NbEq2)
<1> DEFINE C == PolWide(P)
           Q == P.Ray
           n == Length(P.Ray)
           M == Length(P.Constraint)
<1>1. /\ Full(P) /\ IsPolyhedron(P) /\ Exact(C, Q) /\ Flat(C, Q) = 0 .. NbEq2 - 1 /\ Flat(Q, C) = 0 .. NbBid2 - 1
      /\ P.NbEq = NbEq2 /\ P.NbBid = NbBid2 /\ Q = Pol.Ray
      /\ \A x \in NbBid2 .. n - 1, y \in NbBid2 .. n - 1 : Zeros(Q[x], C) \subseteq Zeros(Q[y], C) => y = x
  BY DEF Included, Full
<1>2. /\ DOMAIN C = 0 .. M - 1 \cup {-1} /\ C[-1] = PositivityRow
      /\ \A c \in 0 .. M - 1 : C[c] = P.Constraint[c]
      /\ M \in Nat /\ NbEq2 \in 0..M /\ n \in Nat /\ NbBid2 \in 0..n
      /\ DOMAIN Q = 0 .. n - 1 /\ \A r \in 0 .. n - 1 : Q[r] \in IntRow
  BY <1>1, PolRows DEF IsFamily
<1>3. /\ Separated /\ IsPolyhedron(Pol) /\ Pol.NbEq = NbEq2
      /\ NbBid2 \in 0..NbBid /\ NbBid \in 0..NbRay /\ NbRay \in Nat /\ NbEq2 \in Nat
  BY DEF InStep10, Building, Separated, ReduceTyped
<1>4. i = NbRay
  <2>1. i >= NbRay /\ i \in NbBid..NbRay
    BY DEF IncludePositivity, InStep10
  <2> QED BY <1>3, <2>1
<1>5. RaysListed(NbRay) /\ LinesListed /\ RowsListed(NbConstraints)
  BY <1>4 DEF Listing
<1>6. \A y \in 0 .. NbEq2 - 1 : y \in DOMAIN C /\ y \in Flat(C, Q) /\ C[y] = Mat[y]
  <2>1. Length(Pol.Constraint) \in Nat /\ NbEq2 \in 0..Length(Pol.Constraint)
    BY <1>3, PolRows
  <2>2. \A y \in 0 .. NbEq2 - 1 : y \in 0 .. M - 1 /\ y \in 0 .. Length(Pol.Constraint) - 1
    BY <1>2, <2>1
  <2>3. \A y \in 0 .. NbEq2 - 1 : P.Constraint[y] = Mat[y]
    BY <1>5, <2>2 DEF Included, RowsListed
  <2> QED BY <1>1, <1>2, <2>2, <2>3
<1>7. \A r \in NbBid2 .. n - 1 : r \in 0 .. n - 1 /\ r \notin 0 .. NbBid2 - 1
  BY <1>2
<1>8. \A r \in 0 .. NbBid2 - 1 : r \in 0 .. n - 1 /\ r \in Flat(Q, C)
  BY <1>1, <1>2
<1> HIDE DEF C, Q, n, M
<1>9. ASSUME NEW r \in 0 .. n - 1, NEW a \in DOMAIN C
      PROVE  /\ InnerProduct(Q[r], C[a]) >= 0 /\ InnerProduct(C[a], Q[r]) = InnerProduct(Q[r], C[a])
             /\ a \in Flat(C, Q) \/ r \in Flat(Q, C) => InnerProduct(Q[r], C[a]) = 0
  <2>1. InnerProduct(Q[r], C[a]) \in Nat
    BY <1>1, <1>2, ExactProducts
  <2> QED BY <1>1, <1>2, <2>1, ExactProducts
<1>10. ASSUME NEW r \in NbBid2 .. n - 1
       PROVE  /\ ZeroAtPivots(Q[r], pivot, NbBid2)
              /\ \A a \in DOMAIN C : InnerProduct(Q[r], C[a]) >= 0
              /\ \E a \in DOMAIN C : InnerProduct(Q[r], C[a]) # 0
              /\ \A s \in NbBid2 .. n - 1 : Zeros(Q[r], C) \subseteq Zeros(Q[s], C) => s = r
  <2>1. r \in 0 .. n - 1 /\ r \notin Flat(Q, C)
    BY <1>1, <1>7
  <2>2. \E a \in DOMAIN C : InnerProduct(Q[r], C[a]) # 0
    <3>1. \E a \in DOMAIN C : InnerProduct(C[a], Q[r]) # 0
      BY <1>2, <2>1 DEF Flat
    <3> QED BY <1>9, <2>1, <3>1
  <2>3. PICK s \in Generators : Q[r] = Ray[s]
    BY <1>1, <1>5, <1>10 DEF RaysListed, Q, n
  <2>4. s \in NbBid .. NbRay - 1 /\ s \in 0 .. NbRay - 1
    BY <1>3, ChosenFacts DEF Generators
  <2>5. ASSUME NEW z \in 0 .. NbBid2 - 1 PROVE Ray[s][pivot[z]] = 0
    <3>1. s # z
      BY <1>3, <2>4
    <3> QED BY <2>4, <3>1 DEF Pivotal
  <2>6. ZeroAtPivots(Q[r], pivot, NbBid2)
    BY <1>2, <2>1, <2>3, <2>5 DEF ZeroAtPivots
  <2> QED BY <1>1, <1>9, <1>10, <2>1, <2>2, <2>6 DEF n, Q
<1>11. Spread(Q, NbBid2, n, C, pivot)
  BY <1>10 DEF Spread
<1>12. ASSUME NEW r \in 0 .. NbBid2 - 1 PROVE Q[r] = Ray[r] /\ Q[r][Dimension] = 0
  <2>1. Q[r] = Ray[r]
    BY <1>1, <1>5 DEF LinesListed
  <2>2. InnerProduct(Q[r], C[-1]) = 0
    BY <1>2, <1>8, <1>9
  <2> QED BY <1>2, <1>8, <2>1, <2>2, PositivityProduct
<1>13. ASSUME NEW r \in 0 .. n - 1
       PROVE  Q[r] \in IntRow /\ \A y \in 0 .. NbEq2 - 1 : InnerProduct(Q[r], Mat[y]) = 0
  BY <1>2, <1>6, <1>9
<1>14. Lined(Q, NbBid2, n, Ray, Mat, NbEq2)
  BY <1>12, <1>13 DEF Lined
<1> QED BY <1>11, <1>14 DEF C, Q, n

\* In four dimensions or fewer the positivity constraint, when it is included,
\* is not below an inequality listed: this has a coordinate that is not a pivot.
LEMMA PositivityNotBelow ==
  ASSUME InStep10, IncludePositivity, NEW q, Listing(q), Spaced, NoPositivityLeft,
         Pivots(Mat, NbEq2, NbConstraints), RayPivots, Dim_RaySpace \in 0..3,
         NEW P, Included(P), KeptAtInfinity >= Dim_RaySpace,
         NEW x \in NbEq2 .. Length(Pol.Constraint) - 1
  PROVE  ~(Touched(PositivityRow, P.Ray) \subseteq Touched(P.Constraint[x], P.Ray))
<1> SUFFICES ASSUME Touched(PositivityRow, P.Ray) \subseteq Touched(P.Constraint[x], P.Ray) PROVE FALSE
  OBVIOUS
<1> DEFINE C == PolWide(P)
           Q == P.Ray
           m == Length(P.Ray)
           w == P.Constraint[x]
           D == Dim_RaySpace
           b == NbBid2
           rank == NbEq2
           K == 0 .. NbConstraints - 1
           I == 0 .. NbRay - 1
<1>1. PICK column : Pivotal(Mat, column, rank, K) /\ Dimension \in Free(column, rank)
  BY DEF Pivots
<1>2. PICK pivot : Pivotal(Ray, pivot, b, I)
  BY DEF RayPivots
<1>3. /\ ZeroAtPivots(w, column, rank)
      /\ \E t \in Coordinates : t # Dimension /\ w[t] # 0
  BY <1>1, IncludedRows
<1>4. Spread(Q, b, m, C, pivot) /\ Lined(Q, b, m, Ray, Mat, rank)
  BY <1>2, KeptSpread
<1>5. /\ Separated /\ IsPolyhedron(Pol) /\ rank \in Nat /\ b \in Nat /\ rank \in Int /\ b \in Int
  BY DEF InStep10, Building, Separated, ReduceTyped
<1>6. IsFamily(C) /\ m \in Nat /\ b \in 0..m /\ DOMAIN Q = 0 .. m - 1 /\ \A r \in 0 .. m - 1 : Q[r] \in IntRow
  <2>1. IsPolyhedron(P) /\ P.NbBid = b
    BY DEF Included, Full
  <2> QED BY <2>1, PolRows DEF IsFamily
<1>7. D \in Nat /\ D <= 3 /\ b + D = Dimension - 1 - rank
  <2>1. D \in 0..3 /\ D = Dimension - 1 - rank - b
    BY DEF Spaced
  <2> HIDE DEF D, b, rank
  <2> QED BY <1>5, <2>1, DimensionAssumption
<1>8. D <= Cardinality({r \in b .. m - 1 : Q[r][Dimension] = 0})
  <2> DEFINE Z == {r \in b .. m - 1 : Q[r][Dimension] = 0}
  <2>1. KeptAtInfinity = Cardinality(Z)
    BY DEF KeptAtInfinity, AtInfinity, Included
  <2>2. IsFiniteSet(Z) /\ Cardinality(Z) \in Nat
    <3>1. Z \subseteq 0 .. m - 1
      BY <1>6
    <3> QED BY <1>6, <3>1, PartOfRange
  <2> HIDE DEF Z
  <2> QED BY <1>7, <2>1, <2>2 DEF Z
<1>9. \A r \in 0 .. m - 1 : Q[r][Dimension] = 0 => InnerProduct(Q[r], w) = 0
  <2>1. \A r \in 0 .. m - 1 : Q[r][Dimension] = 0 => r \in Touched(PositivityRow, Q)
    BY <1>6, PositivityProduct DEF Touched
  <2> QED BY <2>1 DEF Touched
<1>10. b <= m
  BY <1>5, <1>6
<1>11. Bounding(Q, b, m, C, pivot, Ray, Mat, rank, D)
  BY <1>4, <1>6, <1>8 DEF Bounding
<1>12. AtBound(w, Q, m, column, rank)
  BY <1>3, <1>9 DEF AtBound
<1> HIDE DEF C, Q, m, w, D, b, rank, K, I
<1> QED BY <1>1, <1>2, <1>5, <1>6, <1>7, <1>10, <1>11, <1>12, InfinityNotBelow
\* So that no inequality of the result is below another.
LEMMA IncludedIrreducible ==
  ASSUME InStep10, IncludePositivity, NEW q, Listing(q), Spaced, ListParted, NoPositivityLeft,
         Pivots(Mat, NbEq2, NbConstraints), RayPivots, Dim_RaySpace \in 0..3
  PROVE  Irreducible(Pol')
<1> DEFINE P == Pol'
           L == Length(Pol.Constraint)
           M == Length(P.Constraint)
<1>1. Included(P)
  BY PositivityAppended
<1> HIDE DEF P
<1>2. /\ Full(P) /\ IsPolyhedron(P) /\ P.NbEq = NbEq2 /\ M >= L
      /\ \A z \in L .. M - 1 : Alike(P.Constraint[z], PositivityRow)
      /\ M = L \/ (M = L + 1 /\ KeptAtInfinity >= Dim_RaySpace)
  BY <1>1 DEF Included, Full
<1>3. \A r \in DOMAIN P.Ray : P.Ray[r] \in IntRow
  BY <1>2, PolRows DEF IsFamily
<1>4. IsPolyhedron(Pol) /\ Pol.NbEq = NbEq2
  BY DEF InStep10, Building
<1>5. L \in Nat /\ NbEq2 \in 0..L
  BY <1>4, PolRows
<1>6. \A z \in L .. M - 1 : Touched(P.Constraint[z], P.Ray) = Touched(PositivityRow, P.Ray)
  BY <1>2, <1>3 DEF Touched, Alike
<1> HIDE DEF L, M
<1>7. \A z \in NbEq2 .. M - 1 : z \in NbEq2 .. L - 1 \/ (z = L /\ z \in L .. M - 1 /\ KeptAtInfinity >= Dim_RaySpace)
  BY <1>2, <1>5
<1>8. ASSUME NEW c \in NbEq2 .. M - 1, NEW d \in NbEq2 .. M - 1, c # d,
             Touched(P.Constraint[c], P.Ray) \subseteq Touched(P.Constraint[d], P.Ray)
      PROVE  FALSE
  <2>1. CASE c \in NbEq2 .. L - 1 /\ d \in NbEq2 .. L - 1
    BY <1>1, <1>8, <2>1, ListedApart DEF Included, L
  <2>2. CASE c \in NbEq2 .. L - 1 /\ d \in L .. M - 1
    <3>1. Touched(P.Constraint[c], P.Ray) \subseteq Touched(PositivityRow, P.Ray)
      BY <1>6, <1>8, <2>2
    <3> QED BY <1>1, <2>2, <3>1, NotBelowPositivity DEF L
  <2>3. CASE c \in L .. M - 1 /\ d \in NbEq2 .. L - 1 /\ KeptAtInfinity >= Dim_RaySpace
    <3>1. Touched(PositivityRow, P.Ray) \subseteq Touched(P.Constraint[d], P.Ray)
      BY <1>6, <1>8, <2>3
    <3> QED BY <1>1, <2>3, <3>1, PositivityNotBelow DEF L
  <2> QED BY <1>7, <1>8, <2>1, <2>2, <2>3
<1>9. Irreducible(P)
  BY <1>2, <1>8 DEF Irreducible, M
<1> QED BY <1>9 DEF P

-----------------------------------------------------------------------------
(* The invariant in every phase.                                           *)

\* Status words do not matter to the pivots of the lines.
LEMMA RayPivotsSame ==
  ASSUME NbRay \in Nat, NbRay' = NbRay, NbBid2' = NbBid2, NbBid2 \in Nat, Same(Ray, Ray', NbRay), RayPivots
  PROVE  RayPivots'
<1> DEFINE n == NbRay
           M == Ray
           N == Ray'
           rank == NbBid2
<1>1. PICK pivot : Pivotal(M, pivot, rank, 0 .. n - 1)
  BY DEF RayPivots
<1>2. /\ \A y \in 0 .. n - 1 : N[y] \in IntRow
      /\ \A y \in 0 .. n - 1 : \A c \in Coordinates : N[y][c] = M[y][c]
      /\ n \in Nat
  BY DEF Same, MatrixOf, SameCoordinates
<1> HIDE DEF n, M, N, rank
<1>3. ASSUME NEW x \in 0 .. rank - 1
      PROVE  /\ x \in 0 .. n - 1 /\ pivot[x] \in Coordinates /\ N[x][pivot[x]] # 0
             /\ \A c \in 1 .. pivot[x] - 1 : N[x][c] = 0
             /\ \A y \in 0 .. n - 1 : y # x => N[y][pivot[x]] = 0
  <2>1. /\ x \in 0 .. n - 1 /\ pivot[x] \in Coordinates /\ M[x][pivot[x]] # 0
        /\ \A c \in 1 .. pivot[x] - 1 : M[x][c] = 0
        /\ \A y \in 0 .. n - 1 : y # x => M[y][pivot[x]] = 0
    BY <1>1 DEF Pivotal
  <2>2. \A c \in 1 .. pivot[x] - 1 : c \in Coordinates
    BY <2>1, DimensionAssumption DEF Coordinates
  <2> QED BY <1>2, <2>1, <2>2
<1>4. Pivotal(N, pivot, rank, 0 .. n - 1)
  BY <1>2, <1>3 DEF Pivotal
<1> QED BY <1>4 DEF RayPivots, n, N, rank

\* Step 6 leaves no positivity constraint.
LEMMA ClassifyConstraintsLeaves ==
  ASSUME Separated, ClassifyConstraints, ~GotoEmpty
  PROVE  NoPositivityLeft'
<1>1. Same(Mat, Mat', NbConstraints) /\ NbConstraints' = NbConstraints
  BY ClassifyConstraintsStep
<1>2. Mat' = [c \in ConstraintRows |-> WithStatus(Mat[c], ConstraintStatus(Mat[c]))] /\ NbEq' = NbEq
  BY DEF ClassifyConstraints, GotoEmpty, reduceVars, counts
<1> SUFFICES ASSUME NEW c \in Irredundants', IsPositivity(Mat'[c]) PROVE FALSE
  BY DEF NoPositivityLeft
<1>3. c \in 0 .. NbConstraints - 1 /\ Mat'[c][0] = 1
  <2>1. c \in NbEq .. NbConstraints - 1 /\ Mat'[c][0] = 1
    BY <1>1, <1>2 DEF Irredundants
  <2>2. NbEq \in 0..NbConstraints /\ NbConstraints \in Nat
    BY DEF Separated, ReduceTyped
  <2> QED BY <2>1, <2>2
<1>4. Mat[c] \in IntRow /\ Mat'[c] \in IntRow /\ \A e \in Coordinates : Mat'[c][e] = Mat[c][e]
  BY <1>1, <1>3 DEF Same, MatrixOf, SameCoordinates
<1>5. Mat'[c][0] = ConstraintStatus(Mat[c])
  <2>1. 0 \in DOMAIN Mat[c]
    BY <1>4, DimensionAssumption DEF IntRow
  <2> QED BY <1>2, <1>3, <2>1 DEF ConstraintRows, WithStatus
<1>6. IsPositivity(Mat[c])
  BY <1>4, PositivityIs
<1> QED BY <1>3, <1>5, <1>6 DEF ConstraintStatus

\* What each phase of Remove_Redundants knows of the pivots and of the rows
\* parted so far; in four dimensions or fewer nothing redundant is returned.
Narrow ==
  /\ Dim_RaySpace \in 0 .. Dimension - 1
  /\ pc \in {"step4", "step6", "step7", "step9", "step10"} =>
       NbEq2 \in 0 .. Dimension - 1 /\ Pivots(Mat, NbEq2, NbConstraints)
  /\ pc \in {"step6", "step7", "step9", "step10"} => RayPivots
  /\ pc \in {"step7", "step9", "step10"} => NoPositivityLeft
  /\ pc = "step9" => RowsParted(j)
  /\ pc \in {"step9", "step10"} => ListParted
  /\ pc = "reduced" =>
       Pol = EmptyPolyhedron \/ (Pol.NbEq < Dimension /\ (Dimension <= 4 => Irreducible(Pol)))

\* The empty polyhedron is returned.
LEMMA EmptyNarrow ==
  ASSUME GotoEmpty, Narrow
  PROVE  Narrow'
BY DEF GotoEmpty, Narrow, counts

\* Before step 4.
LEMMA EarlyNarrow ==
  ASSUME pc' \in {"head", "line", "sort", "pairs", "step0", "step1", "step2", "step3"},
         Dim_RaySpace' \in 0 .. Dimension - 1
  PROVE  Narrow'
BY DEF Narrow

\* Step 4, and the steps 6 and 7 after it.
LEMMA RaiseLineNarrow ==
  ASSUME pc = "step4", RaiseLine, Narrow
  PROVE  Narrow'
<1>1. UNCHANGED <<pc, Mat, NbEq2, Dim_RaySpace>>
  BY DEF RaiseLine, reduceVars, counts
<1>2. NbConstraints' = NbConstraints
  BY <1>1 DEF NbConstraints
<1> QED BY <1>1, <1>2 DEF Narrow

LEMMA ReduceLinesNarrow ==
  ASSUME pc = "step4", InStep4, ReduceLines, NEW q, Leveled(q), Reduced(Mat, NbEq2, NbEq), Narrow
  PROVE  Narrow'
<1>1. /\ NbEq2 \in 0 .. Dimension - 1 /\ Pivots(Mat, NbEq2, NbConstraints)
  BY DEF Narrow
<1>2. pc' = "step6" /\ RayPivots' /\ Dim_RaySpace' \in 0 .. Dimension - 1
  BY <1>1, ReduceLinesMeans, ReduceLinesPivots
<1>3. UNCHANGED <<Mat, NbEq2>>
  BY <1>2 DEF ReduceLines, GotoEmpty
<1>4. NbConstraints' = NbConstraints
  BY <1>3 DEF NbConstraints
<1> QED BY <1>1, <1>2, <1>3, <1>4 DEF Narrow

LEMMA ClassifyConstraintsNarrow ==
  ASSUME pc = "step6", Separated, ClassifyConstraints, Narrow
  PROVE  Narrow'
<1>1. CASE GotoEmpty
  BY <1>1, EmptyNarrow
<1>2. CASE ~GotoEmpty
  <2>1. pc' = "step7" /\ Same(Mat, Mat', NbConstraints) /\ NbConstraints' = NbConstraints
    BY <1>2, ClassifyConstraintsStep
  <2>2. UNCHANGED <<Ray, NbRay, NbEq2, NbBid2, Dim_RaySpace>>
    BY <1>2 DEF ClassifyConstraints, reduceVars, counts
  <2>3. NoPositivityLeft'
    BY <1>2, ClassifyConstraintsLeaves
  <2>4. NbEq2 \in 0 .. Dimension - 1 /\ Pivots(Mat, NbEq2, NbConstraints) /\ RayPivots
    BY DEF Narrow
  <2>5. NbEq2 \in Nat /\ NbConstraints \in Nat
    BY DEF Separated, ReduceTyped
  <2>6. Pivots(Mat', NbEq2, NbConstraints)
    BY <2>1, <2>4, <2>5, PivotsSame
  <2>7. RayPivots'
    BY <2>2, <2>4 DEF RayPivots
  <2>8. Dim_RaySpace' \in 0 .. Dimension - 1
    BY <2>2 DEF Narrow
  <2> QED BY <2>1, <2>2, <2>3, <2>4, <2>6, <2>7, <2>8 DEF Narrow
<1> QED BY <1>1, <1>2
\* Step 8 lists the equalities; no inequality has been looked at.
LEMMA ClassifyRaysNarrow ==
  ASSUME pc = "step7", Separated, ClassifyRays, Narrow
  PROVE  Narrow'
<1>1. pc' = "step9" /\ Same(Ray, Ray', NbRay)
  BY ClassifyRaysStep
<1>2. /\ Pol'.Constraint = Rows(Mat, NbEq2) /\ j' = NbEq
      /\ UNCHANGED <<Mat, NbRay, NbEq, NbEq2, NbBid2, Dim_RaySpace>>
  BY DEF ClassifyRays, counts
<1>3. NbConstraints' = NbConstraints /\ Irredundants' = Irredundants
  BY <1>2 DEF NbConstraints, Irredundants
<1>4. NoPositivityLeft'
  BY <1>1, <1>2, <1>3 DEF Narrow, NoPositivityLeft
<1>5. /\ NbEq2 \in 0 .. Dimension - 1 /\ Pivots(Mat, NbEq2, NbConstraints) /\ RayPivots
      /\ NbRay \in Nat /\ NbBid2 \in Nat /\ NbEq \in Nat /\ NbConstraints \in Nat
  BY DEF Narrow, Separated, ReduceTyped
<1>6. RayPivots'
  BY <1>1, <1>2, <1>5, RayPivotsSame
<1>7. RowsParted(j)'
  <2>1. \A d \in Irredundants' : ~(d < j')
    <3>1. \A d \in NbEq .. NbConstraints - 1 : ~(d < NbEq)
      BY <1>5
    <3> QED BY <1>2, <1>3, <3>1 DEF Irredundants
  <2> QED BY <2>1 DEF RowsParted
<1>8. ListParted'
  <2>1. DOMAIN Pol'.Constraint = 0 .. NbEq2 - 1 /\ NbEq2 \in Nat
    BY <1>2, <1>5 DEF Rows
  <2>2. Length(Pol'.Constraint) = NbEq2
    BY <2>1, CountTo DEF Length
  <2>3. NbEq2 .. NbEq2 - 1 = {}
    BY <2>1
  <2>4. NbEq2' .. Length(Pol'.Constraint) - 1 = {}
    BY <1>2, <2>2, <2>3
  <2> QED BY <2>4 DEF ListParted
<1> QED BY <1>1, <1>2, <1>3, <1>4, <1>5, <1>6, <1>7, <1>8 DEF Narrow

LEMMA KeepConstraintNarrow ==
  ASSUME pc = "step9", InStep9, KeepConstraint, NEW q, Selected(q), RowsListed(j), Narrow
  PROVE  Narrow'
<1>1. pc' = "step9" /\ Same(Mat, Mat', NbConstraints) /\ NbConstraints' = NbConstraints
  BY KeepConstraintStep
<1>2. UNCHANGED <<Ray, NbRay, NbEq2, NbBid2, Dim_RaySpace>>
  BY DEF KeepConstraint, counts
<1>3. /\ NbEq2 \in 0 .. Dimension - 1 /\ Pivots(Mat, NbEq2, NbConstraints) /\ RayPivots
      /\ RowsParted(j) /\ ListParted /\ NoPositivityLeft
  BY DEF Narrow
<1>4. (RowsParted(j) /\ ListParted /\ NoPositivityLeft)'
  BY <1>3, KeepConstraintParts
<1>5. NbEq2 \in Nat /\ NbConstraints \in Nat
  BY DEF InStep9, Building, Separated, ReduceTyped
<1>6. Pivots(Mat', NbEq2, NbConstraints)
  BY <1>1, <1>3, <1>5, PivotsSame
<1>7. RayPivots'
  BY <1>2, <1>3 DEF RayPivots
<1>8. Dim_RaySpace' \in 0 .. Dimension - 1
  BY <1>2 DEF Narrow
<1> QED BY <1>1, <1>2, <1>3, <1>4, <1>6, <1>7, <1>8 DEF Narrow

LEMMA StartRaysNarrow ==
  ASSUME pc = "step9", StartRays, Narrow
  PROVE  Narrow'
<1>1. pc' = "step10" /\ UNCHANGED <<Mat, Ray, NbRay, NbEq, NbEq2, NbBid2, Dim_RaySpace, Pol>>
  BY DEF StartRays, reduceVars, counts
<1>2. NbConstraints' = NbConstraints /\ Irredundants' = Irredundants /\ Wide' = Wide
  BY <1>1 DEF NbConstraints, Irredundants, Wide
<1>3. ListParted'
  BY <1>1, <1>2 DEF ListParted, Parted, Narrow
<1>4. NoPositivityLeft' /\ RayPivots'
  BY <1>1, <1>2 DEF NoPositivityLeft, RayPivots, Narrow
<1> QED BY <1>1, <1>2, <1>3, <1>4 DEF Narrow

LEMMA KeepRayNarrow ==
  ASSUME pc = "step10", InStep10, KeepRay, Narrow
  PROVE  Narrow'
<1>1. pc' = "step10" /\ Same(Ray, Ray', NbRay)
  BY KeepRayStep
<1>2. UNCHANGED <<Mat, NbRay, NbEq, NbEq2, NbBid2, Dim_RaySpace>>
  BY DEF KeepRay, counts
<1>3. Pol'.Constraint = Pol.Constraint
  <2>1. IsRecord(Pol)
    BY DEF InStep10, Building
  <2>2. Pol' = Pol \/ Pol' = [Pol EXCEPT !.Ray = Appended(@, Ray[i])]
    BY DEF KeepRay
  <2> QED BY <2>1, <2>2 DEF IsRecord
<1>4. NbConstraints' = NbConstraints /\ Irredundants' = Irredundants /\ Wide' = Wide
  BY <1>2 DEF NbConstraints, Irredundants, Wide
<1>5. ListParted'
  BY <1>2, <1>3, <1>4 DEF ListParted, Parted, Narrow
<1>6. NoPositivityLeft'
  BY <1>2, <1>4 DEF NoPositivityLeft, Narrow
<1>7. NbRay \in Nat /\ NbBid2 \in Nat /\ RayPivots
  BY DEF InStep10, Building, Separated, ReduceTyped, Narrow
<1>8. RayPivots'
  BY <1>1, <1>2, <1>7, RayPivotsSame
<1> QED BY <1>1, <1>2, <1>4, <1>5, <1>6, <1>8 DEF Narrow

LEMMA IncludePositivityNarrow ==
  ASSUME pc = "step10", InStep10, IncludePositivity, NEW q, Listing(q), Spaced, Narrow
  PROVE  Narrow'
<1>1. pc' = "reduced" /\ UNCHANGED Dim_RaySpace
  BY DEF IncludePositivity, counts
<1>2. Included(Pol')
  BY PositivityAppended
<1>3. /\ NbEq2 \in 0 .. Dimension - 1 /\ Pivots(Mat, NbEq2, NbConstraints) /\ RayPivots
      /\ ListParted /\ NoPositivityLeft /\ Dim_RaySpace \in 0 .. Dimension - 1
  BY DEF Narrow
<1>4. Pol'.NbEq < Dimension
  BY <1>2, <1>3, DimensionAssumption DEF Included
<1>5. ASSUME Dimension <= 4 PROVE Irreducible(Pol')
  <2>1. Dim_RaySpace \in 0..3
    BY <1>3, <1>5, DimensionAssumption
  <2> QED BY <1>3, <2>1, IncludedIrreducible
<1> QED BY <1>1, <1>3, <1>4, <1>5 DEF Narrow
\* Every step of Remove_Redundants.
LEMMA RemoveNarrow ==
  ASSUME RemoveStep, NEW q, Kept(q), Narrow
  PROVE  Narrow'
<1>1. CASE GotoEmpty
  BY <1>1, EmptyNarrow
<1>2. CASE ResetRays \/ RemovePositivity \/ CountConstraint \/ CountLines \/ SlideEquality \/ FilterEqualities
  <2>1. CASE ~GotoEmpty
    <3>1. Dim_RaySpace' = Dim_RaySpace
      BY <1>2, <2>1 DEF ResetRays, RemovePositivity, CountConstraint, CountLines, SlideEquality, FilterEqualities,
         reduceVars, counts
    <3>2. pc' \in {"step0", "step1", "step2", "step3"}
      BY <1>2, <2>1 DEF ResetRays, RemovePositivity, CountConstraint, CountLines, SlideEquality, FilterEqualities
    <3>3. Dim_RaySpace' \in 0 .. Dimension - 1
      BY <3>1 DEF Narrow
    <3> QED BY <3>2, <3>3, EarlyNarrow
  <2> QED BY <1>1, <2>1
<1>3. CASE ReduceEqualities /\ ~GotoEmpty
  <2>1. InStep3 /\ Leveled(q)
    BY <1>3 DEF Kept, ReduceEqualities
  <2>2. NbEq2' \in 0 .. Dimension - 1 /\ Pivots(Mat', NbEq2', NbConstraints')
    BY <1>3, <2>1, ReduceEqualitiesPivots
  <2>3. pc' = "step4" /\ Dim_RaySpace' = Dim_RaySpace
    BY <1>3 DEF ReduceEqualities
  <2> QED BY <2>2, <2>3 DEF Narrow
<1>4. CASE RaiseLine
  BY <1>4, RaiseLineNarrow DEF RaiseLine
<1>5. CASE ReduceLines
  <2>1. pc = "step4" /\ InStep4 /\ Leveled(q) /\ Reduced(Mat, NbEq2, NbEq)
    BY <1>5 DEF Kept, ReduceLines
  <2> QED BY <1>5, <2>1, ReduceLinesNarrow
<1>6. CASE ClassifyConstraints
  BY <1>6, ClassifyConstraintsNarrow DEF Kept, ClassifyConstraints
<1>7. CASE ClassifyRays
  BY <1>7, ClassifyRaysNarrow DEF Kept, ClassifyRays
<1>8. CASE KeepConstraint
  <2>1. pc = "step9" /\ InStep9 /\ Selected(q) /\ RowsListed(j)
    BY <1>8 DEF Kept, KeepConstraint
  <2> QED BY <1>8, <2>1, KeepConstraintNarrow
<1>9. CASE StartRays
  BY <1>9, StartRaysNarrow DEF StartRays
<1>10. CASE KeepRay
  BY <1>10, KeepRayNarrow DEF Kept, KeepRay
<1>11. CASE IncludePositivity
  <2>1. pc = "step10" /\ InStep10 /\ Spaced /\ Listing(q)
    BY <1>11 DEF Kept, IncludePositivity
  <2> QED BY <1>11, <2>1, IncludePositivityNarrow
<1> QED BY <1>1, <1>2, <1>3, <1>4, <1>5, <1>6, <1>7, <1>8, <1>9, <1>10, <1>11 DEF RemoveStep

LEMMA NarrowStays ==
  ASSUME UNCHANGED vars, Narrow
  PROVE  Narrow'
<1>1. UNCHANGED <<pc, Mat, Ray, NbRay, j, NbEq, NbEq2, NbBid2, Dim_RaySpace, Pol>>
  BY DEF vars, chernikovaVars, pair, reduceVars, counts
<1>2. NbConstraints' = NbConstraints /\ Irredundants' = Irredundants /\ Wide' = Wide
  BY <1>1 DEF NbConstraints, Irredundants, Wide
<1>3. (ListParted => ListParted') /\ (RowsParted(j) => RowsParted(j)')
  BY <1>1, <1>2 DEF ListParted, RowsParted, Parted
<1>4. (NoPositivityLeft => NoPositivityLeft') /\ (RayPivots => RayPivots')
  BY <1>1, <1>2 DEF NoPositivityLeft, RayPivots
<1> QED BY <1>1, <1>2, <1>3, <1>4 DEF Narrow

\* The universe is returned before the first call.
LEMMA InitNarrow == Init => Narrow
<1> SUFFICES ASSUME Init PROVE Narrow
  OBVIOUS
<1>1. pc = "reduced" /\ Pol = UniversePolyhedron /\ Dim_RaySpace = 0
  BY DEF Init
<1>2. UniversePolyhedron.NbEq = 0 /\ UniversePolyhedron.Constraint = [x \in {0} |-> UnitRow(1, Dimension - 1)]
  BY DEF UniversePolyhedron
<1>3. Length(UniversePolyhedron.Constraint) = 1
  <2>1. DOMAIN UniversePolyhedron.Constraint = 0 .. 1 - 1
    BY <1>2
  <2> QED BY <2>1, CountTo DEF Length
<1>4. Irreducible(UniversePolyhedron)
  BY <1>2, <1>3 DEF Irreducible
<1>5. 0 \in 0 .. Dimension - 1 /\ 0 < Dimension
  BY DimensionAssumption
<1> QED BY <1>1, <1>2, <1>4, <1>5 DEF Narrow

\* Every step of the program.
LEMMA NarrowStep ==
  ASSUME ContractsInv, Narrow, [Next]_vars
  PROVE  Narrow'
<1>1. CASE \/ Constraints2Polyhedron \/ Rays2Polyhedron \/ AddConstraints
           \/ SimplifyConstraints \/ SubConstraint \/ AddRays
  <2>1. pc' = "head" /\ Dim_RaySpace' = 0
    BY <1>1 DEF Constraints2Polyhedron, Rays2Polyhedron, AddConstraints, SimplifyConstraints,
       SubConstraint, AddRays, Call, NoLocals, CallChernikova, Constrain
  <2>2. 0 \in 0 .. Dimension - 1
    BY DimensionAssumption
  <2> QED BY <2>1, <2>2, EarlyNarrow
<1>2. CASE InChernikova
  <2>1. Dim_RaySpace' = Dim_RaySpace
    BY <1>2 DEF InChernikova, reduceVars, counts
  <2>2. pc' \in {"head", "line", "sort", "pairs"}
    <3>1. pc \in {"head", "line", "sort", "pairs"}
      BY <1>2 DEF InChernikova, ProcessConstraint, Evaluate, LineToRay, DiscardLine, Sort, StartPairs,
         AddRay, SkipPair, InPairs, Eliminate
    <3>2. Computing
      BY <3>1 DEF ContractsInv, CallsInv, Phase
    <3>3. Computing'
      BY <1>2, <3>2, InChernikovaStep
    <3> QED BY <3>3 DEF Computing, ChernikovaInv, ChernikovaTyped
  <2>3. Dim_RaySpace' \in 0 .. Dimension - 1
    BY <2>1 DEF Narrow
  <2> QED BY <2>2, <2>3, EarlyNarrow
<1>3. CASE ReducePrimal \/ ReduceDual
  <2>1. pc' = "step0" /\ Dim_RaySpace' = Dim_RaySpace
    BY <1>3 DEF ReducePrimal, ReduceDual, CallUnchanged, reduceVars, counts
  <2>2. Dim_RaySpace' \in 0 .. Dimension - 1
    BY <2>1 DEF Narrow
  <2> QED BY <2>1, <2>2, EarlyNarrow
<1>4. CASE InRemove
  <2>1. RemoveStep
    BY <1>4 DEF InRemove
  <2>2. pc \notin {"head", "line", "sort", "pairs"}
    BY <2>1 DEF RemoveStep, ResetRays, RemovePositivity, CountConstraint, CountLines, SlideEquality,
       FilterEqualities, ReduceEqualities, RaiseLine, ReduceLines, ClassifyConstraints, ClassifyRays,
       KeepConstraint, StartRays, KeepRay, IncludePositivity
  <2>3. PICK q : q = Promised
    OBVIOUS
  <2>4. Kept(q)
    BY <2>2, <2>3 DEF ContractsInv, Describing
  <2> QED BY <2>1, <2>4, RemoveNarrow
<1>5. CASE UNCHANGED vars
  BY <1>5, NarrowStays
<1> QED BY <1>1, <1>2, <1>3, <1>4, <1>5 DEF Next
LEMMA EmptyIrreducible == Irreducible(EmptyPolyhedron)
<1>1. EmptyPolyhedron.NbEq = Dimension /\ Length(EmptyPolyhedron.Constraint) = Dimension
  BY EmptyPolIs
<1>2. Dimension .. Dimension - 1 = {}
  BY DimensionAssumption
<1> QED BY <1>1, <1>2 DEF Irreducible

\* In four dimensions or fewer AddRays is given what the invariant asks for.
LEMMA AddsStep ==
  ASSUME Dimension <= 4, Narrow, AddsToIrreducible, [Next]_vars
  PROVE  AddsToIrreducible'
<1>1. CASE \/ Constraints2Polyhedron \/ Rays2Polyhedron \/ AddConstraints
           \/ SimplifyConstraints \/ SubConstraint \/ AddRays
  <2>1. pc = "reduced" /\ Arg' = Pol
    BY <1>1 DEF Constraints2Polyhedron, Rays2Polyhedron, AddConstraints, SimplifyConstraints,
       SubConstraint, AddRays, Call
  <2>2. Irreducible(Pol)
    BY <2>1, EmptyIrreducible DEF Narrow
  <2>3. Irreducible(Arg')
    BY <2>1, <2>2
  <2> QED BY <2>3 DEF AddsToIrreducible
<1>2. CASE InChernikova \/ ReducePrimal \/ ReduceDual \/ InRemove \/ UNCHANGED vars
  <2>1. op' = op /\ Arg' = Arg
    BY <1>2 DEF InChernikova, ReducePrimal, ReduceDual, CallUnchanged, InRemove, callVars, vars
  <2> QED BY <2>1 DEF AddsToIrreducible
<1> QED BY <1>1, <1>2 DEF Next

(***************************************************************************)
(* In every dimension, as long as AddRays is called only on polyhedra      *)
(* without redundant inequalities, the phases keep what they promise, and  *)
(* step 3 and step 5 of Remove_Redundants leave fewer rows than there are  *)
(* coordinates.                                                            *)
(***************************************************************************)
THEOREM NarrowInvariance == Spec /\ []AddsToIrreducible => [](ContractsInv /\ Narrow)
<1>1. ContractsInv /\ Narrow /\ CallsInv' /\ AddsToIrreducible' /\ [Next]_vars => (ContractsInv /\ Narrow)'
  BY ContractsStep, NarrowStep
<1> QED BY <1>1, InitContracts, InitNarrow, Invariance, PTL DEF Spec

(***************************************************************************)
(* In four dimensions or fewer every polyhedron returned is without        *)
(* redundant inequalities, so that all this holds of any calls.            *)
(***************************************************************************)
Small == ContractsInv /\ Narrow /\ AddsToIrreducible

THEOREM SmallInvariance == ASSUME Dimension <= 4 PROVE Spec => []Small
<1>1. Small /\ CallsInv' /\ [Next]_vars => Small'
  BY AddsStep, ContractsStep, NarrowStep DEF Small
<1>2. Init => Small
  BY InitContracts, InitNarrow DEF Init, AddsToIrreducible, Small
<1> QED BY <1>1, <1>2, Invariance, PTL DEF Spec

-----------------------------------------------------------------------------
(* What the callers read off the polyhedron returned.                      *)

\* A call returns the empty polyhedron, or one with a vertex, fewer equalities
\* than coordinates, and whole descriptions.
LEMMA ReturnedIs ==
  ASSUME ContractsInv, Narrow, Done
  PROVE  \/ Pol = EmptyPolyhedron
         \/ /\ Whole(Pol) /\ Full(Pol) /\ IsPolyhedron(Pol) /\ Exact(PolWide(Pol), Pol.Ray)
            /\ Pol.NbEq < Dimension /\ (Dimension <= 4 => Irreducible(Pol))
            /\ \E r \in DOMAIN Pol.Ray : Pol.Ray[r][Dimension] > 0
<1> SUFFICES ASSUME Pol # EmptyPolyhedron
             PROVE  /\ Whole(Pol) /\ Full(Pol) /\ IsPolyhedron(Pol) /\ Exact(PolWide(Pol), Pol.Ray)
                    /\ Pol.NbEq < Dimension /\ (Dimension <= 4 => Irreducible(Pol))
                    /\ \E r \in DOMAIN Pol.Ray : Pol.Ray[r][Dimension] > 0
  OBVIOUS
<1>1. pc = "reduced"
  BY DEF Done
<1>2. Fulfils(Pol, Promised)
  BY <1>1, ReturnedSettled
<1>3. Whole(Pol) /\ Alive(PolWide(Pol), Pol.Ray, Promised)
  BY <1>2 DEF Fulfils
<1>4. Full(Pol) /\ IsPolyhedron(Pol) /\ Exact(PolWide(Pol), Pol.Ray)
  BY <1>3 DEF Whole, Full
<1>5. \E r \in DOMAIN Pol.Ray : Pol.Ray[r][Dimension] > 0
  BY <1>3, AliveVertex
<1>6. Pol.NbEq < Dimension /\ (Dimension <= 4 => Irreducible(Pol))
  BY <1>1 DEF Narrow
<1> QED BY <1>3, <1>4, <1>5, <1>6

\* The status words, and that only the empty polyhedron has no vertex.
LEMMA TypeMeant ==
  ASSUME ContractsInv, Narrow
  PROVE  TypeOK
<1>1. Dimension \in Nat /\ Dim_RaySpace \in 0 .. Dimension - 1
  BY DimensionAssumption DEF Narrow
<1>2. 0 <= Dim_RaySpace /\ Dim_RaySpace < Dimension
  BY <1>1
<1> SUFFICES ASSUME Done
             PROVE  /\ \A c \in DOMAIN Pol.Constraint :
                         Pol.Constraint[c][0] = IF c < Pol.NbEq THEN 0 ELSE 1
                    /\ \A r \in DOMAIN Pol.Ray :
                         Pol.Ray[r][0] = IF r < Pol.NbBid THEN 0 ELSE 1
                    /\ IsEmpty(Pol) <=> ~HasVertex(Pol.Ray)
  BY <1>2 DEF TypeOK
<1> DEFINE C == Pol.Constraint
           R == Pol.Ray
           e == Pol.NbEq
           b == Pol.NbBid
           m == Length(C)
           n == Length(R)
<1>3. CASE Pol = EmptyPolyhedron
  <2>1. /\ IsPolyhedron(Pol) /\ e = Dimension /\ m = Dimension /\ n = 0
        /\ \A x \in 0 .. Dimension - 1 : C[x][0] = 0
    BY <1>3, EmptyPolIs
  <2>2. DOMAIN C = 0 .. m - 1 /\ DOMAIN R = 0 .. n - 1
    BY <2>1, PolRows
  <2> HIDE DEF C, R, e, b, m, n
  <2>3. DOMAIN R = {} /\ DOMAIN C = 0 .. Dimension - 1
    BY <1>1, <2>1, <2>2
  <2>4. \A c \in DOMAIN C : C[c][0] = IF c < e THEN 0 ELSE 1
    BY <1>1, <2>1, <2>3
  <2>5. IsEmpty(Pol) /\ ~HasVertex(R)
    BY <2>1, <2>3 DEF IsEmpty, HasVertex, e
  <2> QED BY <2>3, <2>4, <2>5 DEF C, R, e, b
<1>4. CASE Pol # EmptyPolyhedron
  <2>1. /\ Full(Pol) /\ IsPolyhedron(Pol) /\ e < Dimension
        /\ \E r \in DOMAIN R : R[r][Dimension] > 0
    BY <1>4, ReturnedIs
  <2>2. /\ DOMAIN C = 0 .. m - 1 /\ DOMAIN R = 0 .. n - 1
        /\ m \in Nat /\ n \in Nat /\ e \in 0..m /\ b \in 0..n
    BY <2>1, PolRows
  <2>3. /\ \A c \in e .. m - 1 : C[c][0] = 1
        /\ \A r \in b .. n - 1 : R[r][0] = 1
        /\ \A c \in 0 .. e - 1 : C[c][0] = 0
        /\ \A r \in 0 .. b - 1 : R[r][0] = 0
    BY <2>1 DEF Full, IsPolyhedron
  <2> HIDE DEF C, R, e, b, m, n
  <2>4. \A c \in DOMAIN C : C[c][0] = IF c < e THEN 0 ELSE 1
    BY <2>2, <2>3
  <2>5. \A r \in DOMAIN R : R[r][0] = IF r < b THEN 0 ELSE 1
    BY <2>2, <2>3
  <2>6. HasVertex(R)
    BY <2>1 DEF HasVertex, AtInfinity
  <2>7. ~IsEmpty(Pol)
    BY <1>1, <2>1, <2>2 DEF IsEmpty, e
  <2> QED BY <2>4, <2>5, <2>6, <2>7 DEF C, R, e, b
<1> QED BY <1>3, <1>4

\* What is said of the rows of a family and of their numbers.
LEMMA SaturatedRows ==
  ASSUME NEW A, NEW S, S = {A[c] : c \in DOMAIN A}, NEW x
  PROVE  /\ SaturatedIn(x, S) = S <=> Zeros(x, A) = DOMAIN A
         /\ \A y : SaturatedIn(x, S) \subseteq SaturatedIn(y, S) <=> Zeros(x, A) \subseteq Zeros(y, A)
<1>1. SaturatedIn(x, S) = S <=> \A c \in DOMAIN A : InnerProduct(x, A[c]) = 0
  BY DEF SaturatedIn
<1>2. Zeros(x, A) = DOMAIN A <=> \A c \in DOMAIN A : InnerProduct(x, A[c]) = 0
  BY DEF Zeros
<1>3. ASSUME NEW y
      PROVE  SaturatedIn(x, S) \subseteq SaturatedIn(y, S) <=> Zeros(x, A) \subseteq Zeros(y, A)
  <2>1. SaturatedIn(x, S) \subseteq SaturatedIn(y, S) <=>
          \A c \in DOMAIN A : InnerProduct(x, A[c]) = 0 => InnerProduct(y, A[c]) = 0
    BY DEF SaturatedIn
  <2>2. Zeros(x, A) \subseteq Zeros(y, A) <=>
          \A c \in DOMAIN A : InnerProduct(x, A[c]) = 0 => InnerProduct(y, A[c]) = 0
    BY DEF Zeros
  <2> QED BY <2>1, <2>2
<1> QED BY <1>1, <1>2, <1>3

\* The rows of the two families of a polyhedron.
LEMMA RowsRead ==
  ASSUME NEW P, IsPolyhedron(P)
  PROVE  /\ RowsOf(P.Ray) = {P.Ray[r] : r \in DOMAIN P.Ray}
         /\ RowsOf(P.Constraint) \cup {Positivity} = {PolWide(P)[c] : c \in DOMAIN PolWide(P)}
         /\ PositivityRow[0] = 1
<1> DEFINE A == PolWide(P)
           C == P.Constraint
           m == Length(C)
<1>1. /\ DOMAIN A = 0 .. m - 1 \cup {-1} /\ A[-1] = PositivityRow
      /\ DOMAIN C = 0 .. m - 1 /\ \A c \in 0 .. m - 1 : A[c] = C[c]
  BY PolRows
<1>2. Positivity = PositivityRow /\ PositivityRow[0] = 1
  BY DimensionAssumption DEF Positivity, PositivityRow, UnitRow
<1> HIDE DEF A, C, m
<1>3. RowsOf(C) = {A[c] : c \in 0 .. m - 1}
  BY <1>1 DEF RowsOf
<1>4. {A[c] : c \in DOMAIN A} = {A[c] : c \in 0 .. m - 1} \cup {A[-1]}
  BY <1>1
<1>5. RowsOf(C) \cup {Positivity} = {A[c] : c \in DOMAIN A}
  BY <1>1, <1>2, <1>3, <1>4
<1> QED BY <1>2, <1>5 DEF A, C, RowsOf

\* Each point of the polyhedron is on a face that a ray spans, and each valid
\* inequality on one of a constraint.
LEMMA CompleteMeant ==
  ASSUME ContractsInv, Narrow
  PROVE  Complete
<1> DEFINE A == PolWide(Pol)
           R == Pol.Ray
           rays == RowsOf(R)
           constraints == RowsOf(Pol.Constraint) \cup {Positivity}
<1> SUFFICES ASSUME Done, ~IsEmpty(Pol)
             PROVE  /\ \A x \in Vectors0 : SatisfiesAll(x, Pol.Constraint) =>
                         \/ SaturatedIn(x, constraints) = constraints
                         \/ \E r \in rays : r[0] = 1 /\
                              SaturatedIn(x, constraints) \subseteq SaturatedIn(r, constraints)
                    /\ \A p \in Box : ValidFor(p, R) =>
                         \/ SaturatedIn(p, rays) = rays
                         \/ \E c \in constraints : c[0] = 1 /\
                              SaturatedIn(p, rays) \subseteq SaturatedIn(c, rays)
  BY DEF Complete
<1>1. Pol # EmptyPolyhedron
  BY EmptyPolIs DEF IsEmpty
<1>2. Whole(Pol) /\ Full(Pol) /\ IsPolyhedron(Pol) /\ Exact(A, R)
  BY <1>1, ReturnedIs
<1>3. /\ Flat(A, R) = 0 .. Pol.NbEq - 1 /\ Flat(R, A) = 0 .. Pol.NbBid - 1
      /\ \A c \in Pol.NbEq .. Length(Pol.Constraint) - 1 : Pol.Constraint[c][0] = 1
      /\ \A r \in Pol.NbBid .. Length(R) - 1 : R[r][0] = 1
  BY <1>2 DEF Full, IsPolyhedron
<1>4. /\ rays = {R[r] : r \in DOMAIN R}
      /\ constraints = {A[c] : c \in DOMAIN A} /\ PositivityRow[0] = 1
  BY <1>2, RowsRead
<1>5. /\ DOMAIN A = 0 .. Length(Pol.Constraint) - 1 \cup {-1}
      /\ A[-1] = PositivityRow /\ DOMAIN R = 0 .. Length(R) - 1
      /\ \A c \in 0 .. Length(Pol.Constraint) - 1 : A[c] = Pol.Constraint[c]
      /\ Length(Pol.Constraint) \in Nat /\ Length(R) \in Nat
      /\ Pol.NbEq \in 0..Length(Pol.Constraint) /\ Pol.NbBid \in 0..Length(R)
  BY <1>2, PolRows
<1>6. /\ \A x \in IntRow : x[Dimension] >= 0 =>
           (Obeys(x, A, Flat(A, R)) <=> SatisfiesAll(x, Pol.Constraint))
      /\ \A p \in IntRow : Obeys(p, R, Flat(R, A)) <=> ValidFor(p, R)
  BY <1>2, WholeReads
<1> HIDE DEF A, R, rays, constraints
<1>7. \A r \in DOMAIN R \ Flat(R, A) : R[r][0] = 1
  <2> SUFFICES ASSUME NEW r \in DOMAIN R \ Flat(R, A) PROVE R[r][0] = 1
    OBVIOUS
  <2>1. r \in Pol.NbBid .. Length(R) - 1
    BY <1>3, <1>5
  <2> QED BY <2>1, <1>3
<1>8. \A c \in DOMAIN A \ Flat(A, R) : A[c][0] = 1
  <2> SUFFICES ASSUME NEW c \in DOMAIN A \ Flat(A, R) PROVE A[c][0] = 1
    OBVIOUS
  <2>1. CASE c = -1
    BY <2>1, <1>4, <1>5
  <2>2. CASE c # -1
    <3>1. c \in Pol.NbEq .. Length(Pol.Constraint) - 1
      BY <2>2, <1>3, <1>5
    <3> QED BY <3>1, <1>3, <1>5
  <2> QED BY <2>1, <2>2
<1>9. ASSUME NEW x \in Vectors0, SatisfiesAll(x, Pol.Constraint),
             SaturatedIn(x, constraints) # constraints
      PROVE  \E r \in rays : r[0] = 1 /\
               SaturatedIn(x, constraints) \subseteq SaturatedIn(r, constraints)
  <2>1. x \in IntRow /\ x[Dimension] >= 0
    BY BoxRows DEF Vectors0
  <2>2. Obeys(x, A, Flat(A, R))
    BY <1>6, <1>9, <2>1
  <2>3. Zeros(x, A) # DOMAIN A
    BY <1>4, <1>9, SaturatedRows
  <2>4. PICK n \in DOMAIN R \ Flat(R, A) : Zeros(x, A) \subseteq Zeros(R[n], A)
    BY <1>2, <2>1, <2>2, <2>3, ExactCovers DEF A, R
  <2>5. SaturatedIn(x, constraints) \subseteq SaturatedIn(R[n], constraints)
    BY <1>4, <2>4, SaturatedRows
  <2> QED BY <1>4, <1>7, <2>4, <2>5
<1>10. ASSUME NEW p \in Box, ValidFor(p, R), SaturatedIn(p, rays) # rays
       PROVE  \E c \in constraints : c[0] = 1 /\
                SaturatedIn(p, rays) \subseteq SaturatedIn(c, rays)
  <2>1. p \in IntRow
    BY BoxRows
  <2>2. Obeys(p, R, Flat(R, A))
    BY <1>6, <1>10, <2>1
  <2>3. Zeros(p, R) # DOMAIN R
    BY <1>4, <1>10, SaturatedRows
  <2>4. Exact(R, A)
    BY <1>2, ExactSwapped DEF A, R
  <2>5. PICK n \in DOMAIN A \ Flat(A, R) : Zeros(p, R) \subseteq Zeros(A[n], R)
    BY <2>1, <2>2, <2>3, <2>4, ExactCovers
  <2>6. SaturatedIn(p, rays) \subseteq SaturatedIn(A[n], rays)
    BY <1>4, <2>5, SaturatedRows
  <2> QED BY <1>4, <1>8, <2>5, <2>6
<1> QED BY <1>9, <1>10 DEF A, R

\* None of the rows returned can be left out.
LEMMA NonRedundantMeant ==
  ASSUME ContractsInv, Narrow, Dimension <= 4
  PROVE  NonRedundant
<1> DEFINE A == PolWide(Pol)
           R == Pol.Ray
           rays == RowsOf(R)
           constraints == RowsOf(Pol.Constraint) \cup {Positivity}
           Inequalities == Pol.NbEq .. Length(Pol.Constraint) - 1
           Unidirectional == Pol.NbBid .. Length(R) - 1
<1> SUFFICES ASSUME Done, ~IsEmpty(Pol)
             PROVE  /\ \A c, d \in Inequalities : c # d =>
                         ~(SaturatedIn(Pol.Constraint[c], rays)
                             \subseteq SaturatedIn(Pol.Constraint[d], rays))
                    /\ \A r, s \in Unidirectional : r # s =>
                         ~(SaturatedIn(R[r], constraints) \subseteq SaturatedIn(R[s], constraints))
  BY DEF NonRedundant
<1>1. Pol # EmptyPolyhedron
  BY EmptyPolIs DEF IsEmpty
<1>2. Full(Pol) /\ IsPolyhedron(Pol) /\ Irreducible(Pol)
  BY <1>1, ReturnedIs
<1>3. /\ rays = {R[r] : r \in DOMAIN R}
      /\ constraints = {A[c] : c \in DOMAIN A}
  BY <1>2, RowsRead
<1>4. /\ IsFamily(R) /\ DOMAIN R = 0 .. Length(R) - 1
      /\ \A c \in 0 .. Length(Pol.Constraint) - 1 : Pol.Constraint[c] \in IntRow
      /\ Pol.NbEq \in 0..Length(Pol.Constraint)
  BY <1>2, PolRows
<1>5. \A c \in Inequalities : Pol.Constraint[c] \in IntRow
  BY <1>4
<1>6. \A c \in Inequalities, d \in Inequalities :
        Touched(Pol.Constraint[c], R) \subseteq Touched(Pol.Constraint[d], R) => d = c
  BY <1>2 DEF Irreducible
<1>7. \A x \in Unidirectional, y \in Unidirectional : Zeros(R[x], A) \subseteq Zeros(R[y], A) => y = x
  BY <1>2 DEF Full
<1> HIDE DEF A, R, rays, constraints, Inequalities, Unidirectional
<1>8. ASSUME NEW c \in Inequalities, NEW d \in Inequalities, c # d,
             SaturatedIn(Pol.Constraint[c], rays) \subseteq SaturatedIn(Pol.Constraint[d], rays)
      PROVE  FALSE
  <2> DEFINE p == Pol.Constraint[c]
             s == Pol.Constraint[d]
  <2> HIDE DEF p, s
  <2>3. SaturatedIn(p, rays) \subseteq SaturatedIn(s, rays) <=> Zeros(p, R) \subseteq Zeros(s, R)
    BY <1>3, SaturatedRows
  <2>1. Zeros(Pol.Constraint[c], R) \subseteq Zeros(Pol.Constraint[d], R)
    BY <1>8, <2>3 DEF p, s
  <2>2. /\ Touched(Pol.Constraint[c], R) = Zeros(Pol.Constraint[c], R)
        /\ Touched(Pol.Constraint[d], R) = Zeros(Pol.Constraint[d], R)
    BY <1>4, <1>5, TouchedZeros
  <2> QED BY <1>6, <1>8, <2>1, <2>2
<1>9. ASSUME NEW r \in Unidirectional, NEW s \in Unidirectional, r # s,
             SaturatedIn(R[r], constraints) \subseteq SaturatedIn(R[s], constraints)
      PROVE  FALSE
  <2>1. Zeros(R[r], A) \subseteq Zeros(R[s], A)
    BY <1>3, <1>9, SaturatedRows
  <2> QED BY <1>7, <1>9, <2>1
<1> QED BY <1>8, <1>9 DEF R

(***************************************************************************)
(* In every dimension the polyhedra returned have the status words and     *)
(* counts their readers rely on, and only the empty one is without a       *)
(* vertex, as long as AddRays is called only on polyhedra without          *)
(* redundant inequalities.                                                 *)
(***************************************************************************)
THEOREM Typing == Spec /\ []AddsToIrreducible => []TypeOK
<1>1. ContractsInv /\ Narrow => TypeOK
  BY TypeMeant
<1> QED BY <1>1, NarrowInvariance, PTL

(***************************************************************************)
(* Likewise, whatever vectors are looked at, the two descriptions of every *)
(* polyhedron returned are complete: no ray and no constraint is missing.  *)
(***************************************************************************)
THEOREM Completeness == Spec /\ []AddsToIrreducible => []Complete
<1>1. ContractsInv /\ Narrow => Complete
  BY CompleteMeant
<1> QED BY <1>1, NarrowInvariance, PTL

(***************************************************************************)
(* In four dimensions or fewer, the homogeneous one included, all calls in *)
(* all orders return the set that the comment of the function promises.    *)
(***************************************************************************)
THEOREM SmallContracts == ASSUME Dimension <= 4 PROVE Spec => []CallsContract
<1>1. Small => CallsContract
  BY ConstraintsMeant, DifferenceMeant, RaysMeant DEF Small, CallsContract
<1> QED BY <1>1, SmallInvariance, PTL

(***************************************************************************)
(* There too no call leaves a status word or a count that is wrong, ...    *)
(***************************************************************************)
THEOREM SmallTyping == ASSUME Dimension <= 4 PROVE Spec => []TypeOK
<1>1. Small => TypeOK
  BY TypeMeant DEF Small
<1> QED BY <1>1, SmallInvariance, PTL

(***************************************************************************)
(* ... and all inequalities are facets and all rays are extreme, so that   *)
(* POL_FACETS and POL_VERTICES, which every constructor sets, are right.   *)
(***************************************************************************)
THEOREM SmallNonRedundant == ASSUME Dimension <= 4 PROVE Spec => []NonRedundant
<1>1. Dimension <= 4 /\ Small => NonRedundant
  BY NonRedundantMeant DEF Small
<1>2. Small => NonRedundant
  BY <1>1
<1> QED BY <1>2, SmallInvariance, PTL

(***************************************************************************)
(* With the completeness of the descriptions: the polyhedron returned has  *)
(* as many constraints and rays as it takes, and none more.                *)
(***************************************************************************)
THEOREM SmallMinimal == ASSUME Dimension <= 4 PROVE Spec => []CompleteAndNonRedundant
<1>1. Dimension <= 4 /\ Small => CompleteAndNonRedundant
  BY CompleteMeant, NonRedundantMeant DEF Small, CompleteAndNonRedundant
<1>2. Small => CompleteAndNonRedundant
  BY <1>1
<1> QED BY <1>2, SmallInvariance, PTL


-----------------------------------------------------------------------------
(* The filter of SimplifyConstraints.                                      *)

\* A vector can be moved along the rays of a cone until it obeys all that is
\* no equality; what the equalities say of it does not change.
Pushed(z, x, A, E, l) ==
  /\ z \in IntRow
  /\ \A c \in DOMAIN A : IF c \in E THEN InnerProduct(z, A[c]) = InnerProduct(x, A[c])
                         ELSE c < l => InnerProduct(z, A[c]) >= 0

LEMMA PushedFurther ==
  ASSUME NEW A, NEW R, Exact(A, R), NEW x \in IntRow, NEW l \in Int,
         \A c \in DOMAIN A : c \in Int, NEW z, Pushed(z, x, A, Flat(A, R), l)
  PROVE  \E y : Pushed(y, x, A, Flat(A, R), l + 1)
<1> DEFINE E == Flat(A, R)
<1>1. z \in IntRow
  BY DEF Pushed
<1>2. \A c \in DOMAIN A : InnerProduct(z, A[c]) \in Int /\ A[c] \in IntRow
  BY <1>1, InnerProductInt DEF Exact, Tight, IsFamily
<1>3. CASE l \notin DOMAIN A \ E \/ InnerProduct(z, A[l]) >= 0
  <2>1. Pushed(z, x, A, E, l + 1)
    <3>1. \A c \in DOMAIN A : c < l + 1 => c < l \/ c = l
      OBVIOUS
    <3> QED BY <1>3, <3>1 DEF Pushed
  <2> QED BY <2>1
<1>4. CASE l \in DOMAIN A \ E /\ ~(InnerProduct(z, A[l]) >= 0)
  <2>1. PICK r \in DOMAIN R : InnerProduct(R[r], A[l]) # 0
    BY <1>4 DEF Flat
  <2>2. /\ R[r] \in IntRow
        /\ \A c \in DOMAIN A : InnerProduct(R[r], A[c]) \in Nat /\ (c \in E => InnerProduct(R[r], A[c]) = 0)
    <3>1. R[r] \in IntRow
      BY DEF Exact, Tight, IsFamily
    <3>2. ASSUME NEW c \in DOMAIN A
          PROVE  InnerProduct(R[r], A[c]) \in Nat /\ (c \in E => InnerProduct(R[r], A[c]) = 0)
      BY ExactProducts
    <3> QED BY <3>1, <3>2
  <2> DEFINE N == -InnerProduct(z, A[l])
             y == Mix(1, z, N, R[r])
  <2>3. N \in Nat /\ N > 0 /\ N \in Int /\ 1 \in Int
    BY <1>2, <1>4
  <2>4. y \in IntRow
    BY <1>1, <2>2, <2>3, MixRow
  <2>5. \A c \in DOMAIN A : InnerProduct(y, A[c]) = 1 * InnerProduct(z, A[c]) + N * InnerProduct(R[r], A[c])
    BY <1>1, <1>2, <2>2, <2>3, MixProduct
  <2>6. InnerProduct(z, A[l]) + N = 0
    BY <1>2, <1>4
  <2> HIDE DEF N, y
  <2>7. ASSUME NEW c \in DOMAIN A
        PROVE  IF c \in E THEN InnerProduct(y, A[c]) = InnerProduct(x, A[c])
               ELSE c < l + 1 => InnerProduct(y, A[c]) >= 0
    <3> DEFINE u == InnerProduct(z, A[c])
               v == InnerProduct(R[r], A[c])
               w == InnerProduct(y, A[c])
    <3>1. u \in Int /\ v \in Nat /\ w = 1 * u + N * v /\ (c \in E => v = 0) /\ c \in Int
      BY <1>2, <2>2, <2>5
    <3>2. c \in E => u = InnerProduct(x, A[c])
      BY DEF Pushed
    <3>3. c \notin E /\ c < l => u >= 0
      BY DEF Pushed
    <3>4. c = l => u + N = 0 /\ v # 0
      BY <2>1, <2>6
    <3> HIDE DEF u, v, w
    <3>5. N * v \in Nat /\ (v # 0 => N * v >= N) /\ (v = 0 => N * v = 0)
      <4>1. \A b \in Nat : N * b \in Nat /\ (b # 0 => N * b >= N) /\ (b = 0 => N * b = 0)
        <5>1. ASSUME NEW b \in Nat, b # 0 PROVE N * b >= N
          <6>1. b - 1 \in Nat /\ N * b = N + N * (b - 1)
            BY <5>1, <2>3
          <6>2. N * (b - 1) >= 0
            BY <6>1, <2>3
          <6> QED BY <6>1, <6>2, <2>3
        <5> QED BY <2>3, <5>1
      <4> QED BY <3>1, <4>1
    <3>6. c \in E => w = u
      BY <3>1, <3>5
    <3>7. u >= 0 => w >= 0
      BY <3>1, <3>5
    <3>8. c = l => w >= 0
      BY <3>1, <3>4, <3>5, <2>3
    <3>9. c < l + 1 => c < l \/ c = l
      BY <3>1
    <3> QED BY <3>2, <3>3, <3>6, <3>7, <3>8, <3>9 DEF u, w
  <2> QED BY <2>4, <2>7 DEF Pushed
<1> QED BY <1>3, <1>4

LEMMA PushedInside ==
  ASSUME NEW m \in Nat, NEW A, NEW R, Exact(A, R), DOMAIN A = 0 .. m - 1 \cup {-1}, NEW x \in IntRow
  PROVE  \E z \in IntRow : \A c \in DOMAIN A :
           IF c \in Flat(A, R) THEN InnerProduct(z, A[c]) = InnerProduct(x, A[c])
           ELSE InnerProduct(z, A[c]) >= 0
<1> DEFINE E == Flat(A, R)
           T == {l \in 0 .. m + 1 : \E z : Pushed(z, x, A, E, l - 1)}
<1>1. \A c \in DOMAIN A : c \in Int /\ c >= -1 /\ c < m
  OBVIOUS
<1>2. 0 \in T
  <2>1. \A c \in DOMAIN A : ~(c < 0 - 1)
    BY <1>1
  <2>2. Pushed(x, x, A, E, 0 - 1)
    BY <2>1 DEF Pushed
  <2>3. 0 \in 0 .. m + 1
    OBVIOUS
  <2> QED BY <2>2, <2>3
<1>3. ASSUME NEW l \in 0 .. (m + 1) - 1, l \in T PROVE l + 1 \in T
  <2>1. PICK z : Pushed(z, x, A, E, l - 1)
    BY <1>3
  <2>2. l - 1 \in Int /\ (l - 1) + 1 = (l + 1) - 1 /\ l + 1 \in 0 .. m + 1
    BY <1>3
  <2>3. \E y : Pushed(y, x, A, E, (l - 1) + 1)
    BY <1>1, <2>1, <2>2, PushedFurther
  <2>4. \E y : Pushed(y, x, A, E, (l + 1) - 1)
    BY <2>2, <2>3
  <2> QED BY <2>2, <2>4
<1>4. m + 1 \in T
  <2>1. m + 1 \in Nat /\ m + 1 \in 0 .. m + 1
    OBVIOUS
  <2> HIDE DEF T
  <2>2. 0 .. m + 1 \subseteq T
    BY <1>2, <1>3, <2>1, UpFromZero
  <2> QED BY <2>1, <2>2
<1>5. PICK z : Pushed(z, x, A, E, (m + 1) - 1)
  BY <1>4
<1>6. \A c \in DOMAIN A : c < (m + 1) - 1
  BY <1>1
<1> QED BY <1>5, <1>6 DEF Pushed

\* Rows that hold of all the points of a polyhedron with equality: a vector
\* that satisfies them, be it as inequalities, saturates them.
Solves(M, A, R) ==
  /\ IsMatrix(M) /\ Exact(A, R)
  /\ -1 \in DOMAIN A /\ A[-1] = PositivityRow /\ -1 \notin Flat(A, R)
  /\ \A x \in IntRow : Obeys(x, A, Flat(A, R)) <=> x[Dimension] >= 0 /\ SatisfiesAll(x, M)

\* The row p is among the rows of A; x satisfies it if it is an equality there.
Answered(x, p, A, E) ==
  IsPositivity(p) \/ \E c \in DOMAIN A : SameCoordinates(A[c], p) /\ (c \in E => SatisfiesRow(x, p))

LEMMA ImplicitEqualities ==
  ASSUME NEW m \in Nat, NEW A, NEW R, NEW M, Solves(M, A, R), DOMAIN A = 0 .. m - 1 \cup {-1},
         NEW x \in IntRow, \A d \in DOMAIN M : Answered(x, M[d], A, Flat(A, R)),
         NEW e \in Flat(A, R)
  PROVE  InnerProduct(x, A[e]) = 0
<1> DEFINE E == Flat(A, R)
<1>1. /\ IsMatrix(M) /\ Exact(A, R) /\ -1 \in DOMAIN A /\ A[-1] = PositivityRow /\ -1 \notin E
      /\ \A y \in IntRow : Obeys(y, A, E) <=> y[Dimension] >= 0 /\ SatisfiesAll(y, M)
      /\ e \in DOMAIN A
  BY DEF Solves, Flat
<1>2. PICK z \in IntRow : \A c \in DOMAIN A :
        IF c \in E THEN InnerProduct(z, A[c]) = InnerProduct(x, A[c])
        ELSE InnerProduct(z, A[c]) >= 0
  BY <1>1, PushedInside
<1>3. \A c \in DOMAIN A : A[c] \in IntRow
  BY <1>1 DEF Exact, Tight, IsFamily
<1>4. \A d \in DOMAIN M : M[d] \in IntRow
  BY <1>1 DEF IsMatrix, IntRow
<1> HIDE DEF E
<1>5. z[Dimension] >= 0 /\ z[Dimension] \in Int
  BY <1>1, <1>2, PositivityProduct, LastInt
<1>6. \A r \in DOMAIN R : R[r] \in IntRow /\ SatisfiesAll(R[r], M)
  <2> SUFFICES ASSUME NEW r \in DOMAIN R PROVE R[r] \in IntRow /\ SatisfiesAll(R[r], M)
    OBVIOUS
  <2>1. \A c \in DOMAIN A : /\ InnerProduct(R[r], A[c]) \in Nat /\ R[r] \in IntRow
                            /\ c \in E => InnerProduct(R[r], A[c]) = 0
    BY <1>1, ExactProducts DEF E
  <2>2. Obeys(R[r], A, E) /\ R[r] \in IntRow
    BY <1>1, <2>1 DEF Obeys
  <2> QED BY <1>1, <2>2
<1>7. PICK v \in DOMAIN R : InnerProduct(R[v], A[-1]) # 0
  BY <1>1 DEF Flat, E
<1>8. R[v][Dimension] > 0 /\ R[v][Dimension] \in Int
  <2>1. InnerProduct(R[v], A[-1]) \in Nat
    BY <1>1, ExactProducts
  <2> QED BY <1>1, <1>6, <1>7, <2>1, PositivityProduct
<1>9. ASSUME NEW d \in DOMAIN M PROVE SatisfiesRow(z, M[d])
  <2> DEFINE p == M[d]
  <2>1. p \in IntRow /\ Answered(x, p, A, E) /\ SatisfiesRow(R[v], p)
    BY <1>4, <1>6 DEF E, SatisfiesAll
  <2>2. \A r \in DOMAIN R : SatisfiesRow(R[r], p)
    BY <1>6 DEF SatisfiesAll
  <2> HIDE DEF p
  <2>3. ASSUME IsPositivity(p) PROVE SatisfiesRow(z, p)
    <3>1. /\ InnerProduct(z, p) = p[Dimension] * z[Dimension]
          /\ InnerProduct(R[v], p) = p[Dimension] * R[v][Dimension]
          /\ p[Dimension] \in Int
      BY <1>6, <2>1, <2>3, PositivityMultiple, LastInt
    <3>2. \A a \in Int, b \in Int, c \in Int : b > 0 /\ c >= 0 =>
            (a * b = 0 => a * c = 0) /\ (a * b >= 0 => a * c >= 0)
      <4>1. ASSUME NEW a \in Int, NEW b \in Int, b > 0 PROVE (a * b = 0 => a = 0) /\ (a * b >= 0 => a >= 0)
        <5>1. a > 0 => a * b > 0
          BY <4>1
        <5>2. a < 0 => a * b < 0
          <6>1. a < 0 => (-a) * b > 0
            BY <4>1
          <6>2. (-a) * b = -(a * b)
            BY <4>1
          <6> QED BY <4>1, <6>1, <6>2
        <5> QED BY <4>1, <5>1, <5>2
      <4>2. \A a \in Int, c \in Int : c >= 0 => (a = 0 => a * c = 0) /\ (a >= 0 => a * c >= 0)
        OBVIOUS
      <4> QED BY <4>1, <4>2
    <3>3. \A a \in Int : (a * R[v][Dimension] = 0 => a * z[Dimension] = 0)
                         /\ (a * R[v][Dimension] >= 0 => a * z[Dimension] >= 0)
      BY <1>5, <1>8, <3>2
    <3>4. /\ InnerProduct(R[v], p) = 0 => InnerProduct(z, p) = 0
          /\ InnerProduct(R[v], p) >= 0 => InnerProduct(z, p) >= 0
      BY <3>1, <3>3
    <3> QED BY <2>1, <3>4 DEF SatisfiesRow
  <2>4. ASSUME ~IsPositivity(p) PROVE SatisfiesRow(z, p)
    <3>1. PICK c \in DOMAIN A : SameCoordinates(A[c], p) /\ (c \in E => SatisfiesRow(x, p))
      BY <2>1, <2>4 DEF Answered
    <3>2. \A y \in IntRow : InnerProduct(y, p) = InnerProduct(y, A[c])
      <4>1. \A y \in IntRow : InnerProduct(p, y) = InnerProduct(A[c], y)
        BY <1>3, <2>1, <3>1, InnerProductSame DEF SameCoordinates
      <4> QED BY <1>3, <2>1, <4>1, InnerProductSymmetric
    <3>3. CASE c \in E
      <4>1. InnerProduct(z, p) = InnerProduct(x, p)
        BY <1>2, <3>2, <3>3
      <4>2. SatisfiesRow(x, p)
        BY <3>1, <3>3
      <4> QED BY <4>1, <4>2 DEF SatisfiesRow
    <3>4. CASE c \notin E
      <4>1. PICK r \in DOMAIN R : InnerProduct(R[r], A[c]) # 0
        BY <3>4 DEF Flat, E
      <4>2. p[0] # 0
        BY <1>6, <2>2, <3>2, <4>1 DEF SatisfiesRow
      <4>3. InnerProduct(z, p) >= 0
        BY <1>2, <3>2, <3>4
      <4> QED BY <4>2, <4>3 DEF SatisfiesRow
    <3> QED BY <3>3, <3>4
  <2> QED BY <2>3, <2>4 DEF p
<1>10. Obeys(z, A, E)
  BY <1>1, <1>5, <1>9 DEF SatisfiesAll
<1>11. e \in E /\ InnerProduct(z, A[e]) = 0
  BY <1>1, <1>10 DEF Obeys, E
<1> QED BY <1>1, <1>2, <1>11

-----------------------------------------------------------------------------
(* Where the rows of Remove_Redundants come from.                          *)

\* The rows of both polyhedra, as Filter numbers them.
AllGiven == Stacked(Arg.Constraint, Given)

\* Row c of Mat is row d of these, with another status word.
From(c, d) == d \in DOMAIN AllGiven /\ bits[c] = BitOf(d) /\ SameCoordinates(Mat[c], AllGiven[d])

\* Each row has such an origin, each of the rows given is there still if it is
\* no positivity constraint, and temp2 marks equalities.
Traced ==
  /\ \A c \in ConstraintRows : \E d : From(c, d)
  /\ \A d \in DOMAIN AllGiven : IsPositivity(AllGiven[d]) \/ \E c \in ConstraintRows : From(c, d)
  /\ \A d \in DOMAIN AllGiven : BitOf(d) \in temp2 => AllGiven[d][0] = 0

\* The rows that step 1 has not come to have the status words given.
StatusGiven == \A c \in ConstraintRows : c >= j => \E d : From(c, d) /\ Mat[c][0] = AllGiven[d][0]

\* The points that satisfy the rows of G whose bits are in F.
Passing(G, F) ==
  {x \in IntRow : x[Dimension] > 0 /\ \A d \in DOMAIN G : BitOf(d) \in F => SatisfiesRow(x, G[d])}
\* Those that the filter lets through.
Sifted == Passing(AllGiven, Filter)

\* They saturate the first e rows, and each of the inequalities follows for
\* them from the row given with its bit.
Follows(c, d) ==
  /\ d \in DOMAIN AllGiven /\ bits[c] = BitOf(d)
  /\ \A x \in Sifted : SatisfiesRow(x, AllGiven[d]) => InnerProduct(x, Mat[c]) >= 0
SiftedRows(e) ==
  /\ \A x \in Sifted, c \in 0 .. e - 1 : InnerProduct(x, Mat[c]) = 0
  /\ \A c \in NbEq .. NbConstraints - 1 : \E d : Follows(c, d)

\* What step 9 has listed follows from what it has marked.
SiftedList ==
  \A x \in Sifted, y \in NbEq2 .. Length(Pol.Constraint) - 1 :
    InnerProduct(x, Pol.Constraint[y]) >= 0

(***************************************************************************)
(* Phase by phase, when the caller wants a filter.                         *)
(***************************************************************************)
Sieve ==
  /\ pc \in {"head", "line", "sort", "pairs", "step0"} => ~dual /\ Mat = AllGiven
  /\ pc = "step1" => Traced /\ StatusGiven
  /\ pc = "step2" => Traced
  /\ pc = "step3" => SiftedRows(NbEq)
  /\ pc \in {"step4", "step6", "step7", "step9", "step10"} => SiftedRows(NbEq2)
  /\ pc \in {"step9", "step10"} => SiftedList
  /\ pc = "reduced" =>
       Pol = EmptyPolyhedron \/ \A x \in Sifted : SatisfiesAll(x, Pol.Constraint)

\* All this when there is a filter.
Sifting == filtering => op = "SimplifyConstraints" /\ IsMatrix(Given) /\ Sieve

\* Two columns of Sat are two bits.
LEMMA BitsApart == \A c \in Nat, d \in Nat : BitOf(c) = BitOf(d) => c = d
<1> SUFFICES ASSUME NEW c \in Nat, NEW d \in Nat, BitOf(c) = BitOf(d) PROVE c = d
  OBVIOUS
<1>1. c \div WSIZE = d \div WSIZE /\ c % WSIZE = d % WSIZE
  BY DEF BitOf
<1>2. WSIZE \in Nat \ {0}
  BY WSIZEAssumption
<1>3. c = WSIZE * (c \div WSIZE) + (c % WSIZE)
  BY <1>2, Quotient
<1>4. d = WSIZE * (d \div WSIZE) + (d % WSIZE)
  BY <1>2, Quotient
<1> QED BY <1>1, <1>3, <1>4

\* The rows given do not change during a call, and the more is marked, the
\* fewer points are left.
LEMMA GivenStays ==
  ASSUME UNCHANGED <<Arg, Given>>
  PROVE  /\ AllGiven' = AllGiven
         /\ Filter \subseteq Filter' => Sifted' \subseteq Sifted
         /\ UNCHANGED Filter => Sifted' = Sifted
<1>1. AllGiven' = AllGiven
  BY DEF AllGiven
<1>2. Sifted' = Passing(AllGiven, Filter')
  BY <1>1 DEF Sifted
<1>3. Filter \subseteq Filter' => Sifted' \subseteq Sifted
  BY <1>2 DEF Sifted, Passing
<1>4. UNCHANGED Filter => Sifted' = Sifted
  BY <1>2 DEF Sifted
<1> QED BY <1>1, <1>3, <1>4

\* The rows given are numbered from zero.
LEMMA GivenRowsAre ==
  ASSUME IsMatrix(AllGiven)
  PROVE  /\ DOMAIN AllGiven \subseteq Nat
         /\ \A d \in DOMAIN AllGiven : AllGiven[d] \in IntRow
BY DEF IsMatrix, IntRow

\* Rows that have been moved or counted, some positivity constraints removed.
LEMMA TracedMoved ==
  ASSUME UNCHANGED <<Arg, Given>>, IsMatrix(AllGiven), Traced,
         \A c \in ConstraintRows' : \E e \in ConstraintRows :
           SameCoordinates(Mat'[c], Mat[e]) /\ bits'[c] = bits[e],
         \A e \in ConstraintRows :
           \/ \A q \in IntRow : SameCoordinates(Mat[e], q) => IsPositivity(q)
           \/ \E c \in ConstraintRows' : SameCoordinates(Mat'[c], Mat[e]) /\ bits'[c] = bits[e],
         \A d \in DOMAIN AllGiven : BitOf(d) \in temp2' => AllGiven[d][0] = 0
  PROVE  Traced'
<1>1. AllGiven' = AllGiven
  BY GivenStays
<1>2. ASSUME NEW c \in ConstraintRows' PROVE \E d : From(c, d)'
  <2>1. PICK e \in ConstraintRows : SameCoordinates(Mat'[c], Mat[e]) /\ bits'[c] = bits[e]
    OBVIOUS
  <2>2. PICK d : From(e, d)
    BY DEF Traced
  <2>3. d \in DOMAIN AllGiven' /\ bits'[c] = BitOf(d) /\ SameCoordinates(Mat'[c], AllGiven'[d])
    BY <1>1, <2>1, <2>2 DEF From, SameCoordinates
  <2> QED BY <2>3 DEF From
<1>3. ASSUME NEW d \in DOMAIN AllGiven, ~IsPositivity(AllGiven[d])
      PROVE  \E c \in ConstraintRows' : From(c, d)'
  <2>1. PICK e \in ConstraintRows : From(e, d)
    BY <1>3 DEF Traced
  <2>2. SameCoordinates(Mat[e], AllGiven[d]) /\ bits[e] = BitOf(d)
    BY <2>1 DEF From
  <2>3. PICK c \in ConstraintRows' : SameCoordinates(Mat'[c], Mat[e]) /\ bits'[c] = bits[e]
    BY <1>3, <2>2, GivenRowsAre
  <2>4. d \in DOMAIN AllGiven' /\ bits'[c] = BitOf(d) /\ SameCoordinates(Mat'[c], AllGiven'[d])
    BY <1>1, <2>2, <2>3 DEF SameCoordinates
  <2> QED BY <2>4 DEF From
<1> QED BY <1>1, <1>2, <1>3 DEF Traced

\* Step 0 numbers the bits like the rows.
LEMMA ResetRaysTraces ==
  ASSUME UNCHANGED <<Arg, Given>>, ResetRays, ~GotoEmpty, Mat = AllGiven, IsMatrix(AllGiven)
  PROVE  pc' = "step1" /\ (Traced /\ StatusGiven)'
<1>1. /\ pc' = "step1" /\ bits' = [c \in ConstraintRows |-> BitOf(c)] /\ j' = 0 /\ temp2' = {} /\ Mat' = Mat
  BY DEF ResetRays, BitOf
<1>2. AllGiven' = AllGiven /\ NbConstraints' = NbConstraints
  BY <1>1, GivenStays DEF NbConstraints
<1>3. ConstraintRows = DOMAIN AllGiven /\ ConstraintRows' = DOMAIN AllGiven
  <2>1. Length(AllGiven) \in Nat /\ AllGiven \in MatrixOf(Length(AllGiven))
    BY MatrixIs
  <2>2. DOMAIN AllGiven = 0 .. NbConstraints - 1
    BY <2>1 DEF MatrixOf, NbConstraints, Length
  <2> QED BY <1>2, <2>2 DEF ConstraintRows
<1>4. ASSUME NEW d \in DOMAIN AllGiven PROVE From(d, d)' /\ Mat'[d][0] = AllGiven'[d][0]
  <2>1. bits'[d] = BitOf(d) /\ Mat'[d] = AllGiven'[d]
    BY <1>1, <1>2, <1>3
  <2> QED BY <1>2, <2>1 DEF From, SameCoordinates
<1>5. Traced'
  BY <1>1, <1>2, <1>3, <1>4 DEF Traced
<1>6. StatusGiven'
  BY <1>3, <1>4 DEF StatusGiven
<1> QED BY <1>1, <1>5, <1>6

\* temp2 marks the given row that row j is.
LEMMA NotedEquality ==
  ASSUME IsMatrix(AllGiven), Traced, StatusGiven, j \in ConstraintRows, NoteEquality
  PROVE  \A d \in DOMAIN AllGiven : BitOf(d) \in temp2' => AllGiven[d][0] = 0
<1> SUFFICES ASSUME NEW d \in DOMAIN AllGiven, BitOf(d) \in temp2' PROVE AllGiven[d][0] = 0
  OBVIOUS
<1>1. CASE BitOf(d) \in temp2
  BY <1>1 DEF Traced
<1>2. CASE BitOf(d) = bits[j] /\ Mat[j][0] = 0
  <2>1. j >= j
    BY DEF ConstraintRows
  <2>2. PICK e : From(j, e) /\ Mat[j][0] = AllGiven[e][0]
    BY <2>1 DEF StatusGiven
  <2>3. e \in DOMAIN AllGiven /\ BitOf(e) = BitOf(d)
    BY <1>2, <2>2 DEF From
  <2>4. e = d
    BY <2>3, GivenRowsAre, BitsApart
  <2> QED BY <1>2, <2>2, <2>4
<1> QED BY <1>1, <1>2 DEF NoteEquality, Equality

\* A row counted stays where it is.
LEMMA CountConstraintTraces ==
  ASSUME UNCHANGED <<Arg, Given>>, pc = "step1", InStep1, CountConstraint, IsMatrix(AllGiven), Traced, StatusGiven
  PROVE  pc' = "step1" /\ (Traced /\ StatusGiven)'
<1>1. /\ pc' = "step1" /\ Same(Mat, Mat', NbConstraints) /\ NbConstraints' = NbConstraints
      /\ NbConstraints \in Nat /\ j \in 0..NbConstraints
  BY CountConstraintStep DEF InStep1, ReduceTyped
<1>2. /\ j < NbConstraints /\ j' = j + 1 /\ NoteEquality /\ bits' = bits
      /\ Mat' = [Mat EXCEPT ![j][0] = RaysSaturating(j)]
  BY DEF CountConstraint
<1>3. j \in ConstraintRows /\ ConstraintRows' = ConstraintRows /\ ConstraintRows = 0 .. NbConstraints - 1
  BY <1>1, <1>2 DEF ConstraintRows
<1>4. \A c \in ConstraintRows : SameCoordinates(Mat'[c], Mat[c]) /\ bits'[c] = bits[c]
  BY <1>1, <1>2, <1>3 DEF Same, SameCoordinates
<1>5. \A d \in DOMAIN AllGiven : BitOf(d) \in temp2' => AllGiven[d][0] = 0
  BY <1>2, <1>3, NotedEquality
<1>6. Traced'
  BY <1>3, <1>4, <1>5, TracedMoved
<1>7. AllGiven' = AllGiven
  BY GivenStays
<1>8. ASSUME NEW c \in ConstraintRows, c >= j + 1
      PROVE  \E d : From(c, d)' /\ Mat'[c][0] = AllGiven'[d][0]
  <2>1. Mat'[c] = Mat[c] /\ bits'[c] = bits[c] /\ c >= j
    BY <1>1, <1>2, <1>3, <1>8 DEF Same, MatrixOf
  <2>2. PICK d : From(c, d) /\ Mat[c][0] = AllGiven[d][0]
    BY <2>1 DEF StatusGiven
  <2> QED BY <1>7, <2>1, <2>2 DEF From
<1>9. StatusGiven'
  BY <1>2, <1>3, <1>8 DEF StatusGiven
<1> QED BY <1>1, <1>6, <1>9

\* A positivity constraint leaves, and the last row takes its place.
LEMMA RemovePositivityTraces ==
  ASSUME UNCHANGED <<Arg, Given>>, pc = "step1", InStep1, RemovePositivity, ~GotoEmpty,
         IsMatrix(AllGiven), Traced, StatusGiven
  PROVE  pc' = "step1" /\ (Traced /\ StatusGiven)'
<1> DEFINE m == NbConstraints
<1>1. /\ pc' = "step1" /\ InStep1' /\ RowRemoved /\ m \in Nat /\ Mat \in MatrixOf(m)
  BY RemovePositivityStep DEF InStep1, ReduceTyped
<1>2. NoteEquality /\ j' = j /\ IsPositivity(Mat[j])
  <2>1. ~(RaysSaturating(j) = NbRay /\ Mat[j][Dimension] # 0)
    BY DEF RemovePositivity
  <2> QED BY <2>1 DEF RemovePositivity
<1>3. /\ j \in 0 .. m - 1 /\ ConstraintRows = 0 .. m - 1 /\ ConstraintRows' = 0 .. m - 2
      /\ \A c \in 0 .. m - 2 : Mat'[c] = Mat[Swapped(c, j, m - 1)] /\ bits'[c] = bits[Swapped(c, j, m - 1)]
  <2>1. /\ j \in 0 .. m - 1 /\ m' = m - 1
        /\ \A c \in 0 .. m - 2 : Mat'[c] = Mat[Swapped(c, j, m - 1)] /\ bits'[c] = bits[Swapped(c, j, m - 1)]
    BY <1>1 DEF RowRemoved
  <2>2. (m - 1) - 1 = m - 2
    BY <1>1
  <2> QED BY <2>1, <2>2 DEF ConstraintRows
<1> HIDE DEF m
<1>4. ASSUME NEW c \in 0 .. m - 2
      PROVE  Swapped(c, j, m - 1) \in 0 .. m - 1 /\ (c >= j => Swapped(c, j, m - 1) >= j)
  BY <1>1, <1>3 DEF Swapped
<1>5. \A c \in ConstraintRows' : \E e \in ConstraintRows :
        SameCoordinates(Mat'[c], Mat[e]) /\ bits'[c] = bits[e]
  BY <1>3, <1>4 DEF SameCoordinates
<1>6. ASSUME NEW e \in ConstraintRows, e # j
      PROVE  \E c \in ConstraintRows' : SameCoordinates(Mat'[c], Mat[e]) /\ bits'[c] = bits[e]
  <2>1. CASE e # m - 1
    <3>1. e \in 0 .. m - 2 /\ Swapped(e, j, m - 1) = e
      BY <1>1, <1>3, <1>6, <2>1 DEF Swapped
    <3> QED BY <1>3, <3>1 DEF SameCoordinates
  <2>2. CASE e = m - 1
    <3>1. j \in 0 .. m - 2 /\ Swapped(j, j, m - 1) = e
      BY <1>1, <1>3, <1>6, <2>2 DEF Swapped
    <3> QED BY <1>3, <3>1 DEF SameCoordinates
  <2> QED BY <2>1, <2>2
<1>7. ASSUME NEW q, SameCoordinates(Mat[j], q), q \in IntRow PROVE IsPositivity(q)
  <2>1. Mat[j] \in IntRow
    BY <1>1, <1>3 DEF MatrixOf
  <2> QED BY <1>2, <1>7, <2>1, PositivityIs DEF SameCoordinates
<1>8. \A d \in DOMAIN AllGiven : BitOf(d) \in temp2' => AllGiven[d][0] = 0
  BY <1>2, <1>3, NotedEquality
<1>9. Traced'
  BY <1>5, <1>6, <1>7, <1>8, TracedMoved
<1>10. AllGiven' = AllGiven
  BY GivenStays
<1>11. ASSUME NEW c \in ConstraintRows', c >= j
       PROVE  \E d : From(c, d)' /\ Mat'[c][0] = AllGiven'[d][0]
  <2> DEFINE e == Swapped(c, j, m - 1)
  <2>1. e \in ConstraintRows /\ e >= j /\ Mat'[c] = Mat[e] /\ bits'[c] = bits[e]
    BY <1>3, <1>4, <1>11
  <2> HIDE DEF e
  <2>2. PICK d : From(e, d) /\ Mat[e][0] = AllGiven[d][0]
    BY <2>1 DEF StatusGiven
  <2> QED BY <1>10, <2>1, <2>2 DEF From
<1>12. StatusGiven'
  BY <1>2, <1>11 DEF StatusGiven
<1> QED BY <1>1, <1>9, <1>12

\* The rays are counted.
LEMMA CountLinesTraces ==
  ASSUME UNCHANGED <<Arg, Given>>, CountLines, Traced
  PROVE  pc' = "step2" /\ Traced'
<1>1. pc' = "step2" /\ Mat' = Mat /\ bits' = bits /\ temp2' = temp2
  BY DEF CountLines, reduceVars, filters
<1>2. AllGiven' = AllGiven /\ ConstraintRows' = ConstraintRows
  BY <1>1, GivenStays DEF ConstraintRows, NbConstraints
<1> QED BY <1>1, <1>2 DEF Traced, From

\* An equality slides up with its bit.
LEMMA SlideEqualityTraces ==
  ASSUME UNCHANGED <<Arg, Given>>, pc = "step2", InStep2, SlideEquality, IsMatrix(AllGiven), Traced
  PROVE  pc' = "step2" /\ Traced'
<1> DEFINE m == NbConstraints
<1>1. pc' = "step2" /\ RowsSlid /\ m \in Nat
  BY SlideEqualityStep DEF InStep2, ReduceTyped
<1>2. temp2' = temp2 /\ ConstraintRows' = 0 .. m - 1 /\ ConstraintRows = 0 .. m - 1
  BY <1>1 DEF SlideEquality, filters, RowsSlid, ConstraintRows
<1>3. \A d \in DOMAIN AllGiven : BitOf(d) \in temp2' => AllGiven[d][0] = 0
  BY <1>2 DEF Traced
<1>4. CASE UNCHANGED <<Mat, bits>>
  <2>1. \A c \in ConstraintRows : SameCoordinates(Mat'[c], Mat[c]) /\ bits'[c] = bits[c]
    BY <1>4 DEF SameCoordinates
  <2>2. ConstraintRows' = ConstraintRows
    BY <1>2
  <2> QED BY <1>1, <1>3, <2>1, <2>2, TracedMoved
<1>5. ASSUME NEW a \in 0 .. m - 1, NEW b \in 0 .. m - 1, b < a,
             \A x \in 0 .. m - 1 : Mat'[x] = Mat[SlidFrom(x, a, b)] /\ bits'[x] = bits[SlidFrom(x, a, b)]
      PROVE  Traced'
  <2> DEFINE f == [x \in 0 .. m - 1 |-> SlidFrom(x, a, b)]
             g == [x \in 0 .. m - 1 |-> IF x = a THEN b ELSE IF x \in b .. a - 1 THEN x + 1 ELSE x]
  <2>1. \A x \in 0 .. m - 1 : Mat'[x] = Mat[f[x]] /\ bits'[x] = bits[f[x]]
    BY <1>5
  <2>2. Permutes(f, g, m)
    BY <1>1, <1>5, SlidePermutes
  <2> HIDE DEF f, g, m
  <2>3. \A x \in 0 .. m - 1 : /\ f[x] \in 0 .. m - 1 /\ g[x] \in 0 .. m - 1 /\ f[g[x]] = x
    BY <2>2 DEF Permutes
  <2>4. \A x \in 0 .. m - 1 : SameCoordinates(Mat'[x], Mat[f[x]])
    BY <2>1 DEF SameCoordinates
  <2>5. ASSUME NEW c \in ConstraintRows'
        PROVE  \E e \in ConstraintRows : SameCoordinates(Mat'[c], Mat[e]) /\ bits'[c] = bits[e]
    BY <1>2, <2>1, <2>3, <2>4
  <2>6. ASSUME NEW e \in ConstraintRows
        PROVE  \E c \in ConstraintRows' : SameCoordinates(Mat'[c], Mat[e]) /\ bits'[c] = bits[e]
    <3>1. g[e] \in 0 .. m - 1 /\ f[g[e]] = e
      BY <1>2, <2>3
    <3> QED BY <1>2, <2>1, <2>4, <3>1
  <2> QED BY <1>3, <2>5, <2>6, TracedMoved
<1>6. Traced'
  BY <1>1, <1>4, <1>5 DEF RowsSlid
<1> QED BY <1>1, <1>6

\* All that the promise of SimplifyConstraints says is in the rows given.
LEMMA SimplifySolves ==
  ASSUME op = "SimplifyConstraints", IsMatrix(Arg.Constraint), IsMatrix(Given),
         Means(Wide, Ray, Promised), -1 \notin Flat(Wide, Ray)
  PROVE  Solves(AllGiven, Wide, Ray)
<1>1. IsMatrix(AllGiven)
  BY StackedIs DEF AllGiven
<1>2. /\ Exact(Wide, Ray) /\ -1 \in DOMAIN Wide /\ Wide[-1] = PositivityRow
      /\ Promised.constrained => \A x \in IntRow : Obeys(x, Wide, Flat(Wide, Ray)) <=> x \in Promised.cone
  BY DEF Means
<1>3. /\ Promised.constrained
      /\ \A x \in IntRow : x \in Promised.cone <=>
           x[Dimension] >= 0 /\ SatisfiesAll(x, Given) /\ SatisfiesAll(x, Arg.Constraint)
  BY PromisedIs DEF GivenConstraints
<1>4. \A x : SatisfiesAll(x, AllGiven) <=> SatisfiesAll(x, Arg.Constraint) /\ SatisfiesAll(x, Given)
  BY StackedRows DEF AllGiven
<1>5. \A x \in IntRow : Obeys(x, Wide, Flat(Wide, Ray)) <=> x[Dimension] >= 0 /\ SatisfiesAll(x, AllGiven)
  BY <1>2, <1>3, <1>4
<1> QED BY <1>1, <1>2, <1>5 DEF Solves

\* An equality that a later one repeats has such a one that none repeats.
LEMMA LastRepeated ==
  ASSUME NEW M, NbEq \in Nat, NEW c \in 0 .. NbEq - 1, Repeated(M, c)
  PROVE  \E e \in 0 .. NbEq - 1 : bits[e] \in temp2 /\ SameRow(M[c], M[e]) /\ ~Repeated(M, e)
<1> DEFINE S == {e \in c + 1 .. NbEq - 1 : bits[e] \in temp2 /\ SameRow(M[c], M[e])}
<1>1. S # {} /\ S \subseteq Nat /\ \A e \in S : e <= NbEq /\ e \in 0 .. NbEq - 1
  BY DEF Repeated
<1>2. PICK e \in S : \A d \in S : d <= e
  <2> HIDE DEF S
  <2> QED BY <1>1, GreatestElement
<1>3. ASSUME NEW d \in e + 1 .. NbEq - 1, bits[d] \in temp2, SameRow(M[e], M[d]) PROVE FALSE
  <2>1. d \in c + 1 .. NbEq - 1 /\ ~(d <= e)
    BY <1>2
  <2>2. SameRow(M[c], M[d])
    BY <1>2, <1>3 DEF SameRow
  <2>3. d \in S
    BY <1>3, <2>1, <2>2
  <2> HIDE DEF S
  <2> QED BY <1>2, <2>1, <2>3
<1> QED BY <1>1, <1>2, <1>3 DEF Repeated

\* The filter gets enough of the equalities.
LEMMA FilterEqualitiesSifts ==
  ASSUME UNCHANGED <<Arg, Given>>, filtering, InStep2, FilterEqualities, Traced, op = "SimplifyConstraints",
         IsMatrix(Arg.Constraint), IsMatrix(Given), Counted(Promised)
  PROVE  pc' = "step3" /\ SiftedRows(NbEq)'
<1> DEFINE m == NbConstraints
<1>1. /\ pc' = "step3" /\ NbConstraints' = m /\ NbEq' = NbEq /\ bits' = bits /\ i >= NbEq
      /\ Filter' = Filter \cup {bits[c] : c \in {d \in 0 .. NbEq - 1 : ~Repeated(Mat', d)}}
  BY FilterEqualitiesStep DEF FilterEqualities, counts
<1>2. Means(Wide, Ray, Promised) /\ -1 \notin Flat(Wide, Ray)
  BY DEF Counted, Alive
<1>3. Solves(AllGiven, Wide, Ray)
  BY <1>2, SimplifySolves
<1>4. NbEq \in 0..m /\ Flat(Wide, Ray) = 0 .. NbEq - 1
  BY <1>1, EqualitiesOnTop
<1>5. /\ ReduceTyped /\ m \in Nat /\ ConstraintRows = 0 .. m - 1 /\ DOMAIN Wide = 0 .. m - 1 \cup {-1}
      /\ \A c \in 0 .. m - 1 : Wide[c] = Mat[c] /\ Mat[c] \in IntRow
  BY WideFacts DEF InStep2, ConstraintRows
<1>6. IsMatrix(AllGiven) /\ \A d \in DOMAIN AllGiven : AllGiven[d] \in IntRow
  BY <1>3, GivenRowsAre DEF Solves
<1>7. AllGiven' = AllGiven /\ Sifted' = Passing(AllGiven, Filter')
  BY GivenStays DEF Sifted
<1>8. \A c \in 0 .. m - 1 : /\ Mat'[c] \in IntRow /\ (~(c < NbEq) => Mat'[c] = Mat[c])
                            /\ \A x \in IntRow : InnerProduct(x, Mat'[c]) = 0 <=> InnerProduct(x, Mat[c]) = 0
  BY EqualitiesTurned
<1> HIDE DEF m
<1>9. \A c \in 0 .. NbEq - 1 : c \in 0 .. m - 1
  BY <1>4, <1>5
<1>10. \A c \in 0 .. m - 1 : \A d : From(c, d) =>
         \A x \in IntRow : InnerProduct(x, Mat[c]) = InnerProduct(x, AllGiven[d])
  <2> SUFFICES ASSUME NEW c \in 0 .. m - 1, NEW d, From(c, d), NEW x \in IntRow
               PROVE  InnerProduct(x, Mat[c]) = InnerProduct(x, AllGiven[d])
    OBVIOUS
  <2>1. SameCoordinates(Mat[c], AllGiven[d]) /\ Mat[c] \in IntRow /\ AllGiven[d] \in IntRow
    BY <1>5, <1>6 DEF From
  <2>2. InnerProduct(AllGiven[d], x) = InnerProduct(Mat[c], x)
    BY <2>1, InnerProductSame DEF SameCoordinates
  <2> QED BY <2>1, <2>2, InnerProductSymmetric
<1>11. ASSUME NEW x \in Sifted', NEW c \in 0 .. NbEq - 1, NEW d, From(c, d)
       PROVE  SatisfiesRow(x, AllGiven[d])
  <2>1. /\ x \in IntRow /\ c \in 0 .. m - 1
        /\ \A e \in DOMAIN AllGiven : BitOf(e) \in Filter' => SatisfiesRow(x, AllGiven[e])
    BY <1>7, <1>9 DEF Passing
  <2>2. CASE ~Repeated(Mat', c)
    <3>1. bits[c] \in Filter' /\ d \in DOMAIN AllGiven /\ bits[c] = BitOf(d)
      BY <1>1, <1>11, <2>2 DEF From
    <3> QED BY <2>1, <3>1
  <2>3. CASE Repeated(Mat', c)
    <3>1. NbEq \in Nat
      BY <1>4
    <3>2. PICK e \in 0 .. NbEq - 1 : bits[e] \in temp2 /\ SameRow(Mat'[c], Mat'[e]) /\ ~Repeated(Mat', e)
      BY <2>3, <3>1, LastRepeated
    <3>3. e \in 0 .. m - 1 /\ bits[e] \in Filter'
      BY <1>1, <1>9, <3>2
    <3>4. PICK f : From(e, f)
      BY <1>5, <3>3 DEF Traced
    <3>5. f \in DOMAIN AllGiven /\ BitOf(f) \in Filter' /\ AllGiven[f][0] = 0
      BY <3>2, <3>3, <3>4 DEF From, Traced
    <3>6. InnerProduct(x, AllGiven[f]) = 0
      BY <2>1, <3>5 DEF SatisfiesRow
    <3>7. InnerProduct(x, Mat'[e]) = 0
      BY <1>8, <1>10, <2>1, <3>3, <3>4, <3>6
    <3>8. InnerProduct(x, Mat'[c]) = InnerProduct(x, Mat'[e])
      <4>1. Mat'[c] \in IntRow /\ Mat'[e] \in IntRow
        BY <1>8, <2>1, <3>3
      <4>2. InnerProduct(Mat'[c], x) = InnerProduct(Mat'[e], x)
        BY <2>1, <3>2, <4>1, InnerProductSame DEF SameRow
      <4> QED BY <2>1, <4>1, <4>2, InnerProductSymmetric
    <3>9. InnerProduct(x, AllGiven[d]) = 0
      BY <1>8, <1>10, <1>11, <2>1, <3>7, <3>8
    <3> QED BY <3>9 DEF SatisfiesRow
  <2> QED BY <2>2, <2>3
<1>12. ASSUME NEW x \in Sifted', NEW d \in DOMAIN AllGiven
       PROVE  Answered(x, AllGiven[d], Wide, Flat(Wide, Ray))
  <2>1. ASSUME ~IsPositivity(AllGiven[d])
        PROVE  \E c \in DOMAIN Wide : /\ SameCoordinates(Wide[c], AllGiven[d])
                                      /\ c \in Flat(Wide, Ray) => SatisfiesRow(x, AllGiven[d])
    <3>1. PICK c \in 0 .. m - 1 : From(c, d)
      BY <1>5, <2>1 DEF Traced
    <3>2. c \in DOMAIN Wide /\ SameCoordinates(Wide[c], AllGiven[d])
      BY <1>5, <3>1 DEF From
    <3>3. c \in Flat(Wide, Ray) => SatisfiesRow(x, AllGiven[d])
      BY <1>4, <1>11, <3>1
    <3> QED BY <3>2, <3>3
  <2> QED BY <2>1 DEF Answered
<1>13. ASSUME NEW x \in Sifted', NEW c \in 0 .. NbEq - 1 PROVE InnerProduct(x, Mat'[c]) = 0
  <2>1. x \in IntRow /\ c \in 0 .. m - 1 /\ c \in Flat(Wide, Ray) /\ Wide[c] = Mat[c]
    BY <1>4, <1>5, <1>7, <1>9 DEF Passing
  <2>2. InnerProduct(x, Wide[c]) = 0
    BY <1>3, <1>5, <1>12, <2>1, ImplicitEqualities
  <2> QED BY <1>8, <2>1, <2>2
<1>14. ASSUME NEW c \in NbEq .. m - 1 PROVE \E d : Follows(c, d)'
  <2>1. c \in 0 .. m - 1 /\ Mat'[c] = Mat[c]
    BY <1>4, <1>5, <1>8
  <2>2. PICK d : From(c, d)
    BY <1>5, <2>1 DEF Traced
  <2>3. \A x \in Sifted' : x \in IntRow
    BY <1>7 DEF Passing
  <2>4. \A x \in Sifted' : InnerProduct(x, Mat'[c]) = InnerProduct(x, AllGiven[d])
    BY <1>10, <2>1, <2>2, <2>3
  <2>5. ASSUME NEW x \in Sifted', SatisfiesRow(x, AllGiven[d]) PROVE InnerProduct(x, Mat'[c]) >= 0
    BY <2>4, <2>5 DEF SatisfiesRow
  <2>6. d \in DOMAIN AllGiven /\ bits'[c] = BitOf(d)
    BY <1>1, <2>2 DEF From
  <2> QED BY <1>7, <2>5, <2>6 DEF Follows
<1>15. SiftedRows(NbEq)'
  BY <1>1, <1>13, <1>14 DEF SiftedRows
<1> QED BY <1>1, <1>15

\* Step 3: what is zero or positive for them stays so.
LEMMA ReduceEqualitiesSifts ==
  ASSUME UNCHANGED <<Arg, Given>>, InStep3, ReduceEqualities, ~GotoEmpty, SiftedRows(NbEq)
  PROVE  pc' = "step4" /\ SiftedRows(NbEq2)'
<1> DEFINE m == NbConstraints
           g == Gauss4(Mat, NbEq, m)
<1>1. ReduceTyped /\ m \in Nat /\ Mat \in MatrixOf(m) /\ NbEq \in 0..m
  BY DEF InStep3, ReduceTyped
<1>2. g.M \in MatrixOf(m) /\ SignsKept(Mat, g.M, 0 .. NbEq - 1) /\ g.rank \in 0..NbEq
  <2>1. g.M \in MatrixOf(m) /\ SignsKept(Mat, g.M, 0 .. NbEq - 1)
    BY <1>1, GaussKeeps
  <2>2. g.rank \in 0..NbEq
    BY <1>1, GaussReduced
  <2> QED BY <2>1, <2>2
<1>3. /\ pc' = "step4" /\ Mat' = g.M /\ NbEq2' = g.rank
      /\ UNCHANGED <<bits, NbEq, Filter>>
  BY DEF ReduceEqualities, filters
<1>4. NbConstraints' = m
  <2>1. ~(pc' = "reduced")
    BY <1>3
  <2> QED BY <2>1, ReduceEqualitiesStep DEF GotoEmpty
<1>5. AllGiven' = AllGiven /\ Sifted' = Sifted /\ \A x \in Sifted : x \in IntRow
  BY <1>3, GivenStays DEF Sifted, Passing
<1> HIDE DEF m, g
<1>6. ASSUME NEW x \in Sifted
      PROVE  /\ \A c \in 0 .. NbEq - 1 : InnerProduct(x, Mat'[c]) = 0
             /\ \A c \in 0 .. m - 1 : SameSign(InnerProduct(x, Mat'[c]), InnerProduct(x, Mat[c]))
  <2>1. x \in IntRow /\ \A c \in 0 .. NbEq - 1 : InnerProduct(x, Mat[c]) = 0
    BY <1>5 DEF SiftedRows
  <2>2. DOMAIN Mat = 0 .. m - 1
    BY <1>1 DEF MatrixOf
  <2> QED BY <1>2, <1>3, <2>1, <2>2 DEF SignsKept
<1>7. \A c \in 0 .. NbEq2' - 1 : c \in 0 .. NbEq - 1
  BY <1>1, <1>2, <1>3
<1>8. ASSUME NEW c \in NbEq .. m - 1 PROVE \E d : Follows(c, d)'
  <2>1. c \in 0 .. m - 1 /\ Mat[c] \in IntRow /\ Mat'[c] \in IntRow
    BY <1>1, <1>2, <1>3 DEF MatrixOf
  <2>2. PICK d : Follows(c, d)
    BY DEF SiftedRows, m
  <2>3. ASSUME NEW x \in Sifted, SatisfiesRow(x, AllGiven[d]) PROVE InnerProduct(x, Mat'[c]) >= 0
    <3>1. InnerProduct(x, Mat[c]) >= 0
      BY <2>2, <2>3 DEF Follows
    <3>2. InnerProduct(x, Mat[c]) \in Int /\ InnerProduct(x, Mat'[c]) \in Int
      BY <1>5, <2>1, InnerProductInt
    <3>3. SameSign(InnerProduct(x, Mat'[c]), InnerProduct(x, Mat[c]))
      BY <1>6, <2>1
    <3> QED BY <3>1, <3>2, <3>3 DEF SameSign
  <2> QED BY <1>3, <1>5, <2>2, <2>3 DEF Follows
<1> QED BY <1>3, <1>4, <1>5, <1>6, <1>7, <1>8 DEF SiftedRows

\* Afterwards only status words change, and more rows are marked.
LEMMA SiftedRowsKept ==
  ASSUME UNCHANGED <<Arg, Given>>, Filter \subseteq Filter',
         Same(Mat, Mat', NbConstraints), NbConstraints' = NbConstraints, UNCHANGED <<bits, NbEq, NbEq2>>,
         NbConstraints \in Nat, NbEq \in 0..NbConstraints, NbEq2 \in 0..NbEq, SiftedRows(NbEq2)
  PROVE  SiftedRows(NbEq2)'
<1> DEFINE m == NbConstraints
<1>1. /\ AllGiven' = AllGiven /\ Sifted' \subseteq Sifted
      /\ \A x \in Sifted : x \in IntRow
  BY GivenStays DEF Sifted, Passing
<1>2. ASSUME NEW c \in 0 .. m - 1, NEW x \in Sifted' PROVE InnerProduct(x, Mat'[c]) = InnerProduct(x, Mat[c])
  <2>1. x \in IntRow /\ Mat[c] \in IntRow /\ Mat'[c] \in IntRow /\ SameCoordinates(Mat[c], Mat'[c])
    BY <1>1 DEF Same, MatrixOf
  <2>2. InnerProduct(Mat'[c], x) = InnerProduct(Mat[c], x)
    BY <2>1, InnerProductSame DEF SameCoordinates
  <2> QED BY <2>1, <2>2, InnerProductSymmetric
<1>3. /\ \A c \in 0 .. NbEq2 - 1 : c \in 0 .. m - 1
      /\ \A c \in NbEq .. m - 1 : c \in 0 .. m - 1
  OBVIOUS
<1>4. NbConstraints' = m
  OBVIOUS
<1> HIDE DEF m
<1>5. ASSUME NEW c \in NbEq .. m - 1 PROVE \E d : Follows(c, d)'
  <2>1. PICK d : Follows(c, d)
    BY DEF SiftedRows, m
  <2> QED BY <1>1, <1>2, <1>3, <2>1 DEF Follows
<1>6. ASSUME NEW c \in 0 .. NbEq2 - 1, NEW x \in Sifted' PROVE InnerProduct(x, Mat'[c]) = 0
  <2>1. InnerProduct(x, Mat[c]) = 0
    BY <1>1 DEF SiftedRows
  <2> QED BY <1>2, <1>3, <2>1
<1> QED BY <1>4, <1>5, <1>6 DEF SiftedRows

\* In particular when the rows stay as they are.
LEMMA SiftedRowsStay ==
  ASSUME UNCHANGED <<Arg, Given, Filter, Mat, bits, NbEq, NbEq2>>, SiftedRows(NbEq2)
  PROVE  SiftedRows(NbEq2)'
<1>1. AllGiven' = AllGiven /\ Sifted' = Sifted /\ NbConstraints' = NbConstraints
  BY GivenStays DEF NbConstraints
<1> QED BY <1>1 DEF SiftedRows, Follows

\* Step 9 starts with the equalities.
LEMMA ClassifyRaysSifts ==
  ASSUME UNCHANGED <<Arg, Given>>, Separated, ClassifyRays, SiftedRows(NbEq2)
  PROVE  pc' = "step9" /\ SiftedRows(NbEq2)' /\ SiftedList'
<1>1. /\ pc' = "step9" /\ UNCHANGED <<Filter, Mat, bits, NbEq, NbEq2>>
      /\ Pol'.Constraint = Rows(Mat, NbEq2)
  BY DEF ClassifyRays, counts, filters
<1>2. NbEq2 \in Nat
  BY DEF Separated, ReduceTyped
<1>3. Length(Pol'.Constraint) = NbEq2
  BY <1>1, <1>2, CountTo DEF Length, Rows
<1>4. \A y \in NbEq2' .. Length(Pol'.Constraint) - 1 : FALSE
  BY <1>1, <1>2, <1>3
<1>5. SiftedRows(NbEq2)'
  BY <1>1, SiftedRowsStay
<1> QED BY <1>1, <1>4, <1>5 DEF SiftedList

\* An inequality that is kept is marked, and follows from the row with its bit.
LEMMA KeepConstraintSifts ==
  ASSUME UNCHANGED <<Arg, Given>>, filtering, pc = "step9", InStep9, KeepConstraint,
         SiftedRows(NbEq2), SiftedList
  PROVE  pc' = "step9" /\ SiftedRows(NbEq2)' /\ SiftedList'
<1> DEFINE m == NbConstraints
<1>1. /\ pc' = "step9" /\ Same(Mat, Mat', m) /\ m' = m /\ m \in Nat /\ NbEq \in 0..m /\ NbEq2 \in 0..NbEq
      /\ Mat \in MatrixOf(m) /\ j \in NbEq..m
  BY KeepConstraintStep DEF InStep9, Building, Separated, ReduceTyped
<1>2. /\ IsRecord(Pol) /\ IsMatrix(Pol.Constraint) /\ NbEq2 \in 0..Length(Pol.Constraint)
  BY DEF InStep9, Building, IsPolyhedron
<1>3. j < m /\ UNCHANGED <<bits, NbEq, NbEq2>>
  BY DEF KeepConstraint, counts
<1>4. Filter \subseteq Filter'
  BY DEF KeepConstraint
<1>5. SiftedRows(NbEq2)'
  BY <1>1, <1>3, <1>4, SiftedRowsKept
<1>6. AllGiven' = AllGiven /\ Sifted' \subseteq Sifted
  BY <1>4, GivenStays
<1>7. NbEq2' = NbEq2
  BY <1>3
<1>8. ASSUME Pol' = Pol PROVE SiftedList'
  <2>1. Pol'.Constraint = Pol.Constraint
    BY <1>8
  <2>2. \A x \in Sifted : \A y \in NbEq2 .. Length(Pol.Constraint) - 1 :
          InnerProduct(x, Pol.Constraint[y]) >= 0
    BY DEF SiftedList
  <2>3. \A x \in Sifted' : \A y \in NbEq2' .. Length(Pol'.Constraint) - 1 :
          InnerProduct(x, Pol'.Constraint[y]) >= 0
    BY <1>6, <1>7, <2>1, <2>2
  <2> QED BY <2>3 DEF SiftedList
<1>9. ASSUME Pol' = [Pol EXCEPT !.Constraint = Appended(@, Mat[j])], Filter' = Filter \cup {bits[j]}
      PROVE  SiftedList'
  <2> DEFINE C == Pol.Constraint
             n == Length(C)
  <2>1. j \in 0 .. m - 1 /\ j \in NbEq .. m - 1 /\ Mat[j] \in IntRow
    BY <1>1, <1>3 DEF MatrixOf
  <2>2. Pol'.Constraint = Appended(C, Mat[j])
    BY <1>2, <1>9 DEF IsRecord
  <2>3. /\ Length(Appended(C, Mat[j])) = n + 1 /\ Appended(C, Mat[j])[n] = Mat[j]
        /\ \A x \in 0 .. n - 1 : Appended(C, Mat[j])[x] = C[x]
    BY <1>2, <2>1, AppendedIs
  <2>4. n \in Nat /\ NbEq2 \in 0..n
    BY <1>2 DEF IsMatrix
  <2>5. PICK d : Follows(j, d)
    BY <2>1 DEF SiftedRows
  <2>6. \A x \in Sifted' : InnerProduct(x, Mat[j]) >= 0
    <3>1. d \in DOMAIN AllGiven /\ BitOf(d) \in Filter'
      BY <1>9, <2>5 DEF Follows
    <3>2. \A x \in Sifted' : x \in Sifted /\ SatisfiesRow(x, AllGiven[d])
      BY <1>6, <3>1 DEF Sifted, Passing
    <3> QED BY <2>5, <3>2 DEF Follows
  <2> HIDE DEF C, n
  <2>7. ASSUME NEW x \in Sifted', NEW y \in NbEq2 .. Length(Pol'.Constraint) - 1
        PROVE  InnerProduct(x, Pol'.Constraint[y]) >= 0
    <3>1. y \in NbEq2 .. n
      BY <2>2, <2>3, <2>4
    <3>2. CASE y = n
      BY <2>2, <2>3, <2>6, <3>2
    <3>3. CASE y \in NbEq2 .. n - 1
      <4>1. y \in 0 .. n - 1
        BY <2>4, <3>3
      <4>2. InnerProduct(x, C[y]) >= 0
        BY <1>6, <3>3 DEF SiftedList, C, n
      <4> QED BY <2>2, <2>3, <4>1, <4>2
    <3> QED BY <2>4, <3>1, <3>2, <3>3
  <2> QED BY <1>3, <2>7 DEF SiftedList
<1> QED BY <1>1, <1>5, <1>8, <1>9 DEF KeepConstraint

\* The polyhedron: points that pass the filter satisfy its constraints.
LEMMA IncludePositivitySifts ==
  ASSUME UNCHANGED <<Arg, Given>>, InStep10, IncludePositivity, RowsListed(NbConstraints),
         SiftedRows(NbEq2), SiftedList
  PROVE  pc' = "reduced" /\ \A x \in Sifted' : SatisfiesAll(x, Pol'.Constraint)
<1> DEFINE C == Pol.Constraint
           n == Length(C)
           p == UnitRow(1, Dimension - 1)
<1>1. pc' = "reduced" /\ (Pol' = Pol \/ Pol' = [Pol EXCEPT !.Constraint = Appended(@, p)]) /\ UNCHANGED Filter
  BY DEF IncludePositivity, filters
<1>2. /\ IsRecord(Pol) /\ IsMatrix(C) /\ NbEq2 \in 0..n /\ \A c \in NbEq2 .. n - 1 : C[c][0] = 1
  BY DEF InStep10, Building, IsPolyhedron
<1>3. n \in Nat /\ C \in MatrixOf(n) /\ DOMAIN C = 0 .. n - 1
  BY <1>2, MatrixIs DEF MatrixOf
<1>4. p \in IntRow /\ p[0] = 1 /\ \A q \in IntRow : InnerProduct(q, p) = q[Dimension]
  <2>1. Dimension - 1 \in 0 .. Dimension - 1 /\ (Dimension - 1) + 1 = Dimension /\ 1 \in Int
    BY DimensionAssumption
  <2> QED BY <2>1, UnitRowIs
<1>5. Sifted' = Sifted /\ \A x \in Sifted : x \in IntRow /\ x[Dimension] > 0
  BY <1>1, GivenStays DEF Sifted, Passing
<1> HIDE DEF n, p
<1>6. ASSUME NEW x \in Sifted, NEW y \in 0 .. n - 1 PROVE SatisfiesRow(x, C[y])
  <2>1. CASE y < NbEq2
    <3>1. y \in 0 .. NbEq2 - 1
      BY <1>2, <1>3, <2>1
    <3>2. InnerProduct(x, C[y]) = 0
      BY <3>1 DEF SiftedRows, RowsListed
    <3> QED BY <3>2 DEF SatisfiesRow
  <2>2. CASE ~(y < NbEq2)
    <3>1. y \in NbEq2 .. n - 1
      BY <1>2, <1>3, <2>2
    <3>2. InnerProduct(x, C[y]) >= 0
      BY <3>1 DEF SiftedList, n
    <3> QED BY <1>2, <3>1, <3>2 DEF SatisfiesRow
  <2> QED BY <2>1, <2>2
<1>7. ASSUME Pol' = Pol PROVE \A x \in Sifted' : SatisfiesAll(x, Pol'.Constraint)
  <2>1. Pol'.Constraint = C
    BY <1>7
  <2> HIDE DEF C
  <2>2. \A x \in Sifted : SatisfiesAll(x, C)
    BY <1>3, <1>6 DEF SatisfiesAll
  <2> QED BY <1>5, <2>1, <2>2
<1>8. CASE Pol' = [Pol EXCEPT !.Constraint = Appended(@, p)]
  <2>1. Pol'.Constraint = Appended(C, p)
    BY <1>2, <1>8 DEF IsRecord
  <2>2. /\ IsMatrix(Appended(C, p)) /\ Length(Appended(C, p)) = n + 1 /\ Appended(C, p)[n] = p
        /\ \A y \in 0 .. n - 1 : Appended(C, p)[y] = C[y]
    BY <1>2, <1>4, AppendedIs DEF n
  <2>3. DOMAIN Appended(C, p) = 0 .. (n + 1) - 1
    BY <2>2, MatrixIs DEF MatrixOf
  <2>4. ASSUME NEW x \in Sifted, NEW y \in 0 .. (n + 1) - 1 PROVE SatisfiesRow(x, Appended(C, p)[y])
    <3>1. y = n \/ y \in 0 .. n - 1
      BY <1>3
    <3>2. SatisfiesRow(x, p)
      <4>1. InnerProduct(x, p) = x[Dimension] /\ x[Dimension] > 0 /\ x[Dimension] \in Int /\ p[0] = 1
        BY <1>4, <1>5, LastInt
      <4> QED BY <4>1 DEF SatisfiesRow
    <3> QED BY <1>6, <2>2, <3>1, <3>2
  <2> QED BY <1>1, <1>5, <2>1, <2>3, <2>4 DEF SatisfiesAll
<1> QED BY <1>1, <1>7, <1>8
\* Every step of Remove_Redundants.
LEMMA RemoveSifts ==
  ASSUME UNCHANGED <<op, Arg, Given>>, RemoveStep, Kept(Promised), IsMatrix(Arg.Constraint),
         filtering, op = "SimplifyConstraints", IsMatrix(Given), Sieve
  PROVE  Sieve'
<1>1. IsMatrix(AllGiven)
  BY StackedIs DEF AllGiven
<1>2. PICK q : q = Promised /\ Kept(q)
  OBVIOUS
<1>3. CASE GotoEmpty
  <2>1. pc' = "reduced" /\ Pol' = EmptyPolyhedron
    BY <1>3 DEF GotoEmpty
  <2> QED BY <2>1 DEF Sieve
<1>4. CASE ResetRays /\ ~GotoEmpty
  <2>1. Mat = AllGiven
    BY <1>4 DEF Sieve, ResetRays
  <2>2. pc' = "step1" /\ (Traced /\ StatusGiven)'
    BY <1>1, <1>4, <2>1, ResetRaysTraces
  <2> QED BY <2>2 DEF Sieve
<1>5. CASE (RemovePositivity \/ CountConstraint) /\ ~GotoEmpty
  <2>1. pc = "step1" /\ InStep1 /\ Traced /\ StatusGiven
    BY <1>2, <1>5 DEF Sieve, Kept, RemovePositivity, CountConstraint
  <2>2. pc' = "step1" /\ (Traced /\ StatusGiven)'
    BY <1>1, <1>5, <2>1, RemovePositivityTraces, CountConstraintTraces
  <2> QED BY <2>2 DEF Sieve
<1>6. CASE CountLines
  <2>1. Traced
    BY <1>6 DEF Sieve, CountLines
  <2>2. pc' = "step2" /\ Traced'
    BY <1>6, <2>1, CountLinesTraces
  <2> QED BY <2>2 DEF Sieve
<1>7. CASE SlideEquality
  <2>1. pc = "step2" /\ InStep2 /\ Traced
    BY <1>2, <1>7 DEF Sieve, Kept, SlideEquality
  <2>2. pc' = "step2" /\ Traced'
    BY <1>1, <1>7, <2>1, SlideEqualityTraces
  <2> QED BY <2>2 DEF Sieve
<1>8. CASE FilterEqualities
  <2>1. InStep2 /\ Counted(Promised) /\ Traced
    BY <1>2, <1>8 DEF Sieve, Kept, FilterEqualities
  <2>2. pc' = "step3" /\ SiftedRows(NbEq)'
    BY <1>8, <2>1, FilterEqualitiesSifts
  <2> QED BY <2>2 DEF Sieve
<1>9. CASE ReduceEqualities /\ ~GotoEmpty
  <2>1. InStep3 /\ SiftedRows(NbEq)
    BY <1>2, <1>9 DEF Sieve, Kept, ReduceEqualities
  <2>2. pc' = "step4" /\ SiftedRows(NbEq2)'
    BY <1>9, <2>1, ReduceEqualitiesSifts
  <2> QED BY <2>2 DEF Sieve
<1>10. CASE RaiseLine \/ (ReduceLines /\ ~GotoEmpty)
  <2>1. pc' \in {"step4", "step6"} /\ UNCHANGED <<Filter, Mat, bits, NbEq, NbEq2>>
    BY <1>10 DEF RaiseLine, ReduceLines, reduceVars, counts, filters
  <2>2. SiftedRows(NbEq2)
    BY <1>10 DEF Sieve, RaiseLine, ReduceLines
  <2>3. SiftedRows(NbEq2)'
    BY <2>1, <2>2, SiftedRowsStay
  <2> QED BY <2>1, <2>3 DEF Sieve
<1>11. CASE ClassifyConstraints /\ ~GotoEmpty
  <2>1. Separated /\ SiftedRows(NbEq2)
    BY <1>2, <1>11 DEF Sieve, Kept, ClassifyConstraints
  <2>2. /\ pc' = "step7" /\ Same(Mat, Mat', NbConstraints) /\ NbConstraints' = NbConstraints
        /\ NbConstraints \in Nat /\ NbEq \in 0..NbConstraints /\ NbEq2 \in 0..NbEq
    BY <1>11, <2>1, ClassifyConstraintsStep DEF Separated, ReduceTyped
  <2>3. UNCHANGED <<bits, NbEq, NbEq2>> /\ Filter \subseteq Filter'
    BY <1>11 DEF ClassifyConstraints, reduceVars, counts, filters
  <2>4. SiftedRows(NbEq2)'
    BY <2>1, <2>2, <2>3, SiftedRowsKept
  <2> QED BY <2>2, <2>4 DEF Sieve
<1>12. CASE ClassifyRays
  <2>1. Separated /\ SiftedRows(NbEq2)
    BY <1>2, <1>12 DEF Sieve, Kept, ClassifyRays
  <2>2. pc' = "step9" /\ SiftedRows(NbEq2)' /\ SiftedList'
    BY <1>12, <2>1, ClassifyRaysSifts
  <2> QED BY <2>2 DEF Sieve
<1>13. CASE KeepConstraint
  <2>1. pc = "step9" /\ InStep9 /\ SiftedRows(NbEq2) /\ SiftedList
    BY <1>2, <1>13 DEF Sieve, Kept, KeepConstraint
  <2>2. pc' = "step9" /\ SiftedRows(NbEq2)' /\ SiftedList'
    BY <1>13, <2>1, KeepConstraintSifts
  <2> QED BY <2>2 DEF Sieve
<1>14. CASE StartRays \/ KeepRay
  <2>1. pc' = "step10" /\ UNCHANGED <<Filter, Mat, bits, NbEq, NbEq2>>
    BY <1>14 DEF StartRays, KeepRay, reduceVars, counts, filters
  <2>2. SiftedRows(NbEq2) /\ SiftedList
    BY <1>14 DEF Sieve, StartRays, KeepRay
  <2>3. SiftedRows(NbEq2)' /\ Sifted' = Sifted
    BY <2>1, <2>2, SiftedRowsStay, GivenStays
  <2>4. Pol'.Constraint = Pol.Constraint
    <3>1. CASE StartRays
      BY <3>1 DEF StartRays, reduceVars
    <3>2. CASE KeepRay
      <4>1. IsRecord(Pol)
        BY <1>2, <3>2 DEF Kept, KeepRay, InStep10, Building
      <4>2. Pol' = Pol \/ Pol' = [Pol EXCEPT !.Ray = Appended(@, Ray[i])]
        BY <3>2 DEF KeepRay
      <4> QED BY <4>1, <4>2 DEF IsRecord
    <3> QED BY <1>14, <3>1, <3>2
  <2>5. NbEq2' = NbEq2
    BY <2>1
  <2>6. SiftedList'
    BY <2>2, <2>3, <2>4, <2>5 DEF SiftedList
  <2> QED BY <2>1, <2>3, <2>6 DEF Sieve
<1>15. CASE IncludePositivity
  <2>1. InStep10 /\ RowsListed(NbConstraints) /\ SiftedRows(NbEq2) /\ SiftedList
    BY <1>2, <1>15 DEF Sieve, Kept, Listing, IncludePositivity
  <2>2. pc' = "reduced" /\ \A x \in Sifted' : SatisfiesAll(x, Pol'.Constraint)
    BY <1>15, <2>1, IncludePositivitySifts
  <2> QED BY <2>2 DEF Sieve
<1> QED BY <1>3, <1>4, <1>5, <1>6, <1>7, <1>8, <1>9, <1>10, <1>11, <1>12, <1>13, <1>14, <1>15 DEF RemoveStep

\* Every step of the program: SimplifyConstraints starts with all rows given.
LEMMA SiftingStep ==
  ASSUME ContractsInv, Sifting, [Next]_vars
  PROVE  Sifting'
<1>1. CASE Constraints2Polyhedron \/ Rays2Polyhedron \/ AddConstraints \/ SubConstraint \/ AddRays
  <2>1. ~filtering'
    BY <1>1 DEF Constraints2Polyhedron, Rays2Polyhedron, AddConstraints, SubConstraint, AddRays
  <2> QED BY <2>1 DEF Sifting
<1>2. CASE SimplifyConstraints
  <2>1. /\ op' = "SimplifyConstraints" /\ Given' = Arg.Constraint /\ Arg' = Pol
        /\ Mat' = Stacked(Pol.Constraint, Arg.Constraint) /\ ~dual' /\ pc' = "head"
    BY <1>2 DEF SimplifyConstraints, Call, Constrain, CallChernikova
  <2>2. Mat' = AllGiven' /\ IsMatrix(Given')
    BY <2>1 DEF AllGiven, ContractsInv, CallsInv
  <2> QED BY <2>1, <2>2 DEF Sifting, Sieve
<1>3. CASE InChernikova
  <2>1. pc \in {"head", "line", "sort", "pairs"}
    BY <1>3 DEF InChernikova, ProcessConstraint, Evaluate, LineToRay, DiscardLine, Sort, StartPairs,
       AddRay, SkipPair, InPairs, Eliminate
  <2>2. Computing
    BY <2>1 DEF ContractsInv, CallsInv, Phase
  <2>3. Computing'
    BY <1>3, <2>2, InChernikovaStep
  <2>4. UNCHANGED <<Mat, dual>>
    <3>1. CASE Evaluate
      BY <3>1 DEF Evaluate
    <3>2. CASE LineToRay \/ DiscardLine
      BY <3>2 DEF LineToRay, DiscardLine, NextConstraint
    <3>3. CASE Sort \/ StartPairs
      BY <3>3 DEF Sort, StartPairs
    <3>4. CASE AddRay \/ SkipPair
      BY <3>4 DEF AddRay, SkipPair, InPairs
    <3>5. CASE Eliminate
      BY <3>5 DEF Eliminate, NextConstraint
    <3> QED BY <1>3, <3>1, <3>2, <3>3, <3>4, <3>5 DEF InChernikova, ProcessConstraint
  <2>5. pc' \in {"head", "line", "sort", "pairs"}
    BY <2>3 DEF Computing, ChernikovaInv, ChernikovaTyped
  <2>6. UNCHANGED <<op, Arg, Given, filtering>>
    BY <1>3 DEF InChernikova, callVars, reduceVars, filters
  <2>7. AllGiven' = AllGiven
    BY <2>6 DEF AllGiven
  <2> QED BY <2>1, <2>4, <2>5, <2>6, <2>7 DEF Sifting, Sieve
<1>4. CASE ReducePrimal \/ ReduceDual
  <2>1. UNCHANGED <<op, Arg, Given, filtering, dual>> /\ pc = "head" /\ pc' = "step0" /\ (dual \/ UNCHANGED Mat)
    BY <1>4 DEF ReducePrimal, ReduceDual, Returned, CallUnchanged, callVars, reduceVars, filters
  <2>2. AllGiven' = AllGiven
    BY <2>1 DEF AllGiven
  <2> QED BY <2>1, <2>2 DEF Sifting, Sieve
<1>5. CASE InRemove
  <2>1. RemoveStep /\ UNCHANGED <<op, Arg, Given>>
    BY <1>5 DEF InRemove, callVars
  <2>2. filtering' = filtering
    BY <2>1 DEF RemoveStep, ResetRays, RemovePositivity, CountConstraint, CountLines, SlideEquality,
       FilterEqualities, ReduceEqualities, RaiseLine, ReduceLines, ClassifyConstraints, ClassifyRays,
       KeepConstraint, StartRays, KeepRay, IncludePositivity, GotoEmpty, reduceVars, filters
  <2>3. pc \notin {"head", "line", "sort", "pairs"}
    BY <2>1 DEF RemoveStep, ResetRays, RemovePositivity, CountConstraint, CountLines, SlideEquality,
       FilterEqualities, ReduceEqualities, RaiseLine, ReduceLines, ClassifyConstraints, ClassifyRays,
       KeepConstraint, StartRays, KeepRay, IncludePositivity
  <2>4. PICK q : q = Promised
    OBVIOUS
  <2>5. Kept(q)
    BY <2>3, <2>4 DEF ContractsInv, Describing
  <2>6. Kept(Promised) /\ IsMatrix(Arg.Constraint)
    BY <2>4, <2>5 DEF ContractsInv, CallsInv
  <2>7. ASSUME filtering PROVE Sieve'
    BY <2>1, <2>6, <2>7, RemoveSifts DEF Sifting
  <2> QED BY <2>1, <2>2, <2>7 DEF Sifting
<1>6. CASE UNCHANGED vars
  <2>1. /\ UNCHANGED <<op, Arg, Given, filtering, dual, Filter, temp2>>
        /\ UNCHANGED <<pc, Mat, bits, j, NbEq, NbEq2, Pol>>
    BY <1>6 DEF vars, chernikovaVars, pair, reduceVars, counts, callVars, filters
  <2>2. AllGiven' = AllGiven /\ Sifted' = Sifted /\ ConstraintRows' = ConstraintRows /\ NbConstraints' = NbConstraints
    BY <2>1, GivenStays DEF ConstraintRows, NbConstraints
  <2>3. (Traced => Traced') /\ (StatusGiven => StatusGiven')
    BY <2>1, <2>2 DEF Traced, StatusGiven, From
  <2>4. /\ SiftedRows(NbEq) => SiftedRows(NbEq)'
        /\ SiftedRows(NbEq2) => SiftedRows(NbEq2)'
        /\ SiftedList => SiftedList'
    BY <2>1, <2>2 DEF SiftedRows, SiftedList, Follows
  <2> QED BY <2>1, <2>2, <2>3, <2>4 DEF Sifting, Sieve
<1> QED BY <1>1, <1>2, <1>3, <1>4, <1>5, <1>6 DEF Next

-----------------------------------------------------------------------------
\* The marked rows, and with them the polyhedron's, have the points of all.
LEMMA FilterMeant ==
  ASSUME ContractsInv, Sifting
  PROVE  FilterSuffices
<1> DEFINE all == AllGiven
           marked == {c \in DOMAIN all : BitOf(c) \in Filter}
<1> SUFFICES ASSUME Done, filtering, ~IsEmpty(Pol), NEW x \in Points
             PROVE  SatisfiesAll(x, all) <=> \A c \in marked : SatisfiesRow(x, all[c])
  BY DEF FilterSuffices, AllGiven
<1>1. x \in IntRow /\ x[Dimension] > 0
  BY BoxRows DEF Points
<1>2. pc = "reduced" /\ op = "SimplifyConstraints" /\ IsMatrix(Given) /\ IsMatrix(Arg.Constraint)
  BY DEF Done, Sifting, ContractsInv, CallsInv
<1>3. ASSUME SatisfiesAll(x, all) PROVE \A c \in marked : SatisfiesRow(x, all[c])
  BY <1>3 DEF SatisfiesAll
<1>4. ASSUME \A c \in marked : SatisfiesRow(x, all[c]) PROVE SatisfiesAll(x, all)
  <2>1. x \in Sifted
    BY <1>1, <1>4 DEF Sifted, Passing
  <2>2. Pol # EmptyPolyhedron
    BY EmptyPolIs DEF IsEmpty
  <2>3. SatisfiesAll(x, Pol.Constraint)
    BY <1>2, <2>1, <2>2 DEF Sifting, Sieve
  <2>4. Fulfils(Pol, Promised)
    BY <1>2, ReturnedSettled
  <2>5. Promised.constrained
    BY <1>2, PromisedIs
  <2>6. x \in Promised.cone
    BY <1>1, <2>3, <2>4, <2>5, FulfilsMeans
  <2>7. SatisfiesAll(x, GivenConstraints) /\ SatisfiesAll(x, Arg.Constraint)
    BY <1>1, <1>2, <2>6, PromisedIs
  <2>8. SatisfiesAll(x, Given)
    BY <1>2, <2>7 DEF GivenConstraints
  <2> QED BY <1>2, <2>7, <2>8, StackedRows DEF AllGiven
<1> QED BY <1>3, <1>4

\* What DomainSimplify reads: the rows that the filter marks, of the two
\* polyhedra compared, have the points of all their rows.
THEOREM Filtering == Spec /\ []AddsToIrreducible => []FilterSuffices
<1>1. ContractsInv /\ Sifting /\ CallsInv' /\ AddsToIrreducible' /\ [Next]_vars => (ContractsInv /\ Sifting)'
  BY ContractsStep, SiftingStep
<1>2. Init => Sifting
  BY DEF Init, Sifting
<1>3. ContractsInv /\ Sifting => FilterSuffices
  BY FilterMeant
<1> QED BY <1>1, <1>2, <1>3, InitContracts, Invariance, PTL DEF Spec

\* In four dimensions or fewer this holds whatever the calls before.
THEOREM SmallFiltering == ASSUME Dimension <= 4 PROVE Spec => []FilterSuffices
<1>1. Sifting /\ Small /\ [Next]_vars => Sifting'
  BY SiftingStep DEF Small
<1>2. Init => Sifting
  BY DEF Init, Sifting
<1>3. Small /\ Sifting => FilterSuffices
  BY FilterMeant DEF Small
<1> QED BY <1>1, <1>2, <1>3, SmallInvariance, PTL DEF Spec
=============================================================================
