--------------------------- MODULE Geometry_proof ---------------------------
(***************************************************************************)
(* What the proofs of the polyhedron modules know of rows and cones, for   *)
(* every Dimension and without any state.                                  *)
(*                                                                         *)
(* Rows: what Inner_Product, Vector_Gcd, Vector_Normalize and Combine      *)
(* compute, and what Gauss4 returns.  These rest on induction over the     *)
(* coordinates and over the rows, which is written with sets: a set of     *)
(* indices that holds 0 and the successor of each of its members holds     *)
(* them all, since what it leaves out would have a least element.          *)
(*                                                                         *)
(* Cones: when the rays and lines of a cone are turned into those of its   *)
(* section by one more constraint.                                         *)
(*                                                                         *)
(* Duality: constraints and rays that describe one cone, and which of them *)
(* can be left out.                                                        *)
(*                                                                         *)
(* Ranks: how many coordinates the equalities and the lines of one cone    *)
(* take together, and when fewer than four are left.                       *)
(***************************************************************************)
EXTENDS Gauss, WellFoundedInduction, FiniteSetTheorems, TLAPS

\* The order of the naturals as a relation, for the theorems on well-foundedness.
Below == {ss \in Nat \X Nat : ss[1] < ss[2]}

\* The relation holds what it should.
LEMMA BelowPairs == \A x, y \in Nat : x < y => <<x, y>> \in Below
  BY DEF Below

\* It is well-founded.
LEMMA BelowFounded == IsWellFoundedOn(Below, Nat)
  BY NatLessThanWellFounded DEF OpToRel, Below

\* A set of naturals has a least element.
LEMMA LeastElement ==
  ASSUME NEW S, S \subseteq Nat, S # {}
  PROVE  \E m \in S : \A n \in S : m <= n
<1>1. PICK x \in S : \A y \in S : ~(<<y, x>> \in Below)
  BY BelowFounded, WFMin
<1>2. \A y \in S : ~(y < x)
  BY <1>1, BelowPairs
<1> QED BY <1>2

\* A bounded one has a greatest.
LEMMA GreatestElement ==
  ASSUME NEW S, S \subseteq Nat, S # {}, NEW top \in Nat, \A n \in S : n <= top
  PROVE  \E m \in S : \A n \in S : n <= m
<1> DEFINE T == {x \in Nat : \E n \in S : x = top - n}
<1>1. T # {} /\ T \subseteq Nat
  <2>1. PICK n \in S : TRUE OBVIOUS
  <2>2. top - n \in T BY <2>1
  <2> QED BY <2>2
<1>2. PICK x \in T : \A y \in T : x <= y
  <2> HIDE DEF T
  <2> QED BY <1>1, LeastElement
<1>3. PICK m \in S : x = top - m
  BY <1>2
<1>4. \A n \in S : top - n \in T
  OBVIOUS
<1>5. \A n \in S : top - m <= top - n
  BY <1>2, <1>3, <1>4
<1> QED BY <1>3, <1>5

\* Induction over a set: one that holds 0 and, with n, the next, holds 0..m.
LEMMA UpFromZero ==
  ASSUME NEW m \in Nat, NEW T, 0 \in T,
         \A n \in 0 .. m - 1 : n \in T => n + 1 \in T
  PROVE  0..m \subseteq T
<1> DEFINE S == {n \in 0..m : n \notin T}
<1>1. SUFFICES ASSUME S # {} PROVE FALSE
  OBVIOUS
<1>2. PICK n \in S : \A x \in S : n <= x
  <2>1. S \subseteq Nat OBVIOUS
  <2> HIDE DEF S
  <2> QED BY <1>1, <2>1, LeastElement
<1>3. n # 0 BY <1>2
<1>4. n - 1 \in T /\ n - 1 \in 0 .. m - 1
  BY <1>2, <1>3
<1> QED BY <1>4, <1>2

-----------------------------------------------------------------------------

\* s is the partial sums of t.
IsSum(s, t, m) ==
  /\ s \in [0..m -> Int]
  /\ s[0] = 0
  /\ \A n \in 1..m : s[n] = s[n - 1] + t[n]

\* Integers have partial sums.
LEMMA SumExists ==
  ASSUME NEW m \in Nat, NEW t \in [1..m -> Int]
  PROVE  \E s : IsSum(s, t, m)
<1> DEFINE T == {n \in 0..m : \E s : IsSum(s, t, n)}
<1>1. 0 \in T
  <2>1. IsSum([x \in 0..0 |-> 0], t, 0) BY DEF IsSum
  <2> QED BY <2>1
<1>2. ASSUME NEW n \in 0 .. m - 1, n \in T PROVE n + 1 \in T
  <2>1. PICK s : IsSum(s, t, n) BY <1>2
  <2> DEFINE u == [x \in 0 .. n + 1 |-> IF x = n + 1 THEN s[n] + t[n + 1] ELSE s[x]]
  <2>2. s \in [0..n -> Int] /\ s[0] = 0 /\ \A x \in 1..n : s[x] = s[x - 1] + t[x]
    BY <2>1 DEF IsSum
  <2>3. n \in 0..n /\ t[n + 1] \in Int /\ \A x \in 0 .. n + 1 : x = n + 1 \/ x \in 0..n
    OBVIOUS
  <2>4. u \in [0 .. n + 1 -> Int] /\ u[0] = 0
    BY <2>2, <2>3
  <2>5. ASSUME NEW x \in 1 .. n + 1 PROVE u[x] = u[x - 1] + t[x]
    <3>1. CASE x = n + 1
      BY <2>3, <3>1
    <3>2. CASE x # n + 1
      <4>1. x \in 1..n /\ x \in 0 .. n + 1 /\ x - 1 \in 0 .. n + 1 /\ x - 1 # n + 1
        BY <3>2
      <4>2. u[x] = s[x] /\ u[x - 1] = s[x - 1]
        BY <3>2, <4>1
      <4> QED BY <2>2, <4>1, <4>2
    <3> QED BY <3>1, <3>2
  <2> HIDE DEF u
  <2>6. IsSum(u, t, n + 1) BY <2>4, <2>5 DEF IsSum
  <2> QED BY <2>6
<1>3. 0..m \subseteq T
  <2> HIDE DEF T
  <2> QED BY <1>1, <1>2, UpFromZero
<1> QED BY <1>3

\* Arithmetic of one term, kept apart for the provers.
LEMMA Distributes == \A x, y, z \in Int : x * (y + z) = x * y + x * z
  OBVIOUS

\* Two equations of the same weights are added.
LEMMA LinearStep ==
  ASSUME NEW g \in Int, NEW a \in Int, NEW b \in Int, NEW r \in Int, NEW s \in Int,
         NEW t \in Int, NEW x \in Int, NEW y \in Int, NEW z \in Int,
         g * r = a * s + b * t, g * x = a * y + b * z
  PROVE  g * (r + x) = a * (s + y) + b * (t + z)
<1>1. g * (r + x) = g * r + g * x
  BY Distributes
<1>2. a * (s + y) = a * s + a * y
  BY Distributes
<1>3. b * (t + z) = b * t + b * z
  BY Distributes
<1>4. g * r \in Int /\ g * x \in Int /\ a * s \in Int /\ a * y \in Int /\ b * t \in Int /\ b * z \in Int
  OBVIOUS
<1> QED BY <1>1, <1>2, <1>3, <1>4

\* x, y and z in the proportion g, a, b, term by term, and at one index.
IsCombination(x, y, z, g, a, b, m) == \A n \in 1..m : g * x[n] = a * y[n] + b * z[n]

IsCombinationAt(r, s, t, g, a, b, m) == g * r[m] = a * s[m] + b * t[m]

\* The partial sums of terms in proportion are in the same proportion.
LEMMA SumLinear ==
  ASSUME NEW m \in Nat, NEW r, NEW s, NEW t,
         NEW x \in [1..m -> Int], NEW y \in [1..m -> Int], NEW z \in [1..m -> Int],
         IsSum(r, x, m), IsSum(s, y, m), IsSum(t, z, m),
         NEW g \in Int, NEW a \in Int, NEW b \in Int,
         IsCombination(x, y, z, g, a, b, m)
  PROVE  IsCombinationAt(r, s, t, g, a, b, m)
<1> USE DEF IsCombinationAt
<1> DEFINE T == {n \in 0..m : g * r[n] = a * s[n] + b * t[n]}
<1>1. 0 \in T
  BY DEF IsSum
<1>2. ASSUME NEW n \in 0 .. m - 1, n \in T PROVE n + 1 \in T
  <2>0. n + 1 \in 1..m /\ (n + 1) - 1 = n /\ n \in 0..m
    OBVIOUS
  <2>1. r[n + 1] = r[n] + x[n + 1] /\ s[n + 1] = s[n] + y[n + 1] /\ t[n + 1] = t[n] + z[n + 1]
    BY <2>0 DEF IsSum
  <2>2. r[n] \in Int /\ s[n] \in Int /\ t[n] \in Int /\ x[n + 1] \in Int /\ y[n + 1] \in Int /\ z[n + 1] \in Int
    BY <2>0 DEF IsSum
  <2>3. g * r[n] = a * s[n] + b * t[n] /\ g * x[n + 1] = a * y[n + 1] + b * z[n + 1]
    BY <1>2, <2>0 DEF IsCombination
  <2>4. g * (r[n] + x[n + 1]) = a * (s[n] + y[n + 1]) + b * (t[n] + z[n + 1])
    <3>1. PICK rn \in Int, sn \in Int, tn \in Int, xn \in Int, yn \in Int, zn \in Int :
             rn = r[n] /\ sn = s[n] /\ tn = t[n] /\ xn = x[n + 1] /\ yn = y[n + 1] /\ zn = z[n + 1]
      BY <2>2
    <3>2. g * rn = a * sn + b * tn /\ g * xn = a * yn + b * zn
      BY <2>3, <3>1
    <3>3. g * (rn + xn) = a * (sn + yn) + b * (tn + zn)
      BY <3>2, LinearStep
    <3> QED BY <3>1, <3>3
  <2> QED BY <2>1, <2>4
<1>3. 0..m \subseteq T
  <2> HIDE DEF T
  <2> QED BY <1>1, <1>2, UpFromZero
<1> QED BY <1>3

-----------------------------------------------------------------------------

\* A row: the status word and the coordinates.
IntRow == [0..Dimension -> Int]

\* The terms of an inner product.
Products(p, q) == [n \in 1..Dimension |-> p[n] * q[n]]

\* They are integers.
LEMMA ProductsType ==
  ASSUME NEW p \in IntRow, NEW q \in IntRow
  PROVE  Products(p, q) \in [1..Dimension -> Int]
BY DimensionAssumption DEF IntRow, Products

\* Inner_Product is the last of their partial sums.
LEMMA InnerProductSum ==
  ASSUME NEW p \in IntRow, NEW q \in IntRow
  PROVE  \E s : IsSum(s, Products(p, q), Dimension) /\ InnerProduct(p, q) = s[Dimension]
<1> DEFINE F(f) == [n \in 0..Dimension |-> IF n = 0 THEN 0 ELSE f[n - 1] + p[n] * q[n]]
           sum == CHOOSE f : f = F(f)
<1>1. PICK s : IsSum(s, Products(p, q), Dimension)
  BY SumExists, ProductsType, DimensionAssumption
<1>2. s = F(s)
  BY <1>1, DimensionAssumption DEF IsSum, Products
<1>3. sum = F(sum)
  BY <1>2
<1>4. IsSum(sum, Products(p, q), Dimension)
  <2> DEFINE T == {n \in 0..Dimension : sum[n] \in Int}
  <2> HIDE DEF sum
  <2>1. 0 \in T BY <1>3, DimensionAssumption
  <2>2. ASSUME NEW n \in 0 .. Dimension - 1, n \in T PROVE n + 1 \in T
    <3>1. n + 1 \in 1..Dimension /\ n + 1 \in 0..Dimension /\ (n + 1) - 1 = n
      BY DimensionAssumption
    <3>2. sum[n + 1] = sum[n] + p[n + 1] * q[n + 1]
      <4>1. sum[n + 1] = F(sum)[n + 1] BY <1>3
      <4> QED BY <4>1, <3>1
    <3>3. sum[n] \in Int /\ p[n + 1] \in Int /\ q[n + 1] \in Int
      BY <2>2, <3>1 DEF IntRow
    <3> QED BY <3>1, <3>2, <3>3
  <2>3. 0..Dimension \subseteq T
    <3> HIDE DEF T
    <3> QED BY <2>1, <2>2, UpFromZero, DimensionAssumption
  <2>4. sum \in [0..Dimension -> Int]
    BY <2>3, <1>3
  <2>5. sum[0] = 0
    BY <1>3, DimensionAssumption
  <2>6. ASSUME NEW n \in 1..Dimension PROVE sum[n] = sum[n - 1] + Products(p, q)[n]
    BY <1>3, DimensionAssumption DEF Products
  <2> QED BY <2>4, <2>5, <2>6 DEF IsSum
<1>5. InnerProduct(p, q) = sum[Dimension]
  BY DEF InnerProduct
<1> QED BY <1>4, <1>5

\* An inner product of integer rows is an integer.
LEMMA InnerProductInt ==
  ASSUME NEW p \in IntRow, NEW q \in IntRow
  PROVE  InnerProduct(p, q) \in Int
<1>1. PICK s : IsSum(s, Products(p, q), Dimension) /\ InnerProduct(p, q) = s[Dimension]
  BY InnerProductSum
<1>2. s \in [0..Dimension -> Int] /\ Dimension \in 0..Dimension
  BY <1>1, DimensionAssumption DEF IsSum
<1> QED BY <1>1, <1>2

\* One term of an inner product is linear in the first row.
LEMMA ProductStep ==
  ASSUME NEW g \in Int, NEW a \in Int, NEW b \in Int, NEW x \in Int, NEW y \in Int,
         NEW z \in Int, NEW m \in Int, g * x = a * y + b * z
  PROVE  g * (x * m) = a * (y * m) + b * (z * m)
<1>1. (g * x) * m = (a * y + b * z) * m
  OBVIOUS
<1>2. (a * y + b * z) * m = (a * y) * m + (b * z) * m
  OBVIOUS
<1>3. (g * x) * m = g * (x * m) /\ (a * y) * m = a * (y * m) /\ (b * z) * m = b * (z * m)
  OBVIOUS
<1> QED BY <1>1, <1>2, <1>3

\* Inner_Product is linear in its first argument: Combine is sound for this.
LEMMA InnerProductLinear ==
  ASSUME NEW p \in IntRow, NEW q \in IntRow, NEW r \in IntRow, NEW m \in IntRow,
         NEW g \in Int, NEW a \in Int, NEW b \in Int,
         \A c \in Coordinates : g * r[c] = a * p[c] + b * q[c]
  PROVE  g * InnerProduct(r, m) = a * InnerProduct(p, m) + b * InnerProduct(q, m)
<1>1. PICK sr : IsSum(sr, Products(r, m), Dimension) /\ InnerProduct(r, m) = sr[Dimension]
  BY InnerProductSum
<1>2. PICK sp : IsSum(sp, Products(p, m), Dimension) /\ InnerProduct(p, m) = sp[Dimension]
  BY InnerProductSum
<1>3. PICK sq : IsSum(sq, Products(q, m), Dimension) /\ InnerProduct(q, m) = sq[Dimension]
  BY InnerProductSum
<1>4. ASSUME NEW n \in 1..Dimension
      PROVE  g * Products(r, m)[n] = a * Products(p, m)[n] + b * Products(q, m)[n]
  <2>1. r[n] \in Int /\ p[n] \in Int /\ q[n] \in Int /\ m[n] \in Int
    BY DimensionAssumption DEF IntRow
  <2>2. g * r[n] = a * p[n] + b * q[n]
    BY DEF Coordinates
  <2>3. g * (r[n] * m[n]) = a * (p[n] * m[n]) + b * (q[n] * m[n])
    <3>1. PICK x \in Int, y \in Int, z \in Int, w \in Int : x = r[n] /\ y = p[n] /\ z = q[n] /\ w = m[n]
      BY <2>1
    <3>2. g * x = a * y + b * z
      BY <2>2, <3>1
    <3>3. g * (x * w) = a * (y * w) + b * (z * w)
      BY <3>2, ProductStep
    <3> QED BY <3>1, <3>3
  <2> QED BY <2>3 DEF Products
<1>5. g * sr[Dimension] = a * sp[Dimension] + b * sq[Dimension]
  <2>1. Products(r, m) \in [1..Dimension -> Int] /\ Products(p, m) \in [1..Dimension -> Int]
          /\ Products(q, m) \in [1..Dimension -> Int] /\ Dimension \in Nat
    BY ProductsType, DimensionAssumption
  <2> DEFINE X == Products(r, m)
             Y == Products(p, m)
             Z == Products(q, m)
  <2>2. IsCombination(X, Y, Z, g, a, b, Dimension)
    BY <1>4 DEF IsCombination
  <2>3. IsSum(sr, X, Dimension) /\ IsSum(sp, Y, Dimension) /\ IsSum(sq, Z, Dimension)
    BY <1>1, <1>2, <1>3
  <2>4. X \in [1..Dimension -> Int] /\ Y \in [1..Dimension -> Int] /\ Z \in [1..Dimension -> Int]
    BY <2>1
  <2> HIDE DEF X, Y, Z
  <2>5. Dimension \in Nat
    BY DimensionAssumption
  <2>6. IsCombinationAt(sr, sp, sq, g, a, b, Dimension)
    BY <2>2, <2>3, <2>4, <2>5, SumLinear
  <2> QED BY <2>6 DEF IsCombinationAt
<1> QED BY <1>1, <1>2, <1>3, <1>5

\* The status word takes no part in an inner product.
LEMMA InnerProductSame ==
  ASSUME NEW p \in IntRow, NEW r \in IntRow, NEW m \in IntRow, \A c \in Coordinates : r[c] = p[c]
  PROVE  InnerProduct(r, m) = InnerProduct(p, m)
<1>1. ASSUME NEW c \in Coordinates PROVE 1 * r[c] = 1 * p[c] + 0 * p[c]
  BY DimensionAssumption DEF IntRow, Coordinates
<1>2. 1 * InnerProduct(r, m) = 1 * InnerProduct(p, m) + 0 * InnerProduct(p, m)
  BY <1>1, InnerProductLinear
<1> QED BY <1>2, InnerProductInt

-----------------------------------------------------------------------------

\* Division with remainder.
LEMMA Quotient ==
  ASSUME NEW x \in Int, NEW d \in Nat \ {0}
  PROVE  x = d * (x \div d) + (x % d)  /\ x \div d \in Int
OBVIOUS

\* A divisor of the absolute value divides the number.
LEMMA ZeroRemainder ==
  ASSUME NEW x \in Int, NEW y \in Int, NEW d \in Nat \ {0}, y = x \/ y = -x, y % d = 0
  PROVE  x % d = 0
<1> DEFINE q == y \div d
<1>1. q \in Int /\ y = d * q
  <2>1. y = d * (y \div d) + (y % d) /\ y \div d \in Int
    BY Quotient
  <2>2. d * (y \div d) \in Int
    BY <2>1
  <2> QED BY <2>1, <2>2
<1> HIDE DEF q
<1>2. PICK n \in Int : x = d * n
  <2>1. -q \in Int /\ d * (-q) = -(d * q) /\ d * q \in Int
    BY <1>1
  <2>2. CASE y = x
    BY <1>1, <2>2
  <2>3. CASE y = -x
    <3>1. x = d * (-q)
      BY <1>1, <2>1, <2>3
    <3> QED BY <2>1, <3>1
  <2> QED BY <2>2, <2>3
<1>3. PICK u \in Int : x = d * u + (x % d)
  BY Quotient
<1>4. x % d = d * (n - u)
  <2>1. d * (n - u) = d * n - d * u
    OBVIOUS
  <2> QED BY <1>2, <1>3, <2>1
<1>5. 0 <= x % d /\ x % d < d
  OBVIOUS
<1>6. \A z \in Int : z >= 1 => d * z >= d
  OBVIOUS
<1>7. \A z \in Int : z <= -1 => d * z < 0
  OBVIOUS
<1>8. n - u = 0
  BY <1>4, <1>5, <1>6, <1>7
<1> QED BY <1>4, <1>8

\* Vector_Gcd is positive and divides every number it was computed from.
LEMMA GcdDivides ==
  ASSUME NEW S, S \subseteq Int
  PROVE  /\ VectorGcd(S) \in Nat \ {0}
         /\ \A x \in S : x = VectorGcd(S) * (x \div VectorGcd(S)) /\ x \div VectorGcd(S) \in Int
<1> DEFINE nonzero == {Abs(x) : x \in S} \ {0}
           least == CHOOSE m \in nonzero : \A x \in nonzero : m <= x
           IsGcd(d) == Divides(d, nonzero) /\ \A e \in d + 1 .. least : ~Divides(e, nonzero)
           g == CHOOSE d \in 1..least : IsGcd(d)
<1>1. nonzero \subseteq Nat \ {0}
  <2>1. \A x \in Int : Abs(x) \in Nat
    BY DEF Abs
  <2>2. \A x \in S : Abs(x) \in Nat
    BY <2>1
  <2> QED BY <2>2
<1>2. CASE nonzero = {}
  <2>1. VectorGcd(S) = 1
    BY <1>2 DEF VectorGcd
  <2> QED BY <2>1
<1>3. CASE nonzero # {}
  <2>1. least \in nonzero /\ least \in Nat \ {0}
    <3>1. \E m \in nonzero : \A x \in nonzero : m <= x
      <4> HIDE DEF nonzero
      <4> QED BY <1>1, <1>3, LeastElement
    <3> QED BY <3>1, <1>1
  <2>2. \E d \in 1..least : IsGcd(d)
    <3> HIDE DEF least
    <3> DEFINE T == {d \in 1..least : Divides(d, nonzero)}
    <3>1. 1 \in T
      <4>1. \A x \in nonzero : x % 1 = 0
        BY <1>1
      <4> QED BY <2>1, <4>1 DEF Divides
    <3>2. T \subseteq Nat /\ \A d \in T : d <= least
      BY <2>1
    <3>3. PICK d \in T : \A e \in T : e <= d
      <4> HIDE DEF T
      <4> QED BY <3>1, <3>2, <2>1, GreatestElement
    <3>4. ASSUME NEW e \in d + 1 .. least PROVE ~Divides(e, nonzero)
      <4>1. e \in 1..least /\ ~(e <= d)
        BY <2>1, <3>3
      <4> QED BY <3>3, <4>1
    <3> QED BY <3>3, <3>4
  <2>3. g \in 1..least /\ Divides(g, nonzero)
    BY <2>2
  <2>4. VectorGcd(S) = g
    BY <1>3 DEF VectorGcd
  <2>5. g \in Nat \ {0}
    <3> HIDE DEF g, least
    <3> QED BY <2>1, <2>3
  <2>6. ASSUME NEW x \in S PROVE x = g * (x \div g) /\ x \div g \in Int
    <3> HIDE DEF g
    <3>1. x = g * (x \div g) + (x % g) /\ x \div g \in Int
      BY <2>5, Quotient
    <3>2. Abs(x) % g = 0
      <4>1. Abs(x) \in nonzero \/ Abs(x) = 0
        OBVIOUS
      <4> QED BY <2>3, <2>5, <4>1 DEF Divides
    <3>3. x % g = 0
      <4>1. Abs(x) \in Int /\ (Abs(x) = x \/ Abs(x) = -x)
        BY DEF Abs
      <4> QED BY <2>5, <3>2, <4>1, ZeroRemainder
    <3> QED BY <2>5, <3>1, <3>3
  <2> QED BY <2>4, <2>5, <2>6
<1> QED BY <1>2, <1>3

-----------------------------------------------------------------------------

\* Vector_Normalize divides the coordinates by one positive integer, exactly.
LEMMA NormalizeScales ==
  ASSUME NEW p \in IntRow
  PROVE  /\ Normalize(p) \in IntRow
         /\ Normalize(p)[0] = p[0]
         /\ \E g \in Nat \ {0} : \A c \in Coordinates : p[c] = g * Normalize(p)[c]
<1> DEFINE S == {p[c] : c \in Coordinates}
           g == VectorGcd(S)
<1>1. S \subseteq Int /\ Coordinates \subseteq 0..Dimension /\ 0 \in 0..Dimension /\ 0 \notin Coordinates
  BY DimensionAssumption DEF IntRow, Coordinates
<1>2. g \in Nat \ {0} /\ \A x \in S : x = g * (x \div g) /\ x \div g \in Int
  <2> HIDE DEF S
  <2> QED BY <1>1, GcdDivides
<1>3. Normalize(p) = [c \in 0..Dimension |-> IF c = 0 THEN p[0] ELSE p[c] \div g]
  BY DEF Normalize
<1>4. \A c \in Coordinates : p[c] = g * (p[c] \div g) /\ p[c] \div g \in Int
  BY <1>2
<1> HIDE DEF g
<1>5. \A c \in Coordinates : Normalize(p)[c] = p[c] \div g
  BY <1>1, <1>3
<1>6. Normalize(p)[0] = p[0]
  BY <1>1, <1>3
<1>7. Normalize(p) \in IntRow
  <2>1. \A c \in 0..Dimension : c = 0 \/ c \in Coordinates
    BY DimensionAssumption DEF Coordinates
  <2> QED BY <1>1, <1>3, <1>4, <2>1 DEF IntRow
<1>8. \A c \in Coordinates : p[c] = g * Normalize(p)[c]
  BY <1>4, <1>5
<1> QED BY <1>2, <1>6, <1>7, <1>8

\* Dividing by a positive number keeps the sign.
LEMMA SignOfQuotient ==
  ASSUME NEW g \in Nat \ {0}, NEW x \in Int, NEW b \in Int, x = g * b
  PROVE  (x > 0 => b > 0) /\ (x < 0 => b < 0)
<1>1. b >= 0 => g * b >= 0
  OBVIOUS
<1>2. b <= 0 => g * b <= 0
  OBVIOUS
<1> QED BY <1>1, <1>2

\* r is, up to the factor g, the sum of p1 weighed by a2 and of p2 by a1, and
\* these weights balance p1 and p2 at pos: what Combine promises.
Balances(p1, p2, pos, a1, a2) == a2 * p1[pos] + a1 * p2[pos] = 0
Weighs(r, p1, p2, g, a1, a2) == \A c \in Coordinates : g * r[c] = a2 * p1[c] + a1 * p2[c]

(***************************************************************************)
(* Combine(p1,p2,p3,ptr,length) of polyhedron.c, p2 not zero at ptr: up to *)
(* a positive factor the result is a combination of p1 and p2 that would   *)
(* be 0 at ptr.  p1 is weighed with the sign of p2 there, p2 with the      *)
(* opposite of p1's sign.                                                  *)
(***************************************************************************)
LEMMA CombineAt ==
  ASSUME NEW p1 \in IntRow, NEW p2 \in IntRow, NEW p3 \in IntRow,
         NEW pos \in 0..Dimension, p2[pos] # 0
  PROVE  /\ Combine(p1, p2, p3, pos) \in IntRow
         /\ Combine(p1, p2, p3, pos)[0] = p3[0]
         /\ \E g \in Nat \ {0}, a1 \in Int, a2 \in Int :
              /\ Weighs(Combine(p1, p2, p3, pos), p1, p2, g, a1, a2)
              /\ Balances(p1, p2, pos, a1, a2)
              /\ (p2[pos] > 0 => a2 > 0) /\ (p2[pos] < 0 => a2 < 0)
              /\ (p1[pos] > 0 => a1 < 0) /\ (p1[pos] < 0 => a1 > 0)
<1> DEFINE g == Gcd(p1[pos], p2[pos])
           b1 == p1[pos] \div g
           b2 == p2[pos] \div g
           sum == [c \in 0..Dimension |-> IF c = 0 THEN p3[0] ELSE b2 * p1[c] - b1 * p2[c]]
<1>1. p1[pos] \in Int /\ p2[pos] \in Int /\ p3[0] \in Int
  BY DimensionAssumption DEF IntRow
<1>2. g \in Nat \ {0} /\ b1 \in Int /\ b2 \in Int /\ p1[pos] = g * b1 /\ p2[pos] = g * b2
  <2>1. {p1[pos], p2[pos]} \subseteq Int
    BY <1>1
  <2> QED BY <2>1, GcdDivides DEF Gcd
<1>3. Combine(p1, p2, p3, pos) = Normalize(sum)
  BY DEF Combine
<1> HIDE DEF g, b1, b2
<1>4. sum \in IntRow
  <2>1. \A c \in 0..Dimension : p1[c] \in Int /\ p2[c] \in Int
    BY DEF IntRow
  <2>2. \A c \in 0..Dimension : b2 * p1[c] - b1 * p2[c] \in Int
    BY <1>2, <2>1
  <2> QED BY <1>1, <2>2 DEF IntRow
<1>5. \A c \in Coordinates : sum[c] = b2 * p1[c] - b1 * p2[c]
  BY DimensionAssumption DEF Coordinates
<1>6. sum[0] = p3[0]
  BY DimensionAssumption
<1> HIDE DEF sum
<1>7. PICK h \in Nat \ {0} : \A c \in Coordinates : sum[c] = h * Normalize(sum)[c]
  BY <1>4, NormalizeScales
<1>8. Weighs(Combine(p1, p2, p3, pos), p1, p2, h, -b1, b2)
  <2>1. ASSUME NEW c \in Coordinates PROVE h * Normalize(sum)[c] = b2 * p1[c] + (-b1) * p2[c]
    <3>1. p1[c] \in Int /\ p2[c] \in Int
      BY DimensionAssumption DEF IntRow, Coordinates
    <3>2. b2 * p1[c] - b1 * p2[c] = b2 * p1[c] + (-b1) * p2[c]
      BY <1>2, <3>1
    <3> QED BY <1>5, <1>7, <3>2
  <2> QED BY <1>3, <2>1 DEF Weighs
<1>9. Balances(p1, p2, pos, -b1, b2)
  <2>1. b2 * (g * b1) + (-b1) * (g * b2) = 0
    BY <1>2
  <2> QED BY <1>2, <2>1 DEF Balances
<1>10. (p2[pos] > 0 => b2 > 0) /\ (p2[pos] < 0 => b2 < 0)
  BY <1>1, <1>2, SignOfQuotient
<1>11. (p1[pos] > 0 => -b1 < 0) /\ (p1[pos] < 0 => -b1 > 0)
  BY <1>1, <1>2, SignOfQuotient
<1>12. -b1 \in Int
  BY <1>2
<1> QED BY <1>2, <1>3, <1>4, <1>6, <1>7, <1>8, <1>9, <1>10, <1>11, <1>12, NormalizeScales

\* With the status word in the place of ptr, as Chernikova calls it.
LEMMA CombineWeighs ==
  ASSUME NEW p1 \in IntRow, NEW p2 \in IntRow, NEW p3 \in IntRow, p2[0] # 0
  PROVE  /\ Combine(p1, p2, p3, 0) \in IntRow
         /\ Combine(p1, p2, p3, 0)[0] = p3[0]
         /\ \E g \in Nat \ {0}, a1 \in Int, a2 \in Int :
              /\ Weighs(Combine(p1, p2, p3, 0), p1, p2, g, a1, a2)
              /\ Balances(p1, p2, 0, a1, a2)
              /\ (p2[0] > 0 => a2 > 0) /\ (p2[0] < 0 => a2 < 0)
              /\ (p1[0] > 0 => a1 < 0) /\ (p1[0] < 0 => a1 > 0)
<1>1. 0 \in 0..Dimension
  BY DimensionAssumption
<1> QED BY <1>1, CombineAt

-----------------------------------------------------------------------------
(* Two inner products more: exchanged arguments, and a coordinate as one.  *)

\* Inner_Product is symmetric.
LEMMA InnerProductSymmetric ==
  ASSUME NEW p \in IntRow, NEW q \in IntRow
  PROVE  InnerProduct(p, q) = InnerProduct(q, p)
<1>1. PICK s : IsSum(s, Products(p, q), Dimension) /\ InnerProduct(p, q) = s[Dimension]
  BY InnerProductSum
<1>2. PICK t : IsSum(t, Products(q, p), Dimension) /\ InnerProduct(q, p) = t[Dimension]
  BY InnerProductSum
<1>3. Products(p, q) \in [1..Dimension -> Int] /\ Products(q, p) \in [1..Dimension -> Int] /\ Dimension \in Nat
  BY ProductsType, DimensionAssumption
<1>4. ASSUME NEW n \in 1..Dimension PROVE Products(p, q)[n] = Products(q, p)[n]
  <2>1. p[n] \in Int /\ q[n] \in Int
    BY DimensionAssumption DEF IntRow
  <2> QED BY <2>1 DEF Products
<1> DEFINE X == Products(p, q)
           Y == Products(q, p)
<1>5. IsCombination(X, Y, Y, 1, 1, 0, Dimension)
  <2>1. ASSUME NEW n \in 1..Dimension PROVE 1 * X[n] = 1 * Y[n] + 0 * Y[n]
    <3>1. X[n] = Y[n] /\ Y[n] \in Int
      BY <1>3, <1>4
    <3> HIDE DEF X, Y
    <3> QED BY <3>1
  <2> QED BY <2>1 DEF IsCombination
<1>6. IsSum(s, X, Dimension) /\ IsSum(t, Y, Dimension) /\ X \in [1..Dimension -> Int]
        /\ Y \in [1..Dimension -> Int]
  BY <1>1, <1>2, <1>3
<1> HIDE DEF X, Y
<1>7. IsCombinationAt(s, t, t, 1, 1, 0, Dimension)
  BY <1>3, <1>5, <1>6, SumLinear
<1>8. s[Dimension] \in Int /\ t[Dimension] \in Int
  <2>1. Dimension \in 0..Dimension
    BY <1>3
  <2> QED BY <1>6, <2>1 DEF IsSum
<1> QED BY <1>1, <1>2, <1>7, <1>8 DEF IsCombinationAt

\* The row whose inner product with p is coordinate c of p.
Axis(c) == [x \in 0..Dimension |-> IF x = c THEN 1 ELSE 0]

\* The inner product with the unit vector of a coordinate is the element there.
LEMMA AxisProduct ==
  ASSUME NEW p \in IntRow, NEW c \in Coordinates
  PROVE  Axis(c) \in IntRow /\ InnerProduct(p, Axis(c)) = p[c]
<1>1. Axis(c) \in IntRow /\ c \in 1..Dimension /\ Dimension \in Nat
  BY DimensionAssumption DEF Axis, IntRow, Coordinates
<1>2. PICK s : IsSum(s, Products(p, Axis(c)), Dimension) /\ InnerProduct(p, Axis(c)) = s[Dimension]
  BY <1>1, InnerProductSum
<1>3. ASSUME NEW n \in 1..Dimension PROVE Products(p, Axis(c))[n] = IF n = c THEN p[c] ELSE 0
  <2>1. p[n] \in Int /\ n \in 0..Dimension
    BY <1>1 DEF IntRow
  <2> QED BY <2>1 DEF Products, Axis
<1>4. p[c] \in Int
  BY <1>1 DEF IntRow
<1> DEFINE T == {n \in 0..Dimension : s[n] = IF n < c THEN 0 ELSE p[c]}
<1>5. 0 \in T
  BY <1>1, <1>2 DEF IsSum
<1>6. ASSUME NEW n \in 0 .. Dimension - 1, n \in T PROVE n + 1 \in T
  <2>1. n + 1 \in 1..Dimension /\ n + 1 \in 0..Dimension /\ (n + 1) - 1 = n
    BY <1>1
  <2>2. s[n + 1] = s[n] + (IF n + 1 = c THEN p[c] ELSE 0)
    BY <1>2, <1>3, <2>1 DEF IsSum
  <2>3. s[n] = IF n < c THEN 0 ELSE p[c]
    BY <1>6
  <2> QED BY <1>1, <1>4, <2>1, <2>2, <2>3
<1>7. 0..Dimension \subseteq T
  <2> HIDE DEF T
  <2> QED BY <1>1, <1>5, <1>6, UpFromZero
<1>8. s[Dimension] = p[c]
  <2>1. Dimension \in 0..Dimension /\ ~(Dimension < c)
    BY <1>1
  <2> QED BY <1>7, <2>1
<1> QED BY <1>1, <1>2, <1>8

-----------------------------------------------------------------------------
(* What a combination does to inner products.                              *)

\* A weighted sum, kept opaque: the products are no business of the lemmas
\* that use it.
Weighted(y, x1, x2, g, a1, a2) == g * y = a2 * x1 + a1 * x2

\* A positive factor can be cancelled.
LEMMA NoZeroDivisor == \A g \in Nat \ {0}, y \in Int : g * y = 0 => y = 0
  OBVIOUS

\* A weighted sum of zeros is zero.
LEMMA WeightedZero ==
  ASSUME NEW y \in Int, NEW g \in Nat \ {0}, NEW a1 \in Int, NEW a2 \in Int,
         NEW x1 \in Int, NEW x2 \in Int, Weighted(y, x1, x2, g, a1, a2)
  PROVE  x1 = 0 /\ x2 = 0 => y = 0
BY DEF Weighted

\* A positively weighted sum of non-negative numbers, zero only when they are.
LEMMA WeightedSum ==
  ASSUME NEW y \in Int, NEW g \in Nat \ {0}, NEW a1 \in Int, NEW a2 \in Int,
         NEW x1 \in Int, NEW x2 \in Int, Weighted(y, x1, x2, g, a1, a2),
         a2 > 0, x1 >= 0, (a1 > 0 /\ x2 >= 0) \/ x2 = 0
  PROVE  y >= 0 /\ (y = 0 <=> x1 = 0 /\ x2 = 0)
<1>1. a2 * x1 >= 0 /\ (a2 * x1 = 0 <=> x1 = 0)
  OBVIOUS
<1>2. a1 * x2 >= 0 /\ (a1 * x2 = 0 => x2 = 0)
  OBVIOUS
<1>3. y < 0 => g * y < 0
  OBVIOUS
<1>4. a2 * x1 \in Int /\ a1 * x2 \in Int /\ g * y \in Int
  OBVIOUS
<1>5. g * y >= 0 /\ (g * y = 0 <=> a2 * x1 = 0 /\ a1 * x2 = 0)
  BY <1>1, <1>2, <1>4 DEF Weighted
<1>6. y = 0 <=> g * y = 0
  OBVIOUS
<1> QED BY <1>1, <1>2, <1>3, <1>5, <1>6

\* The inner products with m of combined rows are in the proportion of the rows,
LEMMA WeightedProduct ==
  ASSUME NEW r \in IntRow, NEW p1 \in IntRow, NEW p2 \in IntRow, NEW m \in IntRow,
         NEW g \in Int, NEW a1 \in Int, NEW a2 \in Int, Weighs(r, p1, p2, g, a1, a2)
  PROVE  Weighted(InnerProduct(r, m), InnerProduct(p1, m), InnerProduct(p2, m), g, a1, a2)
BY InnerProductLinear DEF Weighs, Weighted

\* and so are their last coordinates.
LEMMA WeightedLast ==
  ASSUME NEW r, NEW p1, NEW p2, NEW g, NEW a1, NEW a2, Weighs(r, p1, p2, g, a1, a2)
  PROVE  Weighted(r[Dimension], p1[Dimension], p2[Dimension], g, a1, a2)
BY DimensionAssumption DEF Weighs, Weighted, Coordinates

\* Rows hold integers.
LEMMA LastInt == \A r \in IntRow : r[Dimension] \in Int /\ r[0] \in Int
  BY DimensionAssumption DEF IntRow

-----------------------------------------------------------------------------
(* Gauss4 returns, for any number of equations and of inequalities, a      *)
(* matrix whose equations hold where those given hold, and whose           *)
(* inequalities have, there, inner products of the same sign.              *)

\* Both zero, both positive or both negative.
SameSign(u, v) == (u = 0 <=> v = 0) /\ (u > 0 <=> v > 0)

\* Multiplying by positive numbers keeps signs.
LEMMA ScaledSign ==
  ASSUME NEW g \in Nat \ {0}, NEW a \in Nat \ {0}, NEW x \in Int, NEW y \in Int, g * y = a * x
  PROVE  SameSign(y, x)
<1>1. (x = 0 <=> a * x = 0) /\ (x > 0 => a * x > 0) /\ (x < 0 => a * x < 0)
  OBVIOUS
<1>2. (y = 0 <=> g * y = 0) /\ (y > 0 => g * y > 0) /\ (y < 0 => g * y < 0)
  OBVIOUS
<1> QED BY <1>1, <1>2 DEF SameSign

\* Vector_Normalize divides by a positive gcd: the sign of every inner
\* product stays.
LEMMA NormalizedSign ==
  ASSUME NEW p \in IntRow, NEW m \in IntRow
  PROVE  SameSign(InnerProduct(Normalize(p), m), InnerProduct(p, m))
<1>1. PICK g \in Nat \ {0} : \A c \in Coordinates : p[c] = g * Normalize(p)[c]
  BY NormalizeScales
<1>2. Normalize(p) \in IntRow
  BY NormalizeScales
<1>3. ASSUME NEW c \in Coordinates PROVE g * Normalize(p)[c] = 1 * p[c] + 0 * p[c]
  <2>1. p[c] \in Int
    BY DimensionAssumption DEF IntRow, Coordinates
  <2> QED BY <1>1, <2>1
<1>4. g * InnerProduct(Normalize(p), m) = 1 * InnerProduct(p, m) + 0 * InnerProduct(p, m)
  BY <1>2, <1>3, InnerProductLinear
<1>5. PICK x \in Int, y \in Int : x = InnerProduct(p, m) /\ y = InnerProduct(Normalize(p), m)
  BY <1>2, InnerProductInt
<1>6. PICK a \in Nat \ {0} : g * y = a * x
  BY <1>4, <1>5
<1> QED BY <1>5, <1>6, ScaledSign

\* The opposite row keeps its status word and has the same orthogonal vectors.
LEMMA OppositeRow ==
  ASSUME NEW p \in IntRow, NEW m \in IntRow
  PROVE  /\ Opposite(p) \in IntRow /\ Opposite(p)[0] = p[0]
         /\ \A c \in Coordinates : Opposite(p)[c] = -p[c]
         /\ InnerProduct(Opposite(p), m) = 0 <=> InnerProduct(p, m) = 0
<1>1. \A c \in 0..Dimension : p[c] \in Int
  BY DEF IntRow
<1>2. /\ Opposite(p) \in IntRow /\ Opposite(p)[0] = p[0]
      /\ \A c \in Coordinates : Opposite(p)[c] = -p[c]
  <2>1. 0 \in 0..Dimension /\ \A c \in Coordinates : c \in 0..Dimension /\ c # 0
    BY DimensionAssumption DEF Coordinates
  <2>2. \A c \in 0..Dimension : -p[c] \in Int
    BY <1>1
  <2>3. Opposite(p) \in IntRow
    BY <1>1, <2>1, <2>2 DEF Opposite, IntRow
  <2> QED BY <2>1, <2>3 DEF Opposite
<1>3. PICK o \in Int : o = -1
  OBVIOUS
<1>4. ASSUME NEW c \in Coordinates PROVE 1 * Opposite(p)[c] = o * p[c] + 0 * p[c]
  <2>1. p[c] \in Int
    BY <1>1, DimensionAssumption DEF Coordinates
  <2> QED BY <1>2, <1>3, <2>1
<1>5. PICK x \in Int, y \in Int : x = InnerProduct(p, m) /\ y = InnerProduct(Opposite(p), m)
  BY <1>2, InnerProductInt
<1>6. 1 * InnerProduct(Opposite(p), m) = o * InnerProduct(p, m) + 0 * InnerProduct(p, m)
  BY <1>2, <1>4, InnerProductLinear
<1>7. y = 0 <=> x = 0
  <2>1. 1 * y = o * x + 0 * x
    BY <1>5, <1>6
  <2>2. o * x = -x
    BY <1>3
  <2> QED BY <2>1, <2>2
<1> QED BY <1>2, <1>5, <1>7

\* The two facts of CombineAt a leaf can use apart: p1 counts positively when
\* the pivot p2[pos] is positive, ...
LEMMA CombinePositive ==
  ASSUME NEW p1 \in IntRow, NEW p2 \in IntRow, NEW p3 \in IntRow, NEW pos \in 0..Dimension, p2[pos] > 0
  PROVE  \E g \in Nat \ {0}, a1 \in Int, a2 \in Int :
           Weighs(Combine(p1, p2, p3, pos), p1, p2, g, a1, a2) /\ a2 > 0
<1>1. p2[pos] \in Int
  BY DEF IntRow
<1>2. p2[pos] # 0
  BY <1>1
<1> QED BY <1>2, CombineAt

\* ... and the two rows balance each other at the pivot.
LEMMA CombineBalanced ==
  ASSUME NEW p1 \in IntRow, NEW p2 \in IntRow, NEW p3 \in IntRow, NEW pos \in 0..Dimension, p2[pos] # 0
  PROVE  \E g \in Nat \ {0}, a1 \in Int, a2 \in Int :
           Weighs(Combine(p1, p2, p3, pos), p1, p2, g, a1, a2) /\ Balances(p1, p2, pos, a1, a2)
BY CombineAt

\* Where p2 vanishes and its pivot is positive, Combine keeps the sign of p1:
\* what makes the substitution into an inequality sound.
LEMMA CombinedSign ==
  ASSUME NEW p1 \in IntRow, NEW p2 \in IntRow, NEW p3 \in IntRow, NEW pos \in Coordinates,
         p2[pos] > 0, NEW m \in IntRow, InnerProduct(p2, m) = 0
  PROVE  SameSign(InnerProduct(Combine(p1, p2, p3, pos), m), InnerProduct(p1, m))
<1> DEFINE r == Combine(p1, p2, p3, pos)
<1>1. pos \in 0..Dimension /\ p2[pos] \in Int /\ p2[pos] # 0
  BY DimensionAssumption DEF Coordinates, IntRow
<1>2. r \in IntRow
  BY <1>1, CombineAt
<1>3. PICK g \in Nat \ {0}, a1 \in Int, a2 \in Int : Weighs(r, p1, p2, g, a1, a2) /\ a2 > 0
  <2>1. \E g \in Nat \ {0}, a1 \in Int, a2 \in Int :
          Weighs(r, p1, p2, g, a1, a2) /\ a2 > 0
    BY <1>1, CombinePositive
  <2> HIDE DEF r
  <2> QED BY <2>1
<1> HIDE DEF r
<1>4. Weighted(InnerProduct(r, m), InnerProduct(p1, m), InnerProduct(p2, m), g, a1, a2)
  BY <1>2, <1>3, WeightedProduct
<1>5. PICK x \in Int, y \in Int : x = InnerProduct(p1, m) /\ y = InnerProduct(r, m)
  BY <1>2, InnerProductInt
<1>6. g * y = a2 * x + a1 * 0
  BY <1>4, <1>5 DEF Weighted
<1>7. g * y = a2 * x /\ a2 \in Nat \ {0}
  BY <1>3, <1>6
<1>8. SameSign(y, x)
  BY <1>7, ScaledSign
<1> QED BY <1>5, <1>8 DEF r

\* The coefficient of the pivot variable is eliminated.
LEMMA CombinedAtPivot ==
  ASSUME NEW p1 \in IntRow, NEW p2 \in IntRow, NEW p3 \in IntRow, NEW pos \in Coordinates, p2[pos] # 0
  PROVE  Combine(p1, p2, p3, pos)[pos] = 0
<1> DEFINE r == Combine(p1, p2, p3, pos)
<1>1. pos \in 0..Dimension
  BY DimensionAssumption DEF Coordinates
<1>2. r \in IntRow
  BY <1>1, CombineAt
<1>3. PICK g \in Nat \ {0}, a1 \in Int, a2 \in Int :
        Weighs(r, p1, p2, g, a1, a2) /\ Balances(p1, p2, pos, a1, a2)
  BY <1>1, CombineBalanced
<1> HIDE DEF r
<1>4. g * r[pos] = 0 /\ r[pos] \in Int
  BY <1>1, <1>2, <1>3 DEF Weighs, Balances, IntRow
<1>5. r[pos] = 0
  BY <1>4, NoZeroDivisor
<1> QED BY <1>5 DEF r

-----------------------------------------------------------------------------
\* A matrix of so many rows, numbered from 0.
MatrixOf(rows) == [0 .. rows - 1 -> IntRow]

\* What elimination does to one row: the status word and the rows outside R
\* stay, the rows of R get a zero in column col.
LEMMA EliminatedRow ==
  ASSUME NEW rows \in Nat, NEW M \in MatrixOf(rows), NEW R, NEW piv \in 0 .. rows - 1,
         NEW col \in Coordinates, M[piv][col] > 0, NEW x \in 0 .. rows - 1
  PROVE  /\ Eliminated(M, R, piv, col)[x] \in IntRow
         /\ Eliminated(M, R, piv, col)[x][0] = M[x][0]
         /\ x \notin R => Eliminated(M, R, piv, col)[x] = M[x]
         /\ x \in R => Eliminated(M, R, piv, col)[x][col] = 0
<1>1. M[x] \in IntRow /\ M[piv] \in IntRow /\ DOMAIN M = 0 .. rows - 1
  BY DEF MatrixOf
<1>2. Eliminated(M, R, piv, col)[x] =
        IF x \in R /\ M[x][col] # 0 THEN Combine(M[x], M[piv], M[x], col) ELSE M[x]
  BY <1>1 DEF Eliminated
<1>3. col \in 0..Dimension /\ M[piv][col] # 0
  BY <1>1, DimensionAssumption DEF Coordinates, IntRow
<1>4. /\ Combine(M[x], M[piv], M[x], col) \in IntRow
      /\ Combine(M[x], M[piv], M[x], col)[0] = M[x][0]
  BY <1>1, <1>3, CombineAt
<1>5. Combine(M[x], M[piv], M[x], col)[col] = 0
  BY <1>1, <1>3, CombinedAtPivot
<1> QED BY <1>1, <1>2, <1>4, <1>5

\* A matrix stays a matrix of as many rows.
LEMMA EliminatedType ==
  ASSUME NEW rows \in Nat, NEW M \in MatrixOf(rows), NEW R, NEW piv \in 0 .. rows - 1,
         NEW col \in Coordinates, M[piv][col] > 0
  PROVE  Eliminated(M, R, piv, col) \in MatrixOf(rows)
<1>1. Eliminated(M, R, piv, col) = [x \in 0 .. rows - 1 |-> Eliminated(M, R, piv, col)[x]]
  BY DEF Eliminated, MatrixOf
<1>2. \A x \in 0 .. rows - 1 : Eliminated(M, R, piv, col)[x] \in IntRow
  BY EliminatedRow
<1> QED BY <1>1, <1>2 DEF MatrixOf

\* Where the pivot row vanishes, no row changes its sign.
LEMMA EliminatedSign ==
  ASSUME NEW rows \in Nat, NEW M \in MatrixOf(rows), NEW R, NEW piv \in 0 .. rows - 1,
         NEW col \in Coordinates, M[piv][col] > 0, NEW x \in 0 .. rows - 1,
         NEW m \in IntRow, InnerProduct(M[piv], m) = 0
  PROVE  SameSign(InnerProduct(Eliminated(M, R, piv, col)[x], m), InnerProduct(M[x], m))
<1>1. M[x] \in IntRow /\ M[piv] \in IntRow /\ DOMAIN M = 0 .. rows - 1
  BY DEF MatrixOf
<1>2. Eliminated(M, R, piv, col)[x] =
        IF x \in R /\ M[x][col] # 0 THEN Combine(M[x], M[piv], M[x], col) ELSE M[x]
  BY <1>1 DEF Eliminated
<1>3. SameSign(InnerProduct(Combine(M[x], M[piv], M[x], col), m), InnerProduct(M[x], m))
  BY <1>1, CombinedSign
<1>4. SameSign(InnerProduct(M[x], m), InnerProduct(M[x], m))
  BY DEF SameSign
<1> QED BY <1>2, <1>3, <1>4

\* In a column where the pivot row has a zero no element changes its sign.
LEMMA EliminatedEntry ==
  ASSUME NEW rows \in Nat, NEW M \in MatrixOf(rows), NEW R, NEW piv \in 0 .. rows - 1,
         NEW col \in Coordinates, M[piv][col] > 0, NEW x \in 0 .. rows - 1,
         NEW c \in Coordinates, M[piv][c] = 0
  PROVE  SameSign(Eliminated(M, R, piv, col)[x][c], M[x][c])
<1>1. M[x] \in IntRow /\ M[piv] \in IntRow /\ Eliminated(M, R, piv, col)[x] \in IntRow
  BY EliminatedRow DEF MatrixOf
<1>2. Axis(c) \in IntRow /\ InnerProduct(M[piv], Axis(c)) = 0
  BY <1>1, AxisProduct
<1>3. SameSign(InnerProduct(Eliminated(M, R, piv, col)[x], Axis(c)), InnerProduct(M[x], Axis(c)))
  BY <1>2, EliminatedSign
<1>4. InnerProduct(Eliminated(M, R, piv, col)[x], Axis(c)) = Eliminated(M, R, piv, col)[x][c]
        /\ InnerProduct(M[x], Axis(c)) = M[x][c]
  BY <1>1, AxisProduct
<1> QED BY <1>3, <1>4

\* The pivot row is normalised and has a positive pivot, ...
LEMMA PivotRowIs ==
  ASSUME NEW p \in IntRow, NEW col \in Coordinates, p[col] # 0
  PROVE  /\ PivotRow(p, col) \in IntRow /\ PivotRow(p, col)[0] = p[0]
         /\ PivotRow(p, col)[col] > 0
<1> DEFINE n == Normalize(p)
<1>1. n \in IntRow /\ n[0] = p[0]
  BY NormalizeScales
<1>2. PICK g \in Nat \ {0} : \A c \in Coordinates : p[c] = g * n[c]
  BY NormalizeScales
<1>3. PivotRow(p, col) = IF n[col] < 0 THEN Opposite(n) ELSE n
  BY DEF PivotRow
<1> HIDE DEF n
<1>4. n[col] \in Int /\ n[col] # 0
  <2>1. n[col] \in Int /\ p[col] = g * n[col]
    BY <1>1, <1>2, DimensionAssumption DEF IntRow, Coordinates
  <2>2. g * 0 = 0
    OBVIOUS
  <2> QED BY <2>1, <2>2
<1>5. Opposite(n) \in IntRow /\ Opposite(n)[0] = n[0] /\ Opposite(n)[col] = -n[col]
  BY <1>1, OppositeRow
<1> QED BY <1>1, <1>3, <1>4, <1>5

\* ... it is orthogonal to the same vectors as the row it was made from, ...
LEMMA PivotRowZero ==
  ASSUME NEW p \in IntRow, NEW col \in Coordinates, NEW m \in IntRow
  PROVE  InnerProduct(PivotRow(p, col), m) = 0 <=> InnerProduct(p, m) = 0
<1> DEFINE n == Normalize(p)
<1>1. n \in IntRow
  BY NormalizeScales
<1>2. InnerProduct(n, m) = 0 <=> InnerProduct(p, m) = 0
  BY NormalizedSign DEF SameSign
<1>3. PivotRow(p, col) = IF n[col] < 0 THEN Opposite(n) ELSE n
  BY DEF PivotRow
<1> HIDE DEF n
<1>4. InnerProduct(Opposite(n), m) = 0 <=> InnerProduct(n, m) = 0
  BY <1>1, OppositeRow
<1> QED BY <1>2, <1>3, <1>4

\* ... and zero where that row was.
LEMMA PivotRowEntry ==
  ASSUME NEW p \in IntRow, NEW col \in Coordinates, p[col] # 0, NEW c \in Coordinates, p[c] = 0
  PROVE  PivotRow(p, col)[c] = 0
<1>1. PivotRow(p, col) \in IntRow
  BY PivotRowIs
<1>2. Axis(c) \in IntRow /\ InnerProduct(p, Axis(c)) = 0
  BY AxisProduct
<1>3. InnerProduct(PivotRow(p, col), Axis(c)) = 0
  BY <1>2, PivotRowZero
<1> QED BY <1>1, <1>3, AxisProduct

\* The row whose coordinates are in row x after the exchange of a and b.
ExchangedFrom(x, a, b) == IF x = a THEN b ELSE IF x = b THEN a ELSE x

\* Vector_Exchange from element 1 on: coordinates move, status words stay.
LEMMA ExchangedCoordinates ==
  ASSUME NEW rows \in Nat, NEW M \in MatrixOf(rows), NEW a \in 0 .. rows - 1, NEW b \in 0 .. rows - 1,
         NEW x \in 0 .. rows - 1
  PROVE  /\ ExchangeCoordinates(M, a, b)[x] \in IntRow
         /\ ExchangeCoordinates(M, a, b)[x][0] = M[x][0]
         /\ \A c \in Coordinates : ExchangeCoordinates(M, a, b)[x][c] = M[ExchangedFrom(x, a, b)][c]
<1> DEFINE With(p, q) == [q EXCEPT ![0] = p[0]]
           L == ExchangeCoordinates(M, a, b)
<1>1. M[a] \in IntRow /\ M[b] \in IntRow /\ M[x] \in IntRow /\ DOMAIN M = 0 .. rows - 1
  BY DEF MatrixOf
<1>2. L[x] = IF x = b THEN With(M[b], M[a]) ELSE IF x = a THEN With(M[a], M[b]) ELSE M[x]
  BY <1>1 DEF ExchangeCoordinates
<1>3. ASSUME NEW p \in IntRow, NEW q \in IntRow
      PROVE  /\ With(p, q) \in IntRow /\ With(p, q)[0] = p[0]
             /\ \A c \in Coordinates : With(p, q)[c] = q[c]
  <2>1. p[0] \in Int /\ 0 \in 0..Dimension /\ 0 \notin Coordinates /\ Coordinates \subseteq 0..Dimension
    BY DimensionAssumption DEF IntRow, Coordinates
  <2> QED BY <2>1 DEF IntRow
<1> HIDE DEF L, With
<1>4. CASE x = b
  <2>1. ExchangedFrom(x, a, b) = a
    BY <1>4 DEF ExchangedFrom
  <2> QED BY <1>1, <1>2, <1>3, <1>4, <2>1 DEF L
<1>5. CASE x # b /\ x = a
  <2>1. ExchangedFrom(x, a, b) = b
    BY <1>5 DEF ExchangedFrom
  <2> QED BY <1>1, <1>2, <1>3, <1>5, <2>1 DEF L
<1>6. CASE x # b /\ x # a
  <2>1. ExchangedFrom(x, a, b) = x
    BY <1>6 DEF ExchangedFrom
  <2> QED BY <1>1, <1>2, <1>6, <2>1 DEF L
<1> QED BY <1>4, <1>5, <1>6

-----------------------------------------------------------------------------
\* The point m solves the equations 0..n-1, those from low on; the rows from
\* low on are zero in column c.
Vanishes(M, n, m) == \A x \in 0 .. n - 1 : InnerProduct(M[x], m) = 0
VanishFrom(M, low, n, m) == \A x \in low .. n - 1 : InnerProduct(M[x], m) = 0
ZeroFrom(M, low, n, c) == \A x \in low .. n - 1 : M[x][c] = 0

\* Row echelon form: in row x < rank the first element that is not zero is
\* M[x][column[x]], it is positive, and nothing is below it; the pivots move
\* to the right from row to row.
Echelon(M, column, rank, n) ==
  \A x \in 0 .. rank - 1 :
    /\ column[x] \in Coordinates
    /\ M[x][column[x]] > 0
    /\ \A y \in x + 1 .. n - 1 : M[y][column[x]] = 0
    /\ \A c \in 1 .. column[x] - 1 : M[x][c] = 0
    /\ \A y \in 0 .. x - 1 : column[y] < column[x]

\* The equations from the rank on are zero in the columns 1..top.
Cleared(M, rank, n, top) == \A x \in rank .. n - 1 : \A c \in 1..top : M[x][c] = 0

\* The invariant of the forward elimination: s is its state when the columns
\* 1..top of the matrix L with n equations have been treated.
Forwarded(s, L, n, rows, top) ==
  /\ s.M \in MatrixOf(rows)
  /\ s.rank \in 0..n
  /\ \A x \in 0 .. rows - 1 : s.M[x][0] = L[x][0]
  /\ \A x \in n .. rows - 1 : \A c \in Coordinates : s.M[x][c] = L[x][c]
  /\ \A m \in IntRow : Vanishes(L, n, m) <=> Vanishes(s.M, n, m)
  /\ Echelon(s.M, s.column, s.rank, n)
  /\ Cleared(s.M, s.rank, n, top)
  /\ \A x \in 0 .. s.rank - 1 : s.column[x] <= top

\* The matrix with the pivot row in its place.
Pivoted(M, rank, first, col) == [ExchangeCoordinates(M, rank, first) EXCEPT ![rank] = PivotRow(@, col)]

\* first is the first of the rows rank..n-1 that is not zero in col.
IsFirst(M, rank, n, col, first) ==
  /\ first \in rank .. n - 1
  /\ M[first][col] # 0
  /\ \A y \in rank .. first - 1 : M[y][col] = 0

\* The row of the pivot: the rows before and after it in three steps.
LEMMA PivotedRows ==
  ASSUME NEW rows \in Nat, NEW n \in 0..rows, NEW M \in MatrixOf(rows), NEW rank \in 0 .. n - 1,
         NEW col \in Coordinates, NEW first, IsFirst(M, rank, n, col, first), NEW P, P = Pivoted(M, rank, first, col)
  PROVE  /\ P \in MatrixOf(rows) /\ P[rank][col] > 0
         /\ \A x \in 0 .. rows - 1 : P[x][0] = M[x][0]
         /\ \A x \in 0 .. rank - 1 : \A c \in Coordinates : P[x][c] = M[x][c]
         /\ \A x \in n .. rows - 1 : \A c \in Coordinates : P[x][c] = M[x][c]
         /\ \A y \in rank + 1 .. first : P[y][col] = 0
<1> DEFINE X == ExchangeCoordinates(M, rank, first)
<1>1. rank \in 0 .. rows - 1 /\ first \in 0 .. rows - 1 /\ rows \in Int /\ n \in Int /\ rank <= first /\ first < n
        /\ first \in rank .. n - 1 /\ M[first][col] # 0 /\ \A y \in rank .. first - 1 : M[y][col] = 0
  BY DEF IsFirst
<1>2. X \in MatrixOf(rows)
  <2>1. DOMAIN X = 0 .. rows - 1 /\ X = [x \in 0 .. rows - 1 |-> X[x]]
    BY DEF ExchangeCoordinates, MatrixOf
  <2>2. \A x \in 0 .. rows - 1 : X[x] \in IntRow
    BY <1>1, ExchangedCoordinates
  <2> QED BY <2>1, <2>2 DEF MatrixOf
<1>3. ASSUME NEW x \in 0 .. rows - 1
      PROVE  X[x] \in IntRow /\ X[x][0] = M[x][0]
             /\ \A c \in Coordinates : X[x][c] = M[ExchangedFrom(x, rank, first)][c]
  BY <1>1, ExchangedCoordinates
<1> HIDE DEF X
<1>4. X[rank][col] # 0 /\ X[rank] \in IntRow
  <2>1. ExchangedFrom(rank, rank, first) = first
    BY DEF ExchangedFrom
  <2> QED BY <1>1, <1>3, <2>1
<1>5. PivotRow(X[rank], col) \in IntRow /\ PivotRow(X[rank], col)[0] = X[rank][0] /\ PivotRow(X[rank], col)[col] > 0
  BY <1>4, PivotRowIs
<1>6. P = [x \in 0 .. rows - 1 |-> IF x = rank THEN PivotRow(X[rank], col) ELSE X[x]]
  BY <1>2 DEF X, MatrixOf, Pivoted
<1>7. P \in MatrixOf(rows) /\ P[rank][col] > 0
  BY <1>1, <1>3, <1>5, <1>6 DEF MatrixOf
<1>8. \A x \in 0 .. rows - 1 : P[x][0] = M[x][0]
  BY <1>1, <1>3, <1>5, <1>6
<1>9. ASSUME NEW x \in 0 .. rows - 1, x < rank \/ x >= n, NEW c \in Coordinates PROVE P[x][c] = M[x][c]
  <2>1. ExchangedFrom(x, rank, first) = x /\ x # rank
    BY <1>1, <1>9 DEF ExchangedFrom
  <2> QED BY <1>3, <1>6, <2>1
<1>10. ASSUME NEW y \in rank + 1 .. first PROVE P[y][col] = 0
  <2>1. y \in 0 .. rows - 1 /\ y # rank /\ ExchangedFrom(y, rank, first) \in rank .. first - 1
    BY <1>1 DEF ExchangedFrom
  <2> QED BY <1>1, <1>3, <1>6, <2>1
<1>11. (\A x \in 0 .. rank - 1 : x \in 0 .. rows - 1 /\ x < rank) /\ (\A x \in n .. rows - 1 : x \in 0 .. rows - 1 /\ x >= n)
  BY <1>1
<1> QED BY <1>7, <1>8, <1>9, <1>10, <1>11

\* Each row of the pivoted matrix has the zeros of the row it was made from.
LEMMA PivotedRowZero ==
  ASSUME NEW rows \in Nat, NEW n \in 0..rows, NEW M \in MatrixOf(rows), NEW rank \in 0 .. n - 1,
         NEW col \in Coordinates, NEW first, IsFirst(M, rank, n, col, first), NEW P, P = Pivoted(M, rank, first, col),
         NEW m \in IntRow, NEW x \in 0 .. rows - 1
  PROVE  InnerProduct(P[x], m) = 0 <=> InnerProduct(M[ExchangedFrom(x, rank, first)], m) = 0
<1> DEFINE X == ExchangeCoordinates(M, rank, first)
           z == ExchangedFrom(x, rank, first)
<1>1. rank \in 0 .. rows - 1 /\ first \in 0 .. rows - 1
  BY DEF IsFirst
<1>2. X[x] \in IntRow /\ \A c \in Coordinates : X[x][c] = M[z][c]
  BY <1>1, ExchangedCoordinates
<1>3. P[x] = IF x = rank THEN PivotRow(X[x], col) ELSE X[x]
  <2>1. DOMAIN X = 0 .. rows - 1
    BY DEF ExchangeCoordinates, MatrixOf
  <2> QED BY <1>1, <2>1 DEF Pivoted
<1>4. z \in 0 .. rows - 1
  BY <1>1 DEF ExchangedFrom
<1> HIDE DEF X, z
<1>5. M[z] \in IntRow
  BY <1>4 DEF MatrixOf
<1>6. InnerProduct(X[x], m) = InnerProduct(M[z], m)
  BY <1>2, <1>5, InnerProductSame
<1>7. InnerProduct(PivotRow(X[x], col), m) = 0 <=> InnerProduct(X[x], m) = 0
  BY <1>2, PivotRowZero
<1> QED BY <1>3, <1>6, <1>7 DEF z

\* The exchange and the normalisation keep the solutions.
LEMMA PivotedVanishes ==
  ASSUME NEW rows \in Nat, NEW n \in 0..rows, NEW M \in MatrixOf(rows), NEW rank \in 0 .. n - 1,
         NEW col \in Coordinates, NEW first, IsFirst(M, rank, n, col, first), NEW P, P = Pivoted(M, rank, first, col),
         NEW m \in IntRow, NEW low \in 0..rank
  PROVE  VanishFrom(M, low, n, m) <=> VanishFrom(P, low, n, m)
<1>1. rank \in 0 .. rows - 1 /\ rows \in Int /\ n \in Int /\ rank <= first /\ first < n /\ first \in Int
  BY DEF IsFirst
<1>2. ASSUME NEW y \in low .. n - 1
      PROVE  /\ y \in 0 .. rows - 1
             /\ ExchangedFrom(y, rank, first) \in low .. n - 1
             /\ ExchangedFrom(y, rank, first) \in 0 .. rows - 1
             /\ ExchangedFrom(ExchangedFrom(y, rank, first), rank, first) = y
  BY <1>1 DEF ExchangedFrom
<1>3. ASSUME NEW y \in low .. n - 1
      PROVE  InnerProduct(P[y], m) = 0 <=> InnerProduct(M[ExchangedFrom(y, rank, first)], m) = 0
  BY <1>2, PivotedRowZero
<1>4. ASSUME NEW y \in low .. n - 1
      PROVE  InnerProduct(P[ExchangedFrom(y, rank, first)], m) = 0 <=> InnerProduct(M[y], m) = 0
  BY <1>2, PivotedRowZero
<1> QED BY <1>2, <1>3, <1>4 DEF VanishFrom

\* A column that was zero from row low on stays so: the elimination does not
\* fill in what earlier columns have gained.
LEMMA ColumnCleared ==
  ASSUME NEW rows \in Nat, NEW n \in 0..rows, NEW M \in MatrixOf(rows), NEW rank \in 0 .. n - 1,
         NEW col \in Coordinates, NEW first, IsFirst(M, rank, n, col, first), NEW P, P = Pivoted(M, rank, first, col),
         NEW low \in 0..rank, NEW c \in Coordinates, ZeroFrom(M, low, n, c)
  PROVE  ZeroFrom(Eliminated(P, first + 1 .. n - 1, rank, col), low, n, c)
<1> DEFINE R == first + 1 .. n - 1
<1>1. rank \in 0 .. rows - 1 /\ rank \in low .. n - 1 /\ \A y \in low .. n - 1 : y \in 0 .. rows - 1
  BY DEF IsFirst
<1>2. P \in MatrixOf(rows) /\ P[rank][col] > 0
  BY PivotedRows
<1>3. ASSUME NEW y \in low .. n - 1 PROVE InnerProduct(M[y], Axis(c)) = 0
  <2>1. M[y] \in IntRow
    BY <1>1 DEF MatrixOf
  <2> QED BY <2>1, AxisProduct DEF ZeroFrom
<1>4. Axis(c) \in IntRow
  <2>1. M[rank] \in IntRow
    BY <1>1 DEF MatrixOf
  <2> QED BY <2>1, AxisProduct
<1>5. VanishFrom(P, low, n, Axis(c))
  <2>1. VanishFrom(M, low, n, Axis(c))
    BY <1>3 DEF VanishFrom
  <2> QED BY <1>4, <2>1, PivotedVanishes
<1>6. ASSUME NEW y \in low .. n - 1 PROVE P[y][c] = 0
  <2>1. P[y] \in IntRow
    BY <1>1, <1>2 DEF MatrixOf
  <2> QED BY <1>5, <2>1, AxisProduct DEF VanishFrom
<1> HIDE DEF R
<1>7. ASSUME NEW y \in low .. n - 1 PROVE SameSign(Eliminated(P, R, rank, col)[y][c], P[y][c])
  BY <1>1, <1>2, <1>6, EliminatedEntry
<1> QED BY <1>6, <1>7 DEF R, SameSign, ZeroFrom

\* One more pivot keeps the echelon form.
LEMMA EchelonStep ==
  ASSUME NEW rows \in Nat, NEW n \in 0..rows, NEW M \in MatrixOf(rows), NEW column, NEW rank \in 0 .. n - 1,
         Echelon(M, column, rank, n), NEW col \in Coordinates,
         Cleared(M, rank, n, col - 1), \A x \in 0 .. rank - 1 : column[x] <= col - 1, NEW first, IsFirst(M, rank, n, col, first), NEW P, P = Pivoted(M, rank, first, col),
         NEW d, d = [x \in 0..rank |-> IF x = rank THEN col ELSE column[x]]
  PROVE  Echelon(Eliminated(P, first + 1 .. n - 1, rank, col), d, rank + 1, n)
<1> DEFINE R == first + 1 .. n - 1
           E == Eliminated(P, R, rank, col)
<1>1. rank \in 0 .. rows - 1 /\ rows \in Int /\ n \in Int /\ rank \in Int /\ first \in Int /\ rank <= first
        /\ first < n /\ n <= rows
  BY DEF IsFirst
<1>2. P \in MatrixOf(rows) /\ P[rank][col] > 0
  BY PivotedRows
<1>3. ASSUME NEW x \in 0 .. rank - 1, NEW c \in Coordinates PROVE P[x][c] = M[x][c]
  BY PivotedRows
<1>4. ASSUME NEW y \in rank + 1 .. first PROVE P[y][col] = 0
  BY PivotedRows
<1>5. ASSUME NEW x \in 0 .. rows - 1
      PROVE  (x \notin R => E[x] = P[x]) /\ (x \in R => E[x][col] = 0)
  <2> HIDE DEF R
  <2> QED BY <1>1, <1>2, EliminatedRow
<1>6. ASSUME NEW x \in 0 .. rank - 1
      PROVE  /\ d[x] \in Coordinates /\ E[x][d[x]] > 0
             /\ \A y \in x + 1 .. n - 1 : E[y][d[x]] = 0
             /\ \A y \in 1 .. d[x] - 1 : E[x][y] = 0
             /\ \A y \in 0 .. x - 1 : d[y] < d[x]
  <2> DEFINE c == column[x]
  <2>1. d[x] = c /\ x \in 0 .. rows - 1 /\ x \notin R /\ x \in Int /\ x < rank
    BY <1>1
  <2>2. c \in Coordinates /\ M[x][c] > 0 /\ \A y \in x + 1 .. n - 1 : M[y][c] = 0
    BY DEF Echelon
  <2> HIDE DEF c, R, E
  <2>3. E[x] = P[x] /\ P[x][c] = M[x][c]
    BY <1>3, <1>5, <2>1, <2>2
  <2>4. x + 1 \in 0..rank
    BY <1>1, <2>1
  <2>5. ASSUME NEW y \in x + 1 .. n - 1 PROVE E[y][c] = 0
    <3>1. ZeroFrom(M, x + 1, n, c)
      BY <2>2 DEF ZeroFrom
    <3>2. ZeroFrom(E, x + 1, n, c)
      BY <2>2, <2>4, <3>1, ColumnCleared DEF E, R
    <3> QED BY <3>2 DEF ZeroFrom
  <2>6. ASSUME NEW y \in 1 .. d[x] - 1 PROVE E[x][y] = 0
    <3>1. y \in 1 .. c - 1 /\ y \in Coordinates
      BY <2>1, <2>2, DimensionAssumption DEF Coordinates
    <3>2. M[x][y] = 0
      BY <3>1 DEF Echelon, c
    <3> QED BY <1>3, <1>5, <2>1, <3>1, <3>2
  <2>7. ASSUME NEW y \in 0 .. x - 1 PROVE d[y] < d[x]
    <3>1. column[y] < column[x]
      BY DEF Echelon
    <3>2. d[y] = column[y]
      BY <1>1, <2>1
    <3> QED BY <2>1, <3>1, <3>2 DEF c
  <2> QED BY <2>1, <2>2, <2>3, <2>5, <2>6, <2>7
<1>7. d[rank] \in Coordinates /\ E[rank][d[rank]] > 0
        /\ (\A y \in rank + 1 .. n - 1 : E[y][d[rank]] = 0)
        /\ (\A y \in 1 .. d[rank] - 1 : E[rank][y] = 0)
        /\ (\A y \in 0 .. rank - 1 : d[y] < d[rank])
  <2>1. d[rank] = col /\ rank \notin R
    BY <1>1
  <2>2. E[rank] = P[rank]
    BY <1>1, <1>5, <2>1
  <2>3. ASSUME NEW y \in rank + 1 .. n - 1 PROVE E[y][col] = 0
    <3>1. y \in 0 .. rows - 1 /\ (y \in R \/ (y \notin R /\ y \in rank + 1 .. first))
      BY <1>1
    <3> HIDE DEF R, E
    <3> QED BY <1>4, <1>5, <3>1
  <2>4. ASSUME NEW y \in 1 .. col - 1 PROVE E[rank][y] = 0
    <3>1. y \in Coordinates /\ rank \in 0..rank /\ rank \in rank .. n - 1
      BY <1>1, DimensionAssumption DEF Coordinates
    <3>2. ZeroFrom(M, rank, n, y)
      BY DEF Cleared, ZeroFrom
    <3>3. ZeroFrom(E, rank, n, y)
      BY <3>1, <3>2, ColumnCleared DEF E, R
    <3> QED BY <3>1, <3>3 DEF ZeroFrom
  <2>5. ASSUME NEW y \in 0 .. rank - 1 PROVE d[y] < col
    <3>1. d[y] = column[y] /\ y # rank
      BY <1>1
    <3>2. column[y] \in Coordinates /\ column[y] <= col - 1
      BY DEF Echelon
    <3>3. column[y] < col
      BY <3>2, DimensionAssumption DEF Coordinates
    <3> QED BY <3>1, <3>3
  <2> HIDE DEF R, E
  <2> QED BY <1>2, <2>1, <2>2, <2>3, <2>4, <2>5
<1>8. \A x \in 0 .. (rank + 1) - 1 : x = rank \/ x \in 0 .. rank - 1
  BY <1>1
<1> HIDE DEF E
<1>9. Echelon(E, d, rank + 1, n)
  BY <1>6, <1>7, <1>8 DEF Echelon
<1> QED BY <1>9 DEF E

\* One turn of the loop over the columns keeps the invariant.
LEMMA ForwardColumnStep ==
  ASSUME NEW rows \in Nat, NEW n \in 0..rows, NEW L, NEW s,
         NEW col \in Coordinates, Forwarded(s, L, n, rows, col - 1)
  PROVE  Forwarded(ForwardColumn(s, n, col), L, n, rows, col)
<1> DEFINE nonzero == {x \in s.rank .. n - 1 : s.M[x][col] # 0}
           first == CHOOSE x \in nonzero : \A y \in nonzero : x <= y
           P == Pivoted(s.M, s.rank, first, col)
           R == first + 1 .. n - 1
           E == Eliminated(P, R, s.rank, col)
           d == [x \in 0..s.rank |-> IF x = s.rank THEN col ELSE s.column[x]]
<1>1. ForwardColumn(s, n, col) =
        IF nonzero = {} THEN s ELSE [M |-> E, rank |-> s.rank + 1, column |-> d]
  BY DEF ForwardColumn, Pivoted
<1>2. SUFFICES ASSUME nonzero # {}
               PROVE  Forwarded([M |-> E, rank |-> s.rank + 1, column |-> d], L, n, rows, col)
  <2>1. ASSUME nonzero = {} PROVE Cleared(s.M, s.rank, n, col)
    <3>1. col \in Nat /\ \A c \in 1..col : c = col \/ c \in 1 .. col - 1
      BY DimensionAssumption DEF Coordinates
    <3>2. \A x \in s.rank .. n - 1 : s.M[x][col] = 0
      BY <2>1
    <3>3. \A x \in s.rank .. n - 1 : \A c \in 1 .. col - 1 : s.M[x][c] = 0
      BY DEF Forwarded, Cleared
    <3> QED BY <3>1, <3>2, <3>3 DEF Cleared
  <2>2. \A x \in 0 .. s.rank - 1 : s.column[x] <= col
    <3>1. \A x \in 0 .. s.rank - 1 : s.column[x] \in Coordinates /\ s.column[x] <= col - 1
      BY DEF Forwarded, Echelon
    <3> QED BY <3>1, DimensionAssumption DEF Coordinates
  <2> HIDE DEF nonzero, E, d
  <2> QED BY <1>1, <2>1, <2>2 DEF Forwarded
<1>3. s.M \in MatrixOf(rows) /\ s.rank \in 0..n /\ Echelon(s.M, s.column, s.rank, n)
  BY DEF Forwarded
<1>4. first \in nonzero /\ \A y \in nonzero : first <= y
  <2>1. nonzero \subseteq Nat
    BY <1>3
  <2>2. \E x \in nonzero : \A y \in nonzero : x <= y
    <3> HIDE DEF nonzero
    <3> QED BY <1>2, <2>1, LeastElement
  <2> QED BY <2>2
<1> HIDE DEF first
<1>5. first \in s.rank .. n - 1 /\ s.M[first][col] # 0 /\ s.rank \in 0 .. n - 1
  BY <1>3, <1>4
<1>6. ASSUME NEW y \in s.rank .. first - 1 PROVE s.M[y][col] = 0
  BY <1>3, <1>4, <1>5
<1> DEFINE r == s.rank
           M == s.M
<1> HIDE DEF nonzero, P, E
<1>7. P = Pivoted(M, r, first, col) /\ E = Eliminated(P, R, r, col)
        /\ d = [x \in 0..r |-> IF x = r THEN col ELSE s.column[x]]
  BY DEF P, E
<1>8. M \in MatrixOf(rows) /\ r \in 0 .. n - 1 /\ first \in r .. n - 1 /\ IsFirst(M, r, n, col, first)
        /\ Echelon(M, s.column, r, n)
  BY <1>3, <1>5, <1>6 DEF IsFirst
<1>9. /\ \A x \in 0 .. rows - 1 : M[x][0] = L[x][0]
      /\ \A x \in n .. rows - 1 : \A c \in Coordinates : M[x][c] = L[x][c]
      /\ \A m \in IntRow : Vanishes(L, n, m) <=> Vanishes(M, n, m)
      /\ Cleared(M, r, n, col - 1)
      /\ \A x \in 0 .. r - 1 : s.column[x] <= col - 1
  BY DEF Forwarded
<1> HIDE DEF r, M, d
<1>10. r \in 0 .. rows - 1 /\ rows \in Int /\ n \in Int /\ first \in Int /\ n <= rows
  BY <1>8
<1>11. P \in MatrixOf(rows) /\ P[r][col] > 0
         /\ (\A x \in 0 .. rows - 1 : P[x][0] = M[x][0])
         /\ (\A x \in n .. rows - 1 : \A c \in Coordinates : P[x][c] = M[x][c])
  BY <1>7, <1>8, PivotedRows
<1>12. E \in MatrixOf(rows)
  BY <1>7, <1>10, <1>11, EliminatedType
<1>13. ASSUME NEW x \in 0 .. rows - 1 PROVE E[x][0] = P[x][0] /\ (x \notin R => E[x] = P[x])
  <2> HIDE DEF R
  <2> QED BY <1>7, <1>10, <1>11, EliminatedRow
<1>14. ASSUME NEW x \in n .. rows - 1, NEW c \in Coordinates PROVE E[x][c] = L[x][c]
  <2>1. x \in 0 .. rows - 1 /\ x \notin R
    BY <1>10
  <2> HIDE DEF R
  <2> QED BY <1>9, <1>11, <1>13, <2>1
<1>15. ASSUME NEW m \in IntRow PROVE Vanishes(L, n, m) <=> Vanishes(E, n, m)
  <2>1. Vanishes(L, n, m) <=> VanishFrom(M, 0, n, m)
    BY <1>9 DEF Vanishes, VanishFrom
  <2>2. 0 \in 0..r /\ r \in 0 .. n - 1 /\ \A x \in 0 .. n - 1 : x \in 0 .. rows - 1
    BY <1>8, <1>10
  <2>3. VanishFrom(M, 0, n, m) <=> VanishFrom(P, 0, n, m)
    BY <1>7, <1>8, <2>2, PivotedVanishes
  <2>4. ASSUME InnerProduct(P[r], m) = 0, NEW x \in 0 .. n - 1
        PROVE  InnerProduct(E[x], m) = 0 <=> InnerProduct(P[x], m) = 0
    <3>1. SameSign(InnerProduct(E[x], m), InnerProduct(P[x], m))
      <4>1. x \in 0 .. rows - 1
        BY <2>2
      <4> HIDE DEF R
      <4> QED BY <1>7, <1>10, <1>11, <2>4, <4>1, EliminatedSign
    <3> QED BY <3>1 DEF SameSign
  <2>5. E[r] = P[r]
    <3>1. r \in 0 .. rows - 1 /\ r \notin R
      BY <1>8, <1>10
    <3> QED BY <1>13, <3>1
  <2>6. Vanishes(E, n, m) <=> VanishFrom(P, 0, n, m)
    <3>1. CASE InnerProduct(P[r], m) = 0
      BY <2>4, <3>1 DEF Vanishes, VanishFrom
    <3>2. CASE InnerProduct(P[r], m) # 0
      BY <2>2, <2>5, <3>2 DEF Vanishes, VanishFrom
    <3> QED BY <3>1, <3>2
  <2> QED BY <2>1, <2>3, <2>6
<1>16. Echelon(E, d, r + 1, n)
  BY <1>7, <1>8, <1>9, EchelonStep DEF R
<1>17. r + 1 \in 0..n
  BY <1>8
<1>18. \A x \in 0 .. rows - 1 : E[x][0] = L[x][0]
  BY <1>9, <1>11, <1>13
<1>19. Cleared(E, r + 1, n, col)
  <2>1. r + 1 - 1 = r /\ r \in 0 .. (r + 1) - 1 /\ r \in 0..r /\ col \in Nat
          /\ (\A c \in 1..col : c = col \/ (c \in 1 .. col - 1 /\ c \in Coordinates))
          /\ (\A x \in r + 1 .. n - 1 : x \in r .. n - 1)
    BY <1>8, DimensionAssumption DEF Coordinates
  <2>2. d[r] = col
    BY <1>7, <2>1
  <2>3. \A x \in r + 1 .. n - 1 : E[x][col] = 0
    BY <1>16, <2>1, <2>2 DEF Echelon
  <2>4. ASSUME NEW c \in 1 .. col - 1, c \in Coordinates, NEW x \in r .. n - 1 PROVE E[x][c] = 0
    <3>1. ZeroFrom(M, r, n, c)
      BY <1>9 DEF Cleared, ZeroFrom
    <3>2. ZeroFrom(E, r, n, c)
      BY <1>7, <1>8, <2>1, <2>4, <3>1, ColumnCleared DEF R
    <3> QED BY <3>2 DEF ZeroFrom
  <2> QED BY <2>1, <2>3, <2>4 DEF Cleared
<1> HIDE DEF R
<1>20. ASSUME NEW x \in 0 .. (r + 1) - 1 PROVE d[x] <= col
  <2>1. x = r \/ x \in 0 .. r - 1
    BY <1>8
  <2>2. CASE x = r
    BY <1>7, <1>8, <2>2, DimensionAssumption DEF Coordinates
  <2>3. CASE x \in 0 .. r - 1
    <3>1. d[x] = s.column[x]
      BY <1>7, <1>8, <2>3
    <3>2. s.column[x] \in Coordinates /\ s.column[x] <= col - 1
      BY <1>8, <1>9, <2>3 DEF Echelon
    <3> QED BY <3>1, <3>2, DimensionAssumption DEF Coordinates
  <2> QED BY <2>1, <2>2, <2>3
<1>21. Forwarded([M |-> E, rank |-> r + 1, column |-> d], L, n, rows, col)
  BY <1>12, <1>14, <1>15, <1>16, <1>17, <1>18, <1>19, <1>20 DEF Forwarded
<1> QED BY <1>21 DEF r

\* The loop: the function step of Forward is defined for all the columns,
\* and the invariant holds after each of them.
LEMMA ForwardCorrect ==
  ASSUME NEW rows \in Nat, NEW n \in 0..rows, NEW L \in MatrixOf(rows)
  PROVE  Forwarded(Forward(L, n), L, n, rows, Dimension)
<1> DEFINE start == [M |-> L, rank |-> 0, column |-> [x \in {} |-> 0]]
           F(f) == [col \in 0..Dimension |->
                      IF col = 0 THEN start ELSE ForwardColumn(f[col - 1], n, col)]
           step == CHOOSE f : f = F(f)
           IsPrefix(f, top) == /\ f = [col \in 0..top |-> f[col]]
                               /\ f[0] = start
                               /\ \A col \in 1..top : f[col] = ForwardColumn(f[col - 1], n, col)
           T == {top \in 0..Dimension : \E f : IsPrefix(f, top)}
<1>1. Forward(L, n) = step[Dimension]
  BY DEF Forward
<1>2. Forwarded(start, L, n, rows, 0)
  <2>1. Echelon(L, [x \in {} |-> 0], 0, n) /\ Cleared(L, 0, n, 0)
    BY DEF Echelon, Cleared
  <2>2. 0 \in 0..n
    OBVIOUS
  <2> QED BY <2>1, <2>2 DEF Forwarded
<1> HIDE DEF start
<1>3. 0 \in T
  <2> DEFINE f == [col \in 0..0 |-> start]
  <2>1. IsPrefix(f, 0)
    OBVIOUS
  <2>2. 0 \in 0..Dimension
    BY DimensionAssumption
  <2> HIDE DEF f, IsPrefix
  <2> QED BY <2>1, <2>2
<1>4. ASSUME NEW top \in 0 .. Dimension - 1, top \in T PROVE top + 1 \in T
  <2>1. PICK f : IsPrefix(f, top)
    BY <1>4
  <2> DEFINE h == [col \in 0 .. top + 1 |->
                     IF col = top + 1 THEN ForwardColumn(f[top], n, top + 1) ELSE f[col]]
  <2>2. h[0] = start /\ h = [col \in 0 .. top + 1 |-> h[col]]
    BY <2>1
  <2>3. ASSUME NEW col \in 1 .. top + 1 PROVE h[col] = ForwardColumn(h[col - 1], n, col)
    <3>1. CASE col = top + 1
      <4>1. h[col] = ForwardColumn(f[top], n, top + 1) /\ h[top] = f[top] /\ col - 1 = top
        BY <3>1
      <4> QED BY <3>1, <4>1
    <3>2. CASE col # top + 1
      <4>1. col \in 1..top /\ h[col] = f[col] /\ h[col - 1] = f[col - 1]
        BY <3>2
      <4>2. f[col] = ForwardColumn(f[col - 1], n, col)
        BY <2>1, <4>1
      <4> QED BY <4>1, <4>2
    <3> QED BY <3>1, <3>2
  <2>4. top + 1 \in 0..Dimension
    BY DimensionAssumption
  <2> HIDE DEF h
  <2>5. IsPrefix(h, top + 1)
    BY <2>2, <2>3
  <2> HIDE DEF IsPrefix
  <2> QED BY <2>4, <2>5
<1>5. 0..Dimension \subseteq T
  <2> HIDE DEF T
  <2> QED BY <1>3, <1>4, UpFromZero, DimensionAssumption
<1>6. PICK f : IsPrefix(f, Dimension)
  <2>1. Dimension \in 0..Dimension
    BY DimensionAssumption
  <2> QED BY <1>5, <2>1
<1>7. f = F(f)
  <2>1. \A col \in 0..Dimension : col = 0 \/ col \in 1..Dimension
    BY DimensionAssumption
  <2>2. \A col \in 0..Dimension : f[col] = IF col = 0 THEN start ELSE ForwardColumn(f[col - 1], n, col)
    BY <1>6, <2>1
  <2>3. f = [col \in 0..Dimension |-> f[col]]
    BY <1>6
  <2> QED BY <2>2, <2>3
<1>8. step = F(step)
  BY <1>7
<1> DEFINE U == {col \in 0..Dimension : Forwarded(step[col], L, n, rows, col)}
<1> HIDE DEF step
<1>9. 0 \in U
  <2>1. 0 \in 0..Dimension
    BY DimensionAssumption
  <2>2. step[0] = start
    BY <1>8, <2>1
  <2> QED BY <1>2, <2>1, <2>2
<1>10. ASSUME NEW col \in 0 .. Dimension - 1, col \in U PROVE col + 1 \in U
  <2>1. col + 1 \in 0..Dimension /\ col + 1 # 0 /\ (col + 1) - 1 = col /\ col + 1 \in Coordinates
    BY DimensionAssumption DEF Coordinates
  <2>2. step[col + 1] = ForwardColumn(step[(col + 1) - 1], n, col + 1)
    BY <1>8, <2>1
  <2>3. step[col + 1] = ForwardColumn(step[col], n, col + 1)
    BY <2>1, <2>2
  <2>4. Forwarded(step[col + 1], L, n, rows, col + 1)
    BY <1>10, <2>1, <2>3, ForwardColumnStep
  <2> QED BY <2>1, <2>4
<1>11. 0..Dimension \subseteq U
  <2> HIDE DEF U
  <2> QED BY <1>9, <1>10, UpFromZero, DimensionAssumption
<1>12. Forwarded(step[Dimension], L, n, rows, Dimension)
  <2>1. Dimension \in 0..Dimension
    BY DimensionAssumption
  <2> QED BY <1>11, <2>1
<1> QED BY <1>1, <1>12

-----------------------------------------------------------------------------
\* What elimination keeps: the rows named by n are the equations, the others
\* the inequalities of L.
Equivalent(N, L, n, rows) ==
  /\ N \in MatrixOf(rows)
  /\ \A x \in 0 .. rows - 1 : N[x][0] = L[x][0]
  /\ \A m \in IntRow :
       /\ Vanishes(L, n, m) <=> Vanishes(N, n, m)
       /\ Vanishes(L, n, m) =>
            \A x \in n .. rows - 1 : SameSign(InnerProduct(N[x], m), InnerProduct(L[x], m))

\* The pivots of the rows low..rank-1 stand in no row above them and in no
\* inequality.
Alone(M, column, low, rank, n, rows) ==
  \A x \in low .. rank - 1 : \A y \in (0 .. x - 1) \cup (n .. rows - 1) : M[y][column[x]] = 0

\* The invariant of the back substitution: rows low..rank-1 have served.
Backed(N, L, column, low, rank, n, rows) ==
  /\ Equivalent(N, L, n, rows)
  /\ Echelon(N, column, rank, n)
  /\ Cleared(N, rank, n, Dimension)
  /\ Alone(N, column, low, rank, n, rows)

\* One pivot row of the back substitution keeps the invariant: the pivots of
\* the rows below it are zero in the pivot row, which therefore adds nothing
\* in their columns, nor in those before its own pivot.
LEMMA SubstitutedStep ==
  ASSUME NEW rows \in Nat, NEW n \in 0..rows, NEW L, NEW N, NEW column, NEW rank \in 0..n,
         NEW piv \in 0 .. rank - 1, Backed(N, L, column, piv + 1, rank, n, rows)
  PROVE  Backed(Substituted(N, n, rows, piv, column[piv]), L, column, piv, rank, n, rows)
<1> DEFINE col == column[piv]
           R == (0 .. piv - 1) \cup (n .. rows - 1)
           E == Eliminated(N, R, piv, col)
<1>1. N \in MatrixOf(rows) /\ piv \in 0 .. rows - 1 /\ piv \in 0 .. n - 1 /\ rows \in Int /\ n \in Int
        /\ rank \in Int /\ rank <= n /\ n <= rows /\ piv \in Int /\ piv < rank
        /\ Equivalent(N, L, n, rows) /\ Echelon(N, column, rank, n)
  BY DEF Equivalent, Backed
<1>2. col \in Coordinates /\ N[piv][col] > 0
  BY <1>1 DEF Echelon
<1>3. ASSUME NEW x \in 0 .. rank - 1, x < piv PROVE N[piv][column[x]] = 0
  <2>1. piv \in x + 1 .. n - 1
    BY <1>1, <1>3
  <2> QED BY <1>1, <2>1 DEF Echelon
<1>4. Substituted(N, n, rows, piv, column[piv]) = E
  BY DEF Substituted
<1> HIDE DEF col
<1>5. E \in MatrixOf(rows)
  <2> HIDE DEF R
  <2> QED BY <1>1, <1>2, EliminatedType
<1>6. ASSUME NEW x \in 0 .. rows - 1
      PROVE  E[x][0] = N[x][0] /\ (x \notin R => E[x] = N[x]) /\ (x \in R => E[x][col] = 0)
  <2> HIDE DEF R
  <2> QED BY <1>1, <1>2, EliminatedRow
<1>7. ASSUME NEW x \in 0 .. rows - 1, NEW c \in Coordinates, N[piv][c] = 0
      PROVE  SameSign(E[x][c], N[x][c])
  <2> HIDE DEF R
  <2> QED BY <1>1, <1>2, <1>7, EliminatedEntry
<1>8. ASSUME NEW m \in IntRow, InnerProduct(N[piv], m) = 0, NEW x \in 0 .. rows - 1
      PROVE  SameSign(InnerProduct(E[x], m), InnerProduct(N[x], m))
  <2> HIDE DEF R
  <2> QED BY <1>1, <1>2, <1>8, EliminatedSign
<1> HIDE DEF E
<1>9. ASSUME NEW x \in 0 .. rank - 1
      PROVE  /\ column[x] \in Coordinates /\ E[x][column[x]] > 0
             /\ \A y \in x + 1 .. n - 1 : E[y][column[x]] = 0
             /\ \A y \in 1 .. column[x] - 1 : E[x][y] = 0
             /\ \A y \in 0 .. x - 1 : column[y] < column[x]
  <2> DEFINE c == column[x]
  <2>1. /\ c \in Coordinates /\ N[x][c] > 0 /\ (\A y \in x + 1 .. n - 1 : N[y][c] = 0) /\ x \in 0 .. rows - 1
        /\ (\A y \in 1 .. c - 1 : N[x][y] = 0) /\ (\A y \in 0 .. x - 1 : column[y] < c)
    BY <1>1 DEF Echelon
  <2>2. x < piv => N[piv][c] = 0
    BY <1>3
  <2> HIDE DEF c
  <2>3. E[x][c] > 0
    <3>1. CASE x < piv
      BY <1>7, <2>1, <2>2, <3>1 DEF SameSign
    <3>2. CASE ~(x < piv)
      <4>1. x \notin R
        BY <1>1, <3>2
      <4> QED BY <1>6, <2>1, <4>1
    <3> QED BY <3>1, <3>2
  <2>4. ASSUME NEW y \in x + 1 .. n - 1 PROVE E[y][c] = 0
    <3>1. y \in 0 .. rows - 1 /\ N[y][c] = 0
      BY <1>1, <2>1
    <3>2. CASE x < piv
      BY <1>7, <2>1, <2>2, <3>1, <3>2 DEF SameSign
    <3>3. CASE ~(x < piv)
      <4>1. y \notin R
        BY <1>1, <3>3
      <4> QED BY <1>6, <3>1, <4>1
    <3> QED BY <3>2, <3>3
  <2>5. ASSUME NEW y \in 1 .. c - 1 PROVE E[x][y] = 0
    <3>1. y \in Coordinates /\ N[x][y] = 0
      BY <2>1, DimensionAssumption DEF Coordinates
    <3>2. CASE x < piv
      <4>1. c < column[piv] /\ column[piv] \in Coordinates /\ \A z \in 1 .. column[piv] - 1 : N[piv][z] = 0
        BY <1>1, <3>2 DEF Echelon, c
      <4>2. y \in 1 .. column[piv] - 1
        BY <2>1, <4>1, DimensionAssumption DEF Coordinates
      <4> QED BY <1>7, <2>1, <3>1, <4>1, <4>2 DEF SameSign
    <3>3. CASE ~(x < piv)
      <4>1. x \notin R
        BY <1>1, <3>3
      <4> QED BY <1>6, <2>1, <3>1, <4>1
    <3> QED BY <3>2, <3>3
  <2> QED BY <2>1, <2>3, <2>4, <2>5 DEF c
<1>10. Echelon(E, column, rank, n)
  BY <1>9 DEF Echelon
<1>11. ASSUME NEW m \in IntRow
       PROVE  /\ Vanishes(L, n, m) <=> Vanishes(E, n, m)
              /\ Vanishes(L, n, m) =>
                   \A x \in n .. rows - 1 : SameSign(InnerProduct(E[x], m), InnerProduct(L[x], m))
  <2>1. /\ Vanishes(L, n, m) <=> Vanishes(N, n, m)
        /\ Vanishes(L, n, m) =>
             \A x \in n .. rows - 1 : SameSign(InnerProduct(N[x], m), InnerProduct(L[x], m))
    BY <1>1 DEF Equivalent
  <2>2. piv \in 0 .. n - 1 /\ E[piv] = N[piv]
    <3>1. piv \notin R
      BY <1>1
    <3> QED BY <1>1, <1>6, <3>1
  <2>3. (\A x \in 0 .. n - 1 : x \in 0 .. rows - 1) /\ (\A x \in n .. rows - 1 : x \in 0 .. rows - 1)
    BY <1>1
  <2>4. CASE InnerProduct(N[piv], m) # 0
    <3>1. ~Vanishes(N, n, m) /\ ~Vanishes(E, n, m)
      BY <2>2, <2>4 DEF Vanishes
    <3> QED BY <2>1, <3>1
  <2>5. CASE InnerProduct(N[piv], m) = 0
    <3>1. ASSUME NEW x \in 0 .. n - 1 PROVE InnerProduct(E[x], m) = 0 <=> InnerProduct(N[x], m) = 0
      BY <1>8, <2>3, <2>5 DEF SameSign
    <3>2. Vanishes(E, n, m) <=> Vanishes(N, n, m)
      BY <3>1 DEF Vanishes
    <3>3. ASSUME NEW x \in n .. rows - 1, Vanishes(L, n, m)
          PROVE  SameSign(InnerProduct(E[x], m), InnerProduct(L[x], m))
      BY <1>8, <2>1, <2>3, <2>5, <3>3 DEF SameSign
    <3> QED BY <2>1, <3>2, <3>3
  <2> QED BY <2>4, <2>5
<1>12. \A x \in 0 .. rows - 1 : E[x][0] = L[x][0]
  BY <1>1, <1>6 DEF Equivalent
<1>13. Equivalent(E, L, n, rows)
  BY <1>5, <1>11, <1>12 DEF Equivalent
<1>14. Cleared(E, rank, n, Dimension)
  <2>1. \A x \in rank .. n - 1 : x \in 0 .. rows - 1 /\ x \notin R
    BY <1>1
  <2>2. Cleared(N, rank, n, Dimension)
    BY DEF Backed
  <2> QED BY <1>6, <2>1, <2>2 DEF Cleared
<1>15. ASSUME NEW x \in piv .. rank - 1, NEW y \in (0 .. x - 1) \cup (n .. rows - 1)
       PROVE  E[y][column[x]] = 0
  <2>1. y \in 0 .. rows - 1
    BY <1>1
  <2>2. CASE x = piv
    <3>1. y \in R
      BY <2>2
    <3> HIDE DEF R
    <3> QED BY <1>6, <2>1, <2>2, <3>1 DEF col
  <2>3. CASE x # piv
    <3>1. x \in piv + 1 .. rank - 1 /\ x \in 0 .. rank - 1 /\ piv \in (0 .. x - 1) \cup (n .. rows - 1)
      BY <1>1, <2>3
    <3>2. N[y][column[x]] = 0 /\ N[piv][column[x]] = 0
      BY <3>1 DEF Backed, Alone
    <3>3. column[x] \in Coordinates
      BY <1>1, <3>1 DEF Echelon
    <3>4. SameSign(E[y][column[x]], N[y][column[x]])
      BY <1>7, <2>1, <3>2, <3>3
    <3> QED BY <3>2, <3>4 DEF SameSign
  <2> QED BY <2>2, <2>3
<1>16. Alone(E, column, piv, rank, n, rows)
  BY <1>15 DEF Alone
<1> QED BY <1>4, <1>10, <1>13, <1>14, <1>16 DEF Backed

\* The loop of the back substitution.
LEMMA BackCorrect ==
  ASSUME NEW rows \in Nat, NEW n \in 0..rows, NEW L, NEW f, f.rank \in 0..n,
         Equivalent(f.M, L, n, rows), Echelon(f.M, f.column, f.rank, n), Cleared(f.M, f.rank, n, Dimension)
  PROVE  /\ Backed(BackSubstituted(f, n, rows).M, L, f.column, 0, f.rank, n, rows)
         /\ BackSubstituted(f, n, rows).rank = f.rank
<1> DEFINE r == f.rank
           Step(N, t) == Substituted(N, n, rows, r - t, f.column[r - t])
           F(b) == [t \in 0..r |-> IF t = 0 THEN f.M ELSE Step(b[t - 1], t)]
           back == CHOOSE b : b = F(b)
           IsPrefix(b, top) == /\ b = [t \in 0..top |-> b[t]]
                               /\ b[0] = f.M
                               /\ \A t \in 1..top : b[t] = Step(b[t - 1], t)
           T == {top \in 0..r : \E b : IsPrefix(b, top)}
<1>1. BackSubstituted(f, n, rows) = [M |-> back[r], rank |-> r]
  BY DEF BackSubstituted
<1>2. r \in Nat /\ r \in 0..n /\ 0 \in 0..r /\ r \in 0..r
  OBVIOUS
<1> DEFINE Good(N, t) == Backed(N, L, f.column, r - t, r, n, rows)
<1>3. ASSUME NEW N, NEW t \in 1..r, Good(N, t - 1) PROVE Good(Step(N, t), t)
  <2>1. r - t \in 0 .. r - 1 /\ r - (t - 1) = (r - t) + 1
    BY <1>2
  <2> HIDE DEF r
  <2> QED BY <1>2, <1>3, <2>1, SubstitutedStep
<1>4. Good(f.M, 0)
  <2>1. Alone(f.M, f.column, r - 0, r, n, rows)
    BY DEF Alone
  <2> QED BY <1>2, <2>1 DEF Backed
<1> HIDE DEF Good
<1> HIDE DEF r, Step
<1>5. 0 \in T
  <2> DEFINE b == [t \in 0..0 |-> f.M]
  <2>1. IsPrefix(b, 0)
    OBVIOUS
  <2> HIDE DEF b, IsPrefix
  <2> QED BY <1>2, <2>1
<1>6. ASSUME NEW top \in 0 .. r - 1, top \in T PROVE top + 1 \in T
  <2>1. PICK b : IsPrefix(b, top)
    BY <1>6
  <2> DEFINE h == [t \in 0 .. top + 1 |-> IF t = top + 1 THEN Step(b[top], top + 1) ELSE b[t]]
  <2>2. h[0] = f.M /\ h = [t \in 0 .. top + 1 |-> h[t]]
    BY <2>1
  <2>3. ASSUME NEW t \in 1 .. top + 1 PROVE h[t] = Step(h[t - 1], t)
    <3>1. CASE t = top + 1
      <4>1. h[t] = Step(b[top], top + 1) /\ h[top] = b[top] /\ t - 1 = top
        BY <3>1
      <4> QED BY <3>1, <4>1
    <3>2. CASE t # top + 1
      <4>1. t \in 1..top /\ h[t] = b[t] /\ h[t - 1] = b[t - 1]
        BY <3>2
      <4>2. b[t] = Step(b[t - 1], t)
        BY <2>1, <4>1
      <4> QED BY <4>1, <4>2
    <3> QED BY <3>1, <3>2
  <2>4. top + 1 \in 0..r
    BY <1>2
  <2> HIDE DEF h
  <2>5. IsPrefix(h, top + 1)
    BY <2>2, <2>3
  <2> HIDE DEF IsPrefix
  <2> QED BY <2>4, <2>5
<1>7. 0..r \subseteq T
  <2> HIDE DEF T
  <2> QED BY <1>2, <1>5, <1>6, UpFromZero
<1>8. PICK b : IsPrefix(b, r)
  BY <1>2, <1>7
<1>9. b = F(b)
  <2>1. \A t \in 0..r : t = 0 \/ t \in 1..r
    BY <1>2
  <2>2. \A t \in 0..r : b[t] = IF t = 0 THEN f.M ELSE Step(b[t - 1], t)
    BY <1>8, <2>1
  <2>3. b = [t \in 0..r |-> b[t]]
    BY <1>8
  <2> QED BY <2>2, <2>3
<1>10. back = F(back)
  BY <1>9
<1> DEFINE U == {t \in 0..r : Good(back[t], t)}
<1> HIDE DEF back
<1>11. 0 \in U
  <2>1. back[0] = f.M
    BY <1>2, <1>10
  <2> QED BY <1>2, <1>4, <2>1
<1>12. ASSUME NEW t \in 0 .. r - 1, t \in U PROVE t + 1 \in U
  <2>1. t + 1 \in 0..r /\ t + 1 # 0 /\ (t + 1) - 1 = t /\ t + 1 \in 1..r
    BY <1>2
  <2>4. Good(back[t], (t + 1) - 1)
    BY <1>12, <2>1
  <2>2. back[t + 1] = Step(back[(t + 1) - 1], t + 1)
    BY <1>10, <2>1
  <2>3. back[t + 1] = Step(back[t], t + 1)
    BY <2>1, <2>2
  <2> QED BY <1>3, <2>1, <2>3, <2>4
<1>13. 0..r \subseteq U
  <2> HIDE DEF U
  <2> QED BY <1>2, <1>11, <1>12, UpFromZero
<1>14. Good(back[r], r) /\ r - r = 0
  BY <1>2, <1>13
<1> QED BY <1>1, <1>14 DEF r, Good

(***************************************************************************)
(* Gauss4 of polyhedron.c, for every matrix and every number of equations. *)
(* No status word moves; the equations returned vanish at the points where *)
(* those given do, and there each inequality returned has the sign of the  *)
(* one given in its place.  The equations end in reduced echelon form: the *)
(* pivots are positive, the first coordinates of their rows that are not   *)
(* zero, further to the right from row to row and in no other row, those   *)
(* of the inequalities included; the rows past the rank are zero.          *)
(***************************************************************************)
THEOREM GaussCorrect ==
  ASSUME NEW rows \in Nat, NEW n \in 0..rows, NEW L \in MatrixOf(rows)
  PROVE  /\ Equivalent(Gauss4(L, n, rows).M, L, n, rows)
         /\ Gauss4(L, n, rows).rank \in 0..n
         /\ Cleared(Gauss4(L, n, rows).M, Gauss4(L, n, rows).rank, n, Dimension)
         /\ \E column : /\ Echelon(Gauss4(L, n, rows).M, column, Gauss4(L, n, rows).rank, n)
                        /\ Alone(Gauss4(L, n, rows).M, column, 0, Gauss4(L, n, rows).rank, n, rows)
<1> DEFINE f == Forward(L, n)
           g == Gauss4(L, n, rows)
<1>1. Forwarded(f, L, n, rows, Dimension)
  BY ForwardCorrect
<1>2. g = BackSubstituted(f, n, rows)
  BY DEF Gauss4
<1> HIDE DEF f
<1>3. f.M \in MatrixOf(rows) /\ f.rank \in 0..n /\ Echelon(f.M, f.column, f.rank, n)
        /\ Cleared(f.M, f.rank, n, Dimension)
  BY <1>1 DEF Forwarded
<1>4. ASSUME NEW m \in IntRow, NEW x \in n .. rows - 1
      PROVE  SameSign(InnerProduct(f.M[x], m), InnerProduct(L[x], m))
  <2>1. x \in 0 .. rows - 1
    OBVIOUS
  <2>2. f.M[x] \in IntRow /\ L[x] \in IntRow
    BY <1>3, <2>1 DEF MatrixOf
  <2>3. \A c \in Coordinates : f.M[x][c] = L[x][c]
    BY <1>1 DEF Forwarded
  <2>4. InnerProduct(f.M[x], m) = InnerProduct(L[x], m)
    BY <2>2, <2>3, InnerProductSame
  <2> QED BY <2>4 DEF SameSign
<1>5. (\A x \in 0 .. rows - 1 : f.M[x][0] = L[x][0])
        /\ \A m \in IntRow : Vanishes(L, n, m) <=> Vanishes(f.M, n, m)
  BY <1>1 DEF Forwarded
<1>6. Equivalent(f.M, L, n, rows)
  BY <1>3, <1>4, <1>5 DEF Equivalent
<1>7. Backed(g.M, L, f.column, 0, f.rank, n, rows) /\ g.rank = f.rank
  BY <1>2, <1>3, <1>6, BackCorrect
<1> QED BY <1>3, <1>7 DEF Backed

-----------------------------------------------------------------------------
(* Combinations of two rows.                                               *)

\* a times x and b times y; the status word is that combination as well.
Mix(a, x, b, y) == [c \in 0..Dimension |-> a * x[c] + b * y[c]]

\* It is a row, and its inner products are combined the same way.
LEMMA MixRow ==
  ASSUME NEW a \in Int, NEW b \in Int, NEW x \in IntRow, NEW y \in IntRow
  PROVE  /\ Mix(a, x, b, y) \in IntRow
         /\ \A c \in Coordinates : Mix(a, x, b, y)[c] = a * x[c] + b * y[c]
<1>1. \A c \in 0..Dimension : x[c] \in Int /\ y[c] \in Int
  BY DEF IntRow
<1>2. \A c \in 0..Dimension : a * x[c] + b * y[c] \in Int
  BY <1>1
<1>3. Coordinates \subseteq 0..Dimension
  BY DimensionAssumption DEF Coordinates
<1>4. Mix(a, x, b, y) \in IntRow
  BY <1>2 DEF Mix, IntRow
<1>5. ASSUME NEW c \in Coordinates PROVE Mix(a, x, b, y)[c] = a * x[c] + b * y[c]
  BY <1>3 DEF Mix
<1> QED BY <1>4, <1>5

\* The inner product of a combination.
LEMMA MixProduct ==
  ASSUME NEW a \in Int, NEW b \in Int, NEW x \in IntRow, NEW y \in IntRow, NEW m \in IntRow
  PROVE  InnerProduct(Mix(a, x, b, y), m) = a * InnerProduct(x, m) + b * InnerProduct(y, m)
<1>0. /\ Mix(a, x, b, y) \in IntRow
      /\ \A c \in Coordinates : Mix(a, x, b, y)[c] = a * x[c] + b * y[c]
  <2>1. \A c \in 0..Dimension : x[c] \in Int /\ y[c] \in Int
    BY DEF IntRow
  <2>2. \A c \in 0..Dimension : a * x[c] + b * y[c] \in Int
    BY <2>1
  <2>3. Coordinates \subseteq 0..Dimension
    BY DimensionAssumption DEF Coordinates
  <2>4. Mix(a, x, b, y) \in IntRow
    BY <2>2 DEF Mix, IntRow
  <2>5. ASSUME NEW c \in Coordinates PROVE Mix(a, x, b, y)[c] = a * x[c] + b * y[c]
    BY <2>3 DEF Mix
  <2> QED BY <2>4, <2>5
<1> DEFINE r == Mix(a, x, b, y)
<1>1. r \in IntRow /\ \A c \in Coordinates : r[c] = a * x[c] + b * y[c]
  BY <1>0
<1> HIDE DEF r
<1>2. ASSUME NEW c \in Coordinates PROVE 1 * r[c] = a * x[c] + b * y[c]
  <2>1. r[c] \in Int
    BY <1>1, DimensionAssumption DEF IntRow, Coordinates
  <2> QED BY <1>1, <2>1
<1>3. 1 * InnerProduct(r, m) = a * InnerProduct(x, m) + b * InnerProduct(y, m)
  BY <1>1, <1>2, InnerProductLinear
<1>4. InnerProduct(r, m) \in Int
  BY <1>1, InnerProductInt
<1> QED BY <1>3, <1>4 DEF r

\* The same with the combination as the second argument.
LEMMA ProductMix ==
  ASSUME NEW a \in Int, NEW b \in Int, NEW x \in IntRow, NEW y \in IntRow, NEW m \in IntRow
  PROVE  InnerProduct(m, Mix(a, x, b, y)) = a * InnerProduct(m, x) + b * InnerProduct(m, y)
<1>1. InnerProduct(m, Mix(a, x, b, y)) = InnerProduct(Mix(a, x, b, y), m)
  BY MixRow, InnerProductSymmetric
<1>2. InnerProduct(m, x) = InnerProduct(x, m) /\ InnerProduct(m, y) = InnerProduct(y, m)
  BY InnerProductSymmetric
<1> QED BY <1>1, <1>2, MixProduct

\* The row with the opposite coordinates.
Reversed(h) == Mix(-1, h, 0, h)

\* It turns the sign of the inner products.
LEMMA ReversedProduct ==
  ASSUME NEW h \in IntRow, NEW m \in IntRow
  PROVE  /\ Reversed(h) \in IntRow
         /\ InnerProduct(m, Reversed(h)) = -InnerProduct(m, h)
         /\ InnerProduct(Reversed(h), m) = -InnerProduct(h, m)
<1>1. Reversed(h) \in IntRow
  BY MixRow DEF Reversed
<1>2. InnerProduct(h, m) \in Int /\ InnerProduct(m, h) \in Int /\ InnerProduct(h, m) = InnerProduct(m, h)
  BY InnerProductInt, InnerProductSymmetric
<1>3. PICK a \in Int : a = -1
  OBVIOUS
<1>4. InnerProduct(Mix(a, h, 0, h), m) = a * InnerProduct(h, m) + 0 * InnerProduct(h, m)
  BY <1>3, MixProduct
<1>5. InnerProduct(Reversed(h), m) = -InnerProduct(h, m)
  BY <1>2, <1>3, <1>4 DEF Reversed
<1>6. InnerProduct(m, Reversed(h)) = InnerProduct(Reversed(h), m)
  BY <1>1, InnerProductSymmetric
<1> QED BY <1>1, <1>2, <1>5, <1>6

\* Rows without a common non-zero coordinate are orthogonal.
LEMMA DisjointProduct ==
  ASSUME NEW p \in IntRow, NEW q \in IntRow, \A c \in Coordinates : p[c] = 0 \/ q[c] = 0
  PROVE  InnerProduct(p, q) = 0
<1>1. PICK s : IsSum(s, Products(p, q), Dimension) /\ InnerProduct(p, q) = s[Dimension]
  BY InnerProductSum
<1>2. ASSUME NEW n \in 1..Dimension PROVE Products(p, q)[n] = 0
  <2>1. p[n] \in Int /\ q[n] \in Int /\ (p[n] = 0 \/ q[n] = 0)
    BY DimensionAssumption DEF IntRow, Coordinates
  <2> QED BY <2>1 DEF Products
<1> DEFINE T == {n \in 0..Dimension : s[n] = 0}
<1>3. 0 \in T
  BY <1>1, DimensionAssumption DEF IsSum
<1>4. ASSUME NEW n \in 0 .. Dimension - 1, n \in T PROVE n + 1 \in T
  <2>1. n + 1 \in 1..Dimension /\ n + 1 \in 0..Dimension /\ (n + 1) - 1 = n
    BY DimensionAssumption
  <2>2. s[n + 1] = s[n] + 0
    BY <1>1, <1>2, <2>1 DEF IsSum
  <2> QED BY <1>4, <2>1, <2>2
<1>5. 0..Dimension \subseteq T
  <2> HIDE DEF T
  <2> QED BY <1>3, <1>4, UpFromZero, DimensionAssumption
<1>6. Dimension \in 0..Dimension
  BY DimensionAssumption
<1> QED BY <1>1, <1>5, <1>6

\* A square is not negative.
LEMMA Square == \A x \in Int : x * x >= 0 /\ (x # 0 => x * x > 0)
<1>1. ASSUME NEW x \in Int, x > 0 PROVE x * x > 0
  BY <1>1
<1>2. ASSUME NEW x \in Int, x < 0 PROVE x * x > 0
  <2>1. (-x) * (-x) > 0
    BY <1>1, <1>2
  <2> QED BY <2>1
<1> QED BY <1>1, <1>2

\* A row orthogonal to itself has no non-zero coordinate.
LEMMA SelfProduct ==
  ASSUME NEW p \in IntRow, NEW d \in Coordinates, p[d] # 0
  PROVE  InnerProduct(p, p) # 0
<1>1. PICK s : IsSum(s, Products(p, p), Dimension) /\ InnerProduct(p, p) = s[Dimension]
  BY InnerProductSum
<1>2. ASSUME NEW n \in 1..Dimension
      PROVE  /\ Products(p, p)[n] \in Int /\ Products(p, p)[n] >= 0
             /\ n = d => Products(p, p)[n] > 0
  <2>1. p[n] \in Int
    BY DimensionAssumption DEF IntRow
  <2> QED BY <2>1, Square DEF Products
<1>3. d \in 1..Dimension /\ Dimension \in Nat
  BY DimensionAssumption DEF Coordinates
<1> DEFINE T == {n \in 0..Dimension : s[n] \in Int /\ s[n] >= 0 /\ (n >= d => s[n] > 0)}
<1>4. 0 \in T
  BY <1>1, <1>3 DEF IsSum
<1>5. ASSUME NEW n \in 0 .. Dimension - 1, n \in T PROVE n + 1 \in T
  <2>1. n + 1 \in 1..Dimension /\ n + 1 \in 0..Dimension /\ (n + 1) - 1 = n
    BY <1>3
  <2>2. s[n + 1] = s[n] + Products(p, p)[n + 1]
    BY <1>1, <2>1 DEF IsSum
  <2>3. n + 1 >= d => n >= d \/ n + 1 = d
    BY <1>3
  <2>4. s[n] \in Int /\ s[n] >= 0 /\ (n >= d => s[n] > 0)
    BY <1>5
  <2> QED BY <1>2, <2>1, <2>2, <2>3, <2>4
<1>6. 0..Dimension \subseteq T
  <2> HIDE DEF T
  <2> QED BY <1>4, <1>5, UpFromZero, <1>3
<1>7. Dimension \in 0..Dimension /\ Dimension >= d
  BY <1>3
<1> QED BY <1>1, <1>6, <1>7
-----------------------------------------------------------------------------
(* Fewer equations than coordinates have a solution that is not zero.      *)

\* The image of a finite set has at most as many elements.
LEMMA ImageSize ==
  ASSUME NEW S, IsFiniteSet(S), NEW f, DOMAIN f = S
  PROVE  IsFiniteSet({f[x] : x \in S}) /\ Cardinality({f[x] : x \in S}) <= Cardinality(S)
<1> DEFINE T == {f[x] : x \in S}
           g == [x \in S |-> f[x]]
<1>1. g \in Surjection(S, T)
  BY DEF Surjection
<1> HIDE DEF T, g
<1>2. IsFiniteSet(T) /\ Cardinality(T) <= Cardinality(S)
  BY <1>1, FS_Surjection
<1> QED BY <1>2 DEF T

\* The elements of the unit vectors.
LEMMA AxisAt ==
  ASSUME NEW d \in Coordinates
  PROVE  /\ Axis(d) \in IntRow /\ Axis(d)[d] = 1
         /\ \A c \in Coordinates : c # d => Axis(d)[c] = 0
<1>1. d \in 0..Dimension /\ Coordinates \subseteq 0..Dimension
  BY DimensionAssumption DEF Coordinates
<1>2. Axis(d) = [x \in 0..Dimension |-> IF x = d THEN 1 ELSE 0]
  BY DEF Axis
<1>3. Axis(d) \in IntRow
  BY AxisProduct, <1>2 DEF IntRow
<1> QED BY <1>1, <1>2, <1>3

\* A solution of the equations E that uses the first n+1 coordinates only.
Solved(E, n) ==
  \E v \in IntRow :
    /\ \E c \in Coordinates : v[c] # 0
    /\ \A c \in Coordinates : c > n + 1 => v[c] = 0
    /\ \A f \in E : InnerProduct(f, v) = 0

\* One more equation and one more coordinate: f0, which the last coordinate
\* enters, eliminates it from the others.
LEMMA SolvedNext ==
  ASSUME NEW n \in 0 .. Dimension - 2, NEW E, E \subseteq IntRow, NEW f0 \in E, f0[n + 2] # 0,
         Solved({Mix(f0[n + 2], f, -f[n + 2], f0) : f \in E \ {f0}}, n)
  PROVE  Solved(E, n + 1)
<1> DEFINE d == n + 2
           G == {Mix(f0[d], f, -f[d], f0) : f \in E \ {f0}}
<1>1. d \in Coordinates /\ n \in Int /\ d \in Int
  BY DimensionAssumption DEF Coordinates
<1>2. PICK u \in IntRow : /\ \E c \in Coordinates : u[c] # 0
                          /\ \A c \in Coordinates : c > n + 1 => u[c] = 0
                          /\ \A f \in G : InnerProduct(f, u) = 0
  BY DEF Solved
<1> DEFINE a == f0[d]
           s == InnerProduct(f0, u)
           v == Mix(a, u, -s, Axis(d))
<1>3. f0 \in IntRow /\ a \in Int /\ a # 0 /\ s \in Int /\ -s \in Int /\ Axis(d) \in IntRow
  <2>1. f0 \in IntRow
    OBVIOUS
  <2>2. f0[d] \in Int
    BY <1>1, <2>1, DimensionAssumption DEF IntRow, Coordinates
  <2>3. Axis(d) \in IntRow /\ s \in Int
    BY <1>1, <2>1, AxisProduct, InnerProductInt
  <2> QED BY <2>1, <2>2, <2>3
<1>4. v \in IntRow /\ \A c \in Coordinates : v[c] = a * u[c] + (-s) * Axis(d)[c]
  <2> HIDE DEF a, s, d
  <2> QED BY <1>3, MixRow
<1>5. ASSUME NEW f \in E PROVE InnerProduct(f, v) = 0
  <2>1. f \in IntRow /\ f[d] \in Int /\ -f[d] \in Int
    <3>1. f \in IntRow /\ d \in 0..Dimension
      BY <1>1, DimensionAssumption DEF Coordinates
    <3>2. f[d] \in Int
      BY <3>1 DEF IntRow
    <3> QED BY <3>1, <3>2
  <2>2. InnerProduct(f, v) = a * InnerProduct(f, u) + (-s) * InnerProduct(f, Axis(d))
    <3> HIDE DEF a, s, d
    <3> QED BY <1>3, <2>1, ProductMix
  <2>3. InnerProduct(f, Axis(d)) = f[d]
    BY <1>1, <2>1, AxisProduct
  <2>4. InnerProduct(f, u) \in Int
    BY <2>1, InnerProductInt
  <2>5. CASE f = f0
    <3>1. InnerProduct(f, v) = a * s + (-s) * a
      BY <2>2, <2>3, <2>5
    <3> HIDE DEF a, s, v
    <3> QED BY <1>3, <3>1
  <2>6. CASE f # f0
    <3>1. InnerProduct(Mix(a, f, -f[d], f0), u) = 0
      BY <1>2, <2>6
    <3>2. InnerProduct(Mix(a, f, -f[d], f0), u) = a * InnerProduct(f, u) + (-f[d]) * s
      <4> HIDE DEF a, d
      <4> QED BY <1>3, <2>1, MixProduct
    <3>3. a * InnerProduct(f, u) + (-f[d]) * s = a * InnerProduct(f, u) + (-s) * f[d]
      <4>1. PICK y \in Int : y = f[d]
        BY <2>1
      <4>2. (-y) * s = (-s) * y
        BY <1>3
      <4> QED BY <4>1, <4>2
    <3> QED BY <2>2, <2>3, <3>1, <3>2, <3>3
  <2> QED BY <2>5, <2>6
<1>6. PICK c \in Coordinates : u[c] # 0
  BY <1>2
<1>7. v[c] # 0
  <2>1. c \in Int /\ c \in 0..Dimension /\ u[c] \in Int
    BY DimensionAssumption DEF IntRow, Coordinates
  <2>2. c # d
    BY <1>1, <1>2, <1>6, <2>1
  <2>3. Axis(d)[c] = 0
    BY <2>1, <2>2 DEF Axis
  <2>4. v[c] = a * u[c] + (-s) * 0
    BY <1>4, <2>3
  <2> HIDE DEF a, s, v, d
  <2>5. v[c] = a * u[c]
    BY <1>3, <2>1, <2>4
  <2> QED BY <1>3, <1>6, <2>1, <2>5
<1>8. ASSUME NEW b \in Coordinates, b > d PROVE v[b] = 0
  <2>1. b \in Int /\ b \in 0..Dimension /\ b # d
    BY <1>1, <1>8, DimensionAssumption DEF Coordinates
  <2>2. u[b] = 0 /\ Axis(d)[b] = 0
    BY <1>1, <1>2, <1>8, <2>1 DEF Axis
  <2>3. v[b] = a * 0 + (-s) * 0
    BY <1>4, <2>2
  <2> HIDE DEF a, s, v, d
  <2> QED BY <1>3, <2>3
<1> HIDE DEF v
<1>9. \A b \in Coordinates : b > (n + 1) + 1 => v[b] = 0
  BY <1>1, <1>8
<1> QED BY <1>4, <1>5, <1>7, <1>9 DEF Solved

\* Elimination, one equation and one coordinate after the other.
LEMMA NullVector ==
  ASSUME NEW E, E \subseteq IntRow, IsFiniteSet(E), Cardinality(E) < Dimension
  PROVE  \E v \in IntRow : /\ \E c \in Coordinates : v[c] # 0
                           /\ \A f \in E : InnerProduct(f, v) = 0
<1> DEFINE T == {n \in 0 .. Dimension - 1 :
                   \A F \in SUBSET IntRow : IsFiniteSet(F) /\ Cardinality(F) <= n => Solved(F, n)}
<1>0. Dimension - 1 \in Nat /\ 1 \in Coordinates
  BY DimensionAssumption DEF Coordinates
<1>1. 0 \in T
  <2>1. ASSUME NEW F \in SUBSET IntRow, IsFiniteSet(F), Cardinality(F) <= 0 PROVE Solved(F, 0)
    <3>1. F = {}
      BY <2>1, FS_EmptySet, FS_CardinalityType
    <3>2. Axis(1) \in IntRow /\ Axis(1)[1] # 0
      BY <1>0, AxisAt
    <3>3. \A c \in Coordinates : c > 0 + 1 => Axis(1)[c] = 0
      BY <1>0, AxisAt DEF Coordinates
    <3> QED BY <1>0, <3>1, <3>2, <3>3 DEF Solved
  <2> QED BY <1>0, <2>1
<1>2. ASSUME NEW n \in 0 .. Dimension - 1 - 1, n \in T PROVE n + 1 \in T
  <2>0. n \in Int /\ n + 1 \in 0 .. Dimension - 1 /\ n \in 0 .. Dimension - 2 /\ n + 2 \in Coordinates
    BY <1>0, DimensionAssumption DEF Coordinates
  <2>1. ASSUME NEW F \in SUBSET IntRow, IsFiniteSet(F), Cardinality(F) <= n + 1
        PROVE  Solved(F, n + 1)
    <3>1. CASE \A f \in F : f[n + 2] = 0
      <4>1. ASSUME NEW f \in F PROVE InnerProduct(f, Axis(n + 2)) = 0
        <5>1. f \in IntRow
          OBVIOUS
        <5> QED BY <2>0, <3>1, <5>1, AxisProduct
      <4>2. Axis(n + 2) \in IntRow /\ Axis(n + 2)[n + 2] = 1
        BY <2>0, AxisAt
      <4>3. \A c \in Coordinates : c > (n + 1) + 1 => Axis(n + 2)[c] = 0
        <5>1. \A c \in Coordinates : c > (n + 1) + 1 => c # n + 2
          BY <2>0 DEF Coordinates
        <5> QED BY <2>0, <5>1, AxisAt
      <4>4. Axis(n + 2)[n + 2] # 0
        BY <4>2
      <4> QED BY <2>0, <4>1, <4>2, <4>3, <4>4 DEF Solved
    <3>2. CASE \E f \in F : f[n + 2] # 0
      <4>1. PICK f0 \in F : f0[n + 2] # 0
        BY <3>2
      <4> DEFINE D == F \ {f0}
                 g == [f \in D |-> Mix(f0[n + 2], f, -f[n + 2], f0)]
                 G == {Mix(f0[n + 2], f, -f[n + 2], f0) : f \in D}
      <4>2. IsFiniteSet(D) /\ Cardinality(D) = Cardinality(F) - 1 /\ Cardinality(F) \in Nat
        BY <2>1, FS_RemoveElement, FS_CardinalityType
      <4>3. G = {g[f] : f \in D}
        OBVIOUS
      <4>4. DOMAIN g = D
        OBVIOUS
      <4>5. ASSUME NEW f \in D PROVE Mix(f0[n + 2], f, -f[n + 2], f0) \in IntRow
        <5>1. f \in IntRow /\ f0 \in IntRow
          OBVIOUS
        <5>2. f[n + 2] \in Int /\ f0[n + 2] \in Int
          BY <2>0, <5>1, DimensionAssumption DEF IntRow, Coordinates
        <5>3. -f[n + 2] \in Int
          BY <5>2
        <5> QED BY <5>1, <5>2, <5>3, MixRow
      <4>6. G \in SUBSET IntRow
        BY <4>5
      <4> HIDE DEF G, g, D
      <4>7. IsFiniteSet(G) /\ Cardinality(G) <= Cardinality(D)
        BY <4>2, <4>3, <4>4, ImageSize
      <4>8. Cardinality(G) \in Nat /\ Cardinality(G) <= n
        BY <2>0, <2>1, <4>2, <4>7, FS_CardinalityType
      <4>9. Solved(G, n)
        BY <1>2, <4>6, <4>7, <4>8
      <4>10. Solved({Mix(f0[n + 2], f, -f[n + 2], f0) : f \in F \ {f0}}, n)
        BY <4>9 DEF G, D
      <4> QED BY <2>0, <4>1, <4>10, SolvedNext
    <3> QED BY <3>1, <3>2
  <2> QED BY <2>0, <2>1
<1>3. 0 .. Dimension - 1 \subseteq T
  <2> HIDE DEF T
  <2>1. PICK m \in Nat : m = Dimension - 1
    BY <1>0
  <2>2. 0..m \subseteq T
    <3>1. \A n \in 0 .. m - 1 : n \in T => n + 1 \in T
      BY <1>2, <2>1
    <3> QED BY <1>1, <3>1, UpFromZero
  <2> QED BY <2>1, <2>2
<1>4. Dimension - 1 \in T
  BY <1>0, <1>3
<1>5. Cardinality(E) \in Nat /\ Cardinality(E) <= Dimension - 1 /\ E \in SUBSET IntRow
  BY FS_CardinalityType, DimensionAssumption
<1>6. Solved(E, Dimension - 1)
  BY <1>4, <1>5
<1> QED BY <1>6 DEF Solved
-----------------------------------------------------------------------------
(* Moving inside a cone until one more constraint is met.                  *)

\* Ratios of positive denominators are ordered transitively.
LEMMA RatioOrder ==
  ASSUME NEW f1 \in Nat, NEW f2 \in Nat, NEW f3 \in Nat,
         NEW g1 \in Nat \ {0}, NEW g2 \in Nat \ {0}, NEW g3 \in Nat \ {0},
         f1 * g2 <= f2 * g1, f2 * g3 <= f3 * g2
  PROVE  f1 * g3 <= f3 * g1
<1>1. (f1 * g2) * g3 <= (f2 * g1) * g3
  OBVIOUS
<1>2. (f2 * g3) * g1 <= (f3 * g2) * g1
  OBVIOUS
<1>3. (f1 * g2) * g3 = g2 * (f1 * g3) /\ (f2 * g1) * g3 = (f2 * g3) * g1
        /\ (f3 * g2) * g1 = g2 * (f3 * g1)
  OBVIOUS
<1> DEFINE u == f1 * g3
           w == f3 * g1
<1>4. u \in Int /\ w \in Int /\ g2 * u <= g2 * w
  <2>1. (f1 * g2) * g3 \in Int /\ (f2 * g1) * g3 \in Int /\ (f3 * g2) * g1 \in Int
    OBVIOUS
  <2> QED BY <1>1, <1>2, <1>3, <2>1
<1> HIDE DEF u, w
<1>5. u <= w
  <2>1. g2 * (u - w) <= 0
    BY <1>4
  <2>2. u - w \in Int /\ (u - w > 0 => g2 * (u - w) > 0)
    BY <1>4
  <2> QED BY <1>4, <2>1, <2>2
<1> QED BY <1>5 DEF u, w

\* e has the least of the ratios f/g over P.
LeastRatio(e, P, f, g) == e \in P /\ \A c \in P : f[e] * g[c] <= f[c] * g[e]

\* A finite set of ratios has a least one.
LEMMA LeastRatioExists ==
  ASSUME NEW P, IsFiniteSet(P), P # {}, NEW f \in [P -> Nat], NEW g \in [P -> Nat \ {0}]
  PROVE  \E e : LeastRatio(e, P, f, g)
<1> DEFINE m == Cardinality(P)
           T == {n \in 0..m : \A Q \in SUBSET P :
                   Cardinality(Q) <= n /\ Q # {} => \E e : LeastRatio(e, Q, f, g)}
<1>0. m \in Nat /\ \A Q \in SUBSET P : IsFiniteSet(Q) /\ Cardinality(Q) \in Nat
  BY FS_CardinalityType, FS_Subset
<1>1. 0 \in T
  <2>1. \A Q \in SUBSET P : Cardinality(Q) <= 0 => Q = {}
    BY <1>0, FS_EmptySet
  <2> QED BY <1>0, <2>1
<1>2. ASSUME NEW n \in 0 .. m - 1, n \in T PROVE n + 1 \in T
  <2>1. ASSUME NEW Q \in SUBSET P, Cardinality(Q) <= n + 1, Q # {}
        PROVE  \E e : LeastRatio(e, Q, f, g)
    <3>1. PICK q \in Q : TRUE
      BY <2>1
    <3> DEFINE S == Q \ {q}
    <3>2. S \in SUBSET P /\ Cardinality(S) <= n
      <4>1. Cardinality(S) = Cardinality(Q) - 1 /\ Cardinality(Q) \in Nat
        BY <1>0, <3>1, FS_RemoveElement
      <4> QED BY <2>1, <4>1
    <3>3. CASE S = {}
      <4>1. \A c \in Q : c = q
        BY <3>1, <3>3
      <4>2. f[q] * g[q] \in Int
        BY <3>1
      <4> QED BY <3>1, <4>1, <4>2 DEF LeastRatio
    <3>4. CASE S # {}
      <4>1. PICK e : LeastRatio(e, S, f, g)
        BY <1>2, <3>2, <3>4
      <4>2. e \in Q /\ e \in P /\ q \in P
        BY <4>1 DEF LeastRatio
      <4>3. \A c \in Q : f[c] \in Nat /\ g[c] \in Nat \ {0}
        OBVIOUS
      <4>4. CASE f[e] * g[q] <= f[q] * g[e]
        <5>1. \A c \in Q : c = q \/ c \in S
          OBVIOUS
        <5> QED BY <4>1, <4>2, <4>4, <5>1 DEF LeastRatio
      <4>5. CASE f[q] * g[e] <= f[e] * g[q]
        <5>1. ASSUME NEW c \in S PROVE f[q] * g[c] <= f[c] * g[q]
          <6>1. f[e] * g[c] <= f[c] * g[e]
            BY <4>1 DEF LeastRatio
          <6>2. /\ f[e] \in Nat /\ f[c] \in Nat /\ f[q] \in Nat
                /\ g[e] \in Nat \ {0} /\ g[c] \in Nat \ {0} /\ g[q] \in Nat \ {0}
            BY <3>1, <4>2, <4>3
          <6> QED BY <4>5, <6>1, <6>2, RatioOrder
        <5>2. f[q] * g[q] <= f[q] * g[q]
          <6>1. f[q] * g[q] \in Int
            BY <3>1
          <6> QED BY <6>1
        <5>3. \A c \in Q : c = q \/ c \in S
          OBVIOUS
        <5> HIDE DEF S
        <5> QED BY <3>1, <5>1, <5>2, <5>3 DEF LeastRatio
      <4>6. f[e] * g[q] \in Int /\ f[q] * g[e] \in Int
        BY <3>1, <4>2, <4>3
      <4> QED BY <4>4, <4>5, <4>6
    <3> QED BY <3>3, <3>4
  <2> HIDE DEF m
  <2> QED BY <1>0, <2>1
<1>3. 0..m \subseteq T
  <2> HIDE DEF T, m
  <2> QED BY <1>0, <1>1, <1>2, UpFromZero
<1> QED BY <1>0, <1>3

\* Row r verifies constraint m, an equality or an inequality.
Verifies(r, m) == IF m[0] = 0 THEN InnerProduct(r, m) = 0 ELSE InnerProduct(r, m) >= 0

\* A family of constraints: rows by name, so that a constraint may be repeated.
IsFamily(A) == IsFiniteSet(DOMAIN A) /\ \A c \in DOMAIN A : A[c] \in IntRow

\* x is in their cone; the constraints x saturates.
Within(x, A) == \A c \in DOMAIN A : Verifies(x, A[c])
Zeros(x, A) == {c \in DOMAIN A : InnerProduct(x, A[c]) = 0}

\* The products of a row of the cone are integers and not negative.
LEMMA WithinProducts ==
  ASSUME NEW A, IsFamily(A), NEW x \in IntRow, NEW c \in DOMAIN A
  PROVE  /\ A[c] \in IntRow /\ InnerProduct(x, A[c]) \in Int
         /\ Within(x, A) => InnerProduct(x, A[c]) >= 0
         /\ Within(x, A) /\ A[c][0] = 0 => InnerProduct(x, A[c]) = 0
<1>1. A[c] \in IntRow
  BY DEF IsFamily
<1>2. InnerProduct(x, A[c]) \in Int
  BY <1>1, InnerProductInt
<1> QED BY <1>1, <1>2 DEF Within, Verifies

\* Against r by X0 where r is R0 from the nearest constraint: no other is left.
LEMMA StepVerifies ==
  ASSUME NEW X \in Nat, NEW R \in Int, NEW X0 \in Nat, NEW R0 \in Nat, R > 0 => X0 * R <= X * R0
  PROVE  R0 * X + (-X0) * R >= 0 /\ R0 * X + (-X0) * R \in Int
<1>1. (-X0) * R = -(X0 * R) /\ X0 * R \in Int /\ R0 * X = X * R0 /\ R0 * X \in Int
  OBVIOUS
<1>2. CASE R > 0
  BY <1>1, <1>2
<1>3. CASE R <= 0
  <2>1. X0 * R <= 0 /\ R0 * X >= 0
    BY <1>3
  <2> QED BY <1>1, <2>1
<1> QED BY <1>2, <1>3

(***************************************************************************)
(* From x in the cone, away from r: r is zero where x is, and positive     *)
(* somewhere.  The longest step that stays in the cone ends on one more of *)
(* its constraints.                                                        *)
(***************************************************************************)
LEMMA MaximalStep ==
  ASSUME NEW A, IsFamily(A), NEW x \in IntRow, NEW r \in IntRow, Within(x, A),
         Zeros(x, A) \subseteq Zeros(r, A),
         NEW e0 \in DOMAIN A, InnerProduct(r, A[e0]) > 0
  PROVE  \E a \in Nat \ {0}, b \in Nat \ {0} :
           /\ Mix(a, x, -b, r) \in IntRow /\ Within(Mix(a, x, -b, r), A)
           /\ Zeros(x, A) \subseteq Zeros(Mix(a, x, -b, r), A)
           /\ Zeros(x, A) # Zeros(Mix(a, x, -b, r), A)
<1> DEFINE P == {c \in DOMAIN A : InnerProduct(r, A[c]) > 0}
           f == [c \in P |-> InnerProduct(x, A[c])]
           g == [c \in P |-> InnerProduct(r, A[c])]
<1>1. ASSUME NEW c \in DOMAIN A
      PROVE  /\ A[c] \in IntRow /\ InnerProduct(x, A[c]) \in Nat /\ InnerProduct(r, A[c]) \in Int
             /\ InnerProduct(x, A[c]) = 0 => InnerProduct(r, A[c]) = 0
             /\ A[c][0] = 0 => InnerProduct(x, A[c]) = 0
  BY WithinProducts DEF Zeros
<1>2. IsFiniteSet(P) /\ P # {} /\ P \subseteq DOMAIN A
  <2>1. P \in SUBSET DOMAIN A /\ IsFiniteSet(DOMAIN A)
    BY DEF IsFamily
  <2> QED BY <2>1, FS_Subset
<1>3. f \in [P -> Nat] /\ g \in [P -> Nat \ {0}]
  BY <1>1
<1>4. PICK e : LeastRatio(e, P, f, g)
  <2> HIDE DEF P, f, g
  <2> QED BY <1>2, <1>3, LeastRatioExists
<1> DEFINE a == InnerProduct(r, A[e])
           b == InnerProduct(x, A[e])
           z == Mix(a, x, -b, r)
<1>5. e \in P /\ e \in DOMAIN A /\ a \in Nat \ {0} /\ b \in Nat \ {0} /\ a \in Int /\ -b \in Int
  <2>1. e \in P
    BY <1>4 DEF LeastRatio
  <2>2. a > 0 /\ e \in DOMAIN A /\ a \in Int /\ b \in Nat /\ (b = 0 => a = 0)
    BY <1>1, <2>1
  <2> HIDE DEF a, b
  <2> QED BY <2>1, <2>2
<1>6. z \in IntRow
  <2> HIDE DEF a, b
  <2> QED BY <1>5, MixRow
<1>7. ASSUME NEW c \in DOMAIN A
      PROVE  /\ InnerProduct(z, A[c]) \in Int /\ InnerProduct(z, A[c]) >= 0
             /\ InnerProduct(x, A[c]) = 0 => InnerProduct(z, A[c]) = 0
             /\ c = e => InnerProduct(z, A[c]) = 0
  <2> DEFINE X == InnerProduct(x, A[c])
             R == InnerProduct(r, A[c])
  <2>1. X \in Nat /\ R \in Int /\ (X = 0 => R = 0) /\ (c = e => R = a /\ X = b)
    BY <1>1
  <2>2. InnerProduct(z, A[c]) = a * X + (-b) * R
    <3>1. A[c] \in IntRow
      BY <1>1
    <3> HIDE DEF a, b
    <3> QED BY <1>5, <3>1, MixProduct
  <2>3. R > 0 => b * R <= X * a
    <3>1. ASSUME R > 0 PROVE b * R <= X * a
      <4>1. c \in P
        BY <3>1
      <4>2. f[e] * g[c] <= f[c] * g[e]
        BY <1>4, <4>1 DEF LeastRatio
      <4>3. f[e] = b /\ g[c] = R /\ f[c] = X /\ g[e] = a
        BY <1>5, <4>1
      <4> QED BY <4>2, <4>3
    <3> QED BY <3>1
  <2> HIDE DEF a, b, X, R, z
  <2>4. InnerProduct(z, A[c]) \in Int /\ InnerProduct(z, A[c]) >= 0
    BY <1>5, <2>1, <2>2, <2>3, StepVerifies
  <2>5. X = 0 => InnerProduct(z, A[c]) = 0
    BY <1>5, <2>1, <2>2
  <2>6. c = e => InnerProduct(z, A[c]) = 0
    BY <1>5, <2>1, <2>2
  <2> QED BY <2>4, <2>5, <2>6 DEF X
<1> HIDE DEF z
<1>8. Within(z, A)
  BY <1>1, <1>7 DEF Within, Verifies
<1>9. Zeros(x, A) \subseteq Zeros(z, A) /\ Zeros(x, A) # Zeros(z, A)
  <2>1. e \in Zeros(z, A) /\ e \notin Zeros(x, A)
    BY <1>5, <1>7 DEF Zeros
  <2> QED BY <1>7, <2>1 DEF Zeros
<1> QED BY <1>5, <1>6, <1>8, <1>9 DEF z

\* Among the rows B, one that saturates a set no other strictly contains.
LEMMA MostSaturated ==
  ASSUME NEW A, IsFamily(A), NEW B, B # {}
  PROVE  \E x \in B : \A z \in B : Zeros(x, A) \subseteq Zeros(z, A) => Zeros(x, A) = Zeros(z, A)
<1> DEFINE left(x) == DOMAIN A \ Zeros(x, A)
           S == {n \in Nat : \E x \in B : n = Cardinality(left(x))}
<1>1. \A x : left(x) \in SUBSET DOMAIN A /\ IsFiniteSet(left(x)) /\ Cardinality(left(x)) \in Nat
  <2>1. \A x : left(x) \in SUBSET DOMAIN A
    OBVIOUS
  <2> QED BY <2>1, FS_Subset, FS_CardinalityType DEF IsFamily
<1>2. S # {} /\ S \subseteq Nat
  <2>1. PICK x \in B : TRUE
    OBVIOUS
  <2> QED BY <1>1, <2>1
<1>3. PICK n \in S : \A y \in S : n <= y
  <2> HIDE DEF S
  <2> QED BY <1>2, LeastElement
<1>4. PICK x \in B : n = Cardinality(left(x))
  BY <1>3
<1>5. ASSUME NEW z \in B, Zeros(x, A) \subseteq Zeros(z, A) PROVE Zeros(x, A) = Zeros(z, A)
  <2>1. left(z) \in SUBSET left(x)
    BY <1>5
  <2>2. Cardinality(left(z)) \in S
    BY <1>1
  <2>3. Cardinality(left(x)) <= Cardinality(left(z))
    BY <1>3, <1>4, <2>2
  <2> HIDE DEF left
  <2>4. Cardinality(left(z)) <= Cardinality(left(x)) /\ (Cardinality(left(x)) = Cardinality(left(z)) => left(x) = left(z))
    BY <1>1, <2>1, FS_Subset
  <2>5. left(x) = left(z)
    BY <1>1, <2>3, <2>4
  <2> QED BY <2>5 DEF left, Zeros
<1> QED BY <1>5
-----------------------------------------------------------------------------
(* The rays and lines of a cone.                                           *)

\* Every vector of the cone but those of its lineality space has a ray on all
\* the constraints it saturates,
Covers(A, R, N) ==
  \A x \in IntRow : Within(x, A) =>
    Zeros(x, A) = DOMAIN A \/ \E n \in N : Zeros(x, A) \subseteq Zeros(R[n], A)

\* the rays are in the cone, not in its lineality space, and none is on all the
\* constraints another one saturates,
Extreme(A, R, N) ==
  \A n \in N : /\ R[n] \in IntRow /\ Within(R[n], A) /\ Zeros(R[n], A) # DOMAIN A
               /\ \A m \in N : Zeros(R[n], A) \subseteq Zeros(R[m], A) => m = n

\* and what is orthogonal to the lines is orthogonal to the lineality space: the
\* lines span it.
LinesSpan(A, R, P) ==
  \A z \in IntRow, v \in IntRow :
    Zeros(z, A) = DOMAIN A /\ (\A n \in P : InnerProduct(v, R[n]) = 0) => InnerProduct(v, z) = 0

\* The rows P of R are the lines and the rows N the rays of the cone of A.
Describes(A, R, P, N) ==
  /\ IsFamily(A) /\ IsFiniteSet(P) /\ \A n \in P : R[n] \in IntRow
  /\ Covers(A, R, N) /\ Extreme(A, R, N) /\ LinesSpan(A, R, P)

\* All the lines saturate the constraint h.
Level(h, R, P) == \A n \in P : InnerProduct(h, R[n]) = 0

\* Then so does the lineality space.
LEMMA LinealityLevel ==
  ASSUME NEW A, NEW R, NEW P, NEW N, Describes(A, R, P, N), NEW h \in IntRow, Level(h, R, P),
         NEW z \in IntRow, Zeros(z, A) = DOMAIN A
  PROVE  InnerProduct(z, h) = 0
<1>1. InnerProduct(h, z) = 0
  BY DEF Describes, LinesSpan, Level
<1> QED BY <1>1, InnerProductSymmetric

\* Reversing the constraint changes none of that.
LEMMA LevelReversed ==
  ASSUME NEW R, NEW P, \A n \in P : R[n] \in IntRow, NEW h \in IntRow, Level(h, R, P)
  PROVE  Level(Reversed(h), R, P)
<1>1. ASSUME NEW n \in P PROVE InnerProduct(Reversed(h), R[n]) = 0
  <2>1. R[n] \in IntRow /\ InnerProduct(h, R[n]) = 0
    BY DEF Level
  <2>2. InnerProduct(Reversed(h), R[n]) = -InnerProduct(h, R[n])
    BY <2>1, ReversedProduct
  <2>3. \A y \in Int, w \in Int : w = -y => w + y = 0
    OBVIOUS
  <2>4. InnerProduct(h, R[n]) \in Int /\ InnerProduct(Reversed(h), R[n]) \in Int
    BY <2>1, ReversedProduct, InnerProductInt
  <2>5. InnerProduct(Reversed(h), R[n]) + InnerProduct(h, R[n]) = 0
    BY <2>2, <2>3, <2>4
  <2> QED BY <2>1, <2>4, <2>5
<1> QED BY <1>1 DEF Level

\* A ray that is not in the lineality space can be moved away from: it is
\* positive somewhere.
LEMMA NotInLineality ==
  ASSUME NEW A, IsFamily(A), NEW r \in IntRow, Within(r, A), Zeros(r, A) # DOMAIN A
  PROVE  \E e \in DOMAIN A : InnerProduct(r, A[e]) > 0
<1>1. PICK e \in DOMAIN A : InnerProduct(r, A[e]) # 0
  BY DEF Zeros
<1>2. InnerProduct(r, A[e]) \in Int /\ InnerProduct(r, A[e]) >= 0
  BY WithinProducts
<1> QED BY <1>1, <1>2

\* A negative product less a positive multiple of one that is not negative.
LEMMA StaysNegative ==
  ASSUME NEW a \in Nat \ {0}, NEW b \in Nat \ {0}, NEW x \in Int, NEW r \in Int
  PROVE  /\ x < 0 /\ r >= 0 => a * x + (-b) * r < 0
         /\ x = 0 /\ r > 0 => a * x + (-b) * r < 0
         /\ x = 0 /\ r < 0 => a * x + (-b) * r > 0
<1>1. (x < 0 => a * x < 0) /\ (x = 0 => a * x = 0) /\ a * x \in Int
  OBVIOUS
<1>2. (r >= 0 => (-b) * r <= 0) /\ (r > 0 => (-b) * r < 0) /\ (r < 0 => (-b) * r > 0) /\ (-b) * r \in Int
  OBVIOUS
<1> QED BY <1>1, <1>2

(***************************************************************************)
(* A vector of the cone that violates h lies on the face of a ray that     *)
(* violates it: take one with the most saturated constraints among those   *)
(* for which there is none, and move it away from a ray that does not      *)
(* violate h.                                                              *)
(***************************************************************************)
LEMMA NegativeRay ==
  ASSUME NEW A, NEW R, NEW P, NEW N, Describes(A, R, P, N), NEW h \in IntRow, Level(h, R, P),
         NEW x \in IntRow, Within(x, A), InnerProduct(x, h) < 0
  PROVE  \E n \in N : Zeros(x, A) \subseteq Zeros(R[n], A) /\ InnerProduct(R[n], h) < 0
<1> DEFINE found(y) == \E n \in N : Zeros(y, A) \subseteq Zeros(R[n], A) /\ InnerProduct(R[n], h) < 0
           B == {y \in IntRow : Within(y, A) /\ InnerProduct(y, h) < 0 /\ ~found(y)}
<1>1. SUFFICES ASSUME B # {} PROVE FALSE
  OBVIOUS
<1>2. IsFamily(A)
  BY DEF Describes
<1>3. PICK y \in B : \A z \in B : Zeros(y, A) \subseteq Zeros(z, A) => Zeros(y, A) = Zeros(z, A)
  <2> HIDE DEF B
  <2> QED BY <1>1, <1>2, MostSaturated
<1>4. y \in IntRow /\ Within(y, A) /\ InnerProduct(y, h) \in Int /\ InnerProduct(y, h) < 0
  BY InnerProductInt
<1>5. Zeros(y, A) # DOMAIN A
  BY <1>4, LinealityLevel
<1>6. PICK n \in N : Zeros(y, A) \subseteq Zeros(R[n], A)
  BY <1>4, <1>5 DEF Describes, Covers
<1>7. R[n] \in IntRow /\ Within(R[n], A) /\ Zeros(R[n], A) # DOMAIN A
  BY DEF Describes, Extreme
<1>8. InnerProduct(R[n], h) \in Int /\ InnerProduct(R[n], h) >= 0
  BY <1>3, <1>6, <1>7, InnerProductInt
<1>9. PICK e \in DOMAIN A : InnerProduct(R[n], A[e]) > 0
  BY <1>2, <1>7, NotInLineality
<1>10. PICK a \in Nat \ {0}, b \in Nat \ {0} :
         /\ Mix(a, y, -b, R[n]) \in IntRow /\ Within(Mix(a, y, -b, R[n]), A)
         /\ Zeros(y, A) \subseteq Zeros(Mix(a, y, -b, R[n]), A)
         /\ Zeros(y, A) # Zeros(Mix(a, y, -b, R[n]), A)
  BY <1>2, <1>4, <1>6, <1>7, <1>9, MaximalStep
<1> DEFINE z == Mix(a, y, -b, R[n])
<1>11. InnerProduct(z, h) < 0
  <2>1. InnerProduct(z, h) = a * InnerProduct(y, h) + (-b) * InnerProduct(R[n], h)
    <3>1. a \in Int /\ -b \in Int
      OBVIOUS
    <3> QED BY <1>4, <1>7, <3>1, MixProduct
  <2> QED BY <1>4, <1>8, <2>1, StaysNegative
<1>12. z \notin B
  BY <1>3, <1>10
<1>13. PICK m \in N : Zeros(z, A) \subseteq Zeros(R[m], A) /\ InnerProduct(R[m], h) < 0
  <2> HIDE DEF z
  <2> QED BY <1>10, <1>11, <1>12 DEF z
<1>14. Zeros(y, A) \subseteq Zeros(R[m], A)
  BY <1>10, <1>13
<1> QED BY <1>13, <1>14

\* The same on the other side.
LEMMA PositiveRay ==
  ASSUME NEW A, NEW R, NEW P, NEW N, Describes(A, R, P, N), NEW h \in IntRow, Level(h, R, P),
         NEW x \in IntRow, Within(x, A), InnerProduct(x, h) > 0
  PROVE  \E n \in N : Zeros(x, A) \subseteq Zeros(R[n], A) /\ InnerProduct(R[n], h) > 0
<1> DEFINE g == Reversed(h)
<1>1. g \in IntRow /\ Level(g, R, P)
  BY ReversedProduct, LevelReversed DEF Describes
<1>2. InnerProduct(x, g) < 0
  BY ReversedProduct, InnerProductInt
<1> HIDE DEF g
<1>3. PICK n \in N : Zeros(x, A) \subseteq Zeros(R[n], A) /\ InnerProduct(R[n], g) < 0
  BY <1>1, <1>2, NegativeRay
<1>4. R[n] \in IntRow
  BY DEF Describes, Extreme
<1>5. InnerProduct(R[n], g) = -InnerProduct(R[n], h) /\ InnerProduct(R[n], h) \in Int
  BY <1>4, ReversedProduct, InnerProductInt DEF g
<1> QED BY <1>3, <1>5

\* A vector on the hyperplane of h lies on the face of a ray on it, or of one
\* ray on each side.
LEMMA Straddled ==
  ASSUME NEW A, NEW R, NEW P, NEW N, Describes(A, R, P, N), NEW h \in IntRow, Level(h, R, P),
         NEW x \in IntRow, Within(x, A), Zeros(x, A) # DOMAIN A, InnerProduct(x, h) = 0
  PROVE  \/ \E n \in N : Zeros(x, A) \subseteq Zeros(R[n], A) /\ InnerProduct(R[n], h) = 0
         \/ \E p \in N, q \in N :
              /\ Zeros(x, A) \subseteq Zeros(R[p], A) /\ InnerProduct(R[p], h) > 0
              /\ Zeros(x, A) \subseteq Zeros(R[q], A) /\ InnerProduct(R[q], h) < 0
<1>1. PICK n \in N : Zeros(x, A) \subseteq Zeros(R[n], A)
  BY DEF Describes, Covers
<1>2. R[n] \in IntRow /\ Within(R[n], A) /\ Zeros(R[n], A) # DOMAIN A /\ IsFamily(A)
  BY DEF Describes, Extreme
<1>3. InnerProduct(R[n], h) \in Int
  BY <1>2, InnerProductInt
<1>4. PICK e \in DOMAIN A : InnerProduct(R[n], A[e]) > 0
  BY <1>2, NotInLineality
<1>5. PICK a \in Nat \ {0}, b \in Nat \ {0} :
         /\ Mix(a, x, -b, R[n]) \in IntRow /\ Within(Mix(a, x, -b, R[n]), A)
         /\ Zeros(x, A) \subseteq Zeros(Mix(a, x, -b, R[n]), A)
  BY <1>1, <1>2, <1>4, MaximalStep
<1> DEFINE z == Mix(a, x, -b, R[n])
<1>6. InnerProduct(z, h) = a * 0 + (-b) * InnerProduct(R[n], h)
  <2>1. a \in Int /\ -b \in Int
    OBVIOUS
  <2> QED BY <1>2, <2>1, MixProduct
<1>7. (InnerProduct(R[n], h) > 0 => InnerProduct(z, h) < 0) /\ (InnerProduct(R[n], h) < 0 => InnerProduct(z, h) > 0)
  <2>1. 0 \in Int
    OBVIOUS
  <2> QED BY <1>3, <1>6, <2>1, StaysNegative
<1>8. z \in IntRow /\ Within(z, A) /\ Zeros(x, A) \subseteq Zeros(z, A)
  BY <1>5
<1> HIDE DEF z
<1>9. CASE InnerProduct(R[n], h) = 0
  BY <1>1, <1>9
<1>10. CASE InnerProduct(R[n], h) > 0
  <2>1. PICK q \in N : Zeros(z, A) \subseteq Zeros(R[q], A) /\ InnerProduct(R[q], h) < 0
    BY <1>7, <1>8, <1>10, NegativeRay
  <2> QED BY <1>1, <1>8, <1>10, <2>1
<1>11. CASE InnerProduct(R[n], h) < 0
  <2>1. PICK p \in N : Zeros(z, A) \subseteq Zeros(R[p], A) /\ InnerProduct(R[p], h) > 0
    BY <1>7, <1>8, <1>11, PositiveRay
  <2> QED BY <1>1, <1>8, <1>11, <2>1
<1> QED BY <1>3, <1>9, <1>10, <1>11
-----------------------------------------------------------------------------
(* Two rays on either side of a constraint, and what is on their face.     *)

\* The combination of x and y, on either side of h, that saturates it.
Meet(x, y, h) == Mix(-InnerProduct(y, h), x, InnerProduct(x, h), y)

\* A positive combination is zero only where both terms are.
LEMMA PositiveSum ==
  ASSUME NEW a \in Nat \ {0}, NEW b \in Nat \ {0}, NEW x \in Nat, NEW y \in Nat
  PROVE  a * x + b * y \in Nat /\ (a * x + b * y = 0 <=> x = 0 /\ y = 0)
<1>1. a * x \in Nat /\ b * y \in Nat /\ (a * x = 0 <=> x = 0) /\ (b * y = 0 <=> y = 0)
  OBVIOUS
<1> QED BY <1>1

\* It is in the cone, on h, and saturates what both saturate.
LEMMA MeetIs ==
  ASSUME NEW A, IsFamily(A), NEW h \in IntRow, NEW x \in IntRow, NEW y \in IntRow,
         Within(x, A), Within(y, A), InnerProduct(x, h) > 0, InnerProduct(y, h) < 0
  PROVE  /\ Meet(x, y, h) \in IntRow /\ Within(Meet(x, y, h), A)
         /\ InnerProduct(Meet(x, y, h), h) = 0
         /\ Zeros(Meet(x, y, h), A) = Zeros(x, A) \cap Zeros(y, A)
<1>1. InnerProduct(x, h) \in Int /\ InnerProduct(y, h) \in Int
  BY InnerProductInt
<1>2. PICK a \in Nat \ {0} : a = -InnerProduct(y, h)
  BY <1>1
<1>3. PICK b \in Nat \ {0} : b = InnerProduct(x, h)
  BY <1>1
<1> DEFINE z == Mix(a, x, b, y)
<1>4. Meet(x, y, h) = z
  BY <1>2, <1>3 DEF Meet
<1>5. z \in IntRow /\ \A m \in IntRow : InnerProduct(z, m) = a * InnerProduct(x, m) + b * InnerProduct(y, m)
  <2>1. a \in Int /\ b \in Int
    OBVIOUS
  <2>2. z \in IntRow
    BY <2>1, MixRow
  <2>3. ASSUME NEW m \in IntRow PROVE InnerProduct(z, m) = a * InnerProduct(x, m) + b * InnerProduct(y, m)
    BY <2>1, MixProduct
  <2> QED BY <2>2, <2>3
<1> HIDE DEF z
<1>6. InnerProduct(z, h) = 0
  <2>1. InnerProduct(z, h) = a * b + b * InnerProduct(y, h)
    BY <1>3, <1>5
  <2>2. InnerProduct(y, h) = -a
    BY <1>1, <1>2
  <2>3. a * b + b * (-a) = 0
    OBVIOUS
  <2> QED BY <2>1, <2>2, <2>3
<1>7. ASSUME NEW c \in DOMAIN A
      PROVE  /\ InnerProduct(z, A[c]) \in Nat
             /\ InnerProduct(z, A[c]) = 0 <=> InnerProduct(x, A[c]) = 0 /\ InnerProduct(y, A[c]) = 0
             /\ A[c][0] = 0 => InnerProduct(z, A[c]) = 0
  <2>1. /\ A[c] \in IntRow /\ InnerProduct(x, A[c]) \in Nat /\ InnerProduct(y, A[c]) \in Nat
        /\ A[c][0] = 0 => InnerProduct(x, A[c]) = 0 /\ InnerProduct(y, A[c]) = 0
    BY WithinProducts
  <2>2. InnerProduct(z, A[c]) = a * InnerProduct(x, A[c]) + b * InnerProduct(y, A[c])
    BY <1>5, <2>1
  <2> QED BY <2>1, <2>2, PositiveSum
<1>8. Within(z, A)
  BY <1>7 DEF Within, Verifies
<1>9. Zeros(z, A) = Zeros(x, A) \cap Zeros(y, A)
  BY <1>7 DEF Zeros
<1> QED BY <1>4, <1>5, <1>6, <1>8, <1>9

\* Where two combinations that share y cancel, x and z vanish together.
LEMMA Cancelled ==
  ASSUME NEW a \in Nat \ {0}, NEW b \in Nat \ {0}, NEW g \in Nat \ {0}, NEW s \in Nat \ {0},
         NEW t \in Nat \ {0}, NEW x \in Nat, NEW y \in Nat, NEW z \in Nat,
         a * (g * x + s * y) + (-b) * (g * z + t * y) = 0
  PROVE  /\ a * s >= b * t => (z = 0 => x = 0)
         /\ b * t >= a * s => (x = 0 => z = 0)
<1> DEFINE u == a * s
           v == b * t
<1>1. u \in Nat /\ v \in Nat /\ a * g \in Nat \ {0} /\ b * g \in Nat \ {0}
  OBVIOUS
<1>2. (a * g) * x + u * y = (b * g) * z + v * y
  <2>1. a * (g * x + s * y) = (a * g) * x + (a * s) * y
    OBVIOUS
  <2>2. (-b) * (g * z + t * y) = -((b * g) * z + (b * t) * y)
    OBVIOUS
  <2>3. (a * g) * x + (a * s) * y \in Int /\ (b * g) * z + (b * t) * y \in Int
    OBVIOUS
  <2> QED BY <2>1, <2>2, <2>3
<1>3. ASSUME u >= v, z = 0 PROVE x = 0
  <2>1. (a * g) * x + (u - v) * y = 0
    <3>1. (b * g) * z = 0 /\ (u - v) * y = u * y - v * y /\ u * y \in Int /\ v * y \in Int
      BY <1>1, <1>3
    <3>2. (a * g) * x \in Int
      OBVIOUS
    <3> HIDE DEF u, v
    <3> QED BY <1>1, <1>2, <3>1, <3>2
  <2>2. (u - v) * y >= 0 /\ (a * g) * x >= 0 /\ (u - v) * y \in Int /\ (a * g) * x \in Int
    <3> HIDE DEF u, v
    <3> QED BY <1>1, <1>3
  <2>3. (a * g) * x = 0
    BY <2>1, <2>2
  <2> QED BY <1>1, <2>3
<1>4. ASSUME v >= u, x = 0 PROVE z = 0
  <2>1. (b * g) * z + (v - u) * y = 0
    <3>1. (a * g) * x = 0 /\ (v - u) * y = v * y - u * y /\ u * y \in Int /\ v * y \in Int
      BY <1>1, <1>4
    <3>2. (b * g) * z \in Int
      OBVIOUS
    <3> HIDE DEF u, v
    <3> QED BY <1>1, <1>2, <3>1, <3>2
  <2>2. (v - u) * y >= 0 /\ (b * g) * z >= 0 /\ (v - u) * y \in Int /\ (b * g) * z \in Int
    <3> HIDE DEF u, v
    <3> QED BY <1>1, <1>4
  <2>3. (b * g) * z = 0
    BY <2>1, <2>2
  <2> QED BY <1>1, <2>3
<1> QED BY <1>3, <1>4

\* A vector of the cone on h, not in the lineality space, that saturates S and
\* more than S.
Beyond(S, A, h) ==
  \E z \in IntRow : /\ Within(z, A) /\ Zeros(z, A) # DOMAIN A /\ InnerProduct(z, h) = 0
                    /\ S \subseteq Zeros(z, A) /\ S # Zeros(z, A)

(***************************************************************************)
(* If a third ray m saturates what p and q both saturate, the face of p    *)
(* and q is not the smallest on h: the combinations of p and m with q are  *)
(* different, and moving from one away from the other leaves the cone      *)
(* through one more constraint.                                            *)
(***************************************************************************)
LEMMA ThirdRayPositive ==
  ASSUME NEW A, NEW R, NEW N, IsFamily(A), Extreme(A, R, N), NEW h \in IntRow,
         NEW p \in N, NEW q \in N, NEW m \in N, m # p,
         InnerProduct(R[p], h) > 0, InnerProduct(R[q], h) < 0, InnerProduct(R[m], h) > 0,
         Zeros(R[p], A) \cap Zeros(R[q], A) \subseteq Zeros(R[m], A)
  PROVE  Beyond(Zeros(R[p], A) \cap Zeros(R[q], A), A, h)
<1>1. \A n \in N : R[n] \in IntRow /\ Within(R[n], A) /\ Zeros(R[n], A) # DOMAIN A
  BY DEF Extreme
<1> DEFINE w == Meet(R[p], R[q], h)
           u == Meet(R[m], R[q], h)
<1>2. /\ w \in IntRow /\ Within(w, A) /\ InnerProduct(w, h) = 0
      /\ Zeros(w, A) = Zeros(R[p], A) \cap Zeros(R[q], A)
  BY <1>1, MeetIs
<1>3. /\ u \in IntRow /\ Within(u, A) /\ InnerProduct(u, h) = 0
      /\ Zeros(u, A) = Zeros(R[m], A) \cap Zeros(R[q], A)
  BY <1>1, MeetIs
<1>4. Zeros(w, A) \subseteq Zeros(u, A) /\ Zeros(u, A) # DOMAIN A
  <2>1. Zeros(R[q], A) # DOMAIN A /\ Zeros(R[q], A) \subseteq DOMAIN A
    BY <1>1 DEF Zeros
  <2> QED BY <1>2, <1>3, <2>1
<1> HIDE DEF w, u
<1>5. PICK e \in DOMAIN A : InnerProduct(u, A[e]) > 0
  BY <1>3, <1>4, NotInLineality
<1>6. PICK a \in Nat \ {0}, b \in Nat \ {0} :
         /\ Mix(a, w, -b, u) \in IntRow /\ Within(Mix(a, w, -b, u), A)
         /\ Zeros(w, A) \subseteq Zeros(Mix(a, w, -b, u), A)
         /\ Zeros(w, A) # Zeros(Mix(a, w, -b, u), A)
  <2>1. w \in IntRow /\ u \in IntRow /\ Within(w, A) /\ Zeros(w, A) \subseteq Zeros(u, A)
    BY <1>2, <1>3, <1>4
  <2> QED BY <1>5, <2>1, MaximalStep
<1> DEFINE z == Mix(a, w, -b, u)
<1>7. \A c \in IntRow : InnerProduct(z, c) = a * InnerProduct(w, c) + (-b) * InnerProduct(u, c)
  <2>1. a \in Int /\ -b \in Int
    OBVIOUS
  <2> QED BY <1>2, <1>3, <2>1, MixProduct
<1> HIDE DEF z
<1>8. InnerProduct(z, h) = 0
  <2>1. InnerProduct(z, h) = a * 0 + (-b) * 0
    BY <1>2, <1>3, <1>7
  <2> QED BY <2>1
<1>9. PICK g \in Nat \ {0}, s \in Nat \ {0}, t \in Nat \ {0} :
        g = -InnerProduct(R[q], h) /\ s = InnerProduct(R[p], h) /\ t = InnerProduct(R[m], h)
  <2>1. InnerProduct(R[q], h) \in Int /\ InnerProduct(R[p], h) \in Int /\ InnerProduct(R[m], h) \in Int
    BY <1>1, InnerProductInt
  <2> QED BY <2>1
<1>10. Zeros(z, A) # DOMAIN A
  <2>1. SUFFICES ASSUME Zeros(z, A) = DOMAIN A PROVE FALSE
    OBVIOUS
  <2>2. ASSUME NEW c \in DOMAIN A
        PROVE  /\ a * s >= b * t => (InnerProduct(R[m], A[c]) = 0 => InnerProduct(R[p], A[c]) = 0)
               /\ b * t >= a * s => (InnerProduct(R[p], A[c]) = 0 => InnerProduct(R[m], A[c]) = 0)
    <3>0. A[c] \in IntRow
      BY DEF IsFamily
    <3>1. /\ A[c] \in IntRow /\ InnerProduct(R[p], A[c]) \in Nat
          /\ InnerProduct(R[q], A[c]) \in Nat /\ InnerProduct(R[m], A[c]) \in Nat
      BY <1>1, WithinProducts
    <3>2. g \in Int /\ s \in Int /\ t \in Int
      OBVIOUS
    <3>3. InnerProduct(w, A[c]) = g * InnerProduct(R[p], A[c]) + s * InnerProduct(R[q], A[c])
      <4>1. w = Mix(g, R[p], s, R[q])
        BY <1>9 DEF w, Meet
      <4>2. R[p] \in IntRow /\ R[q] \in IntRow
        BY <1>1
      <4>3. InnerProduct(Mix(g, R[p], s, R[q]), A[c]) = g * InnerProduct(R[p], A[c]) + s * InnerProduct(R[q], A[c])
        BY <3>0, <3>2, <4>2, MixProduct
      <4> QED BY <4>1, <4>3
    <3>4. InnerProduct(u, A[c]) = g * InnerProduct(R[m], A[c]) + t * InnerProduct(R[q], A[c])
      <4>1. u = Mix(g, R[m], t, R[q])
        BY <1>9 DEF u, Meet
      <4>2. R[m] \in IntRow /\ R[q] \in IntRow
        BY <1>1
      <4>3. InnerProduct(Mix(g, R[m], t, R[q]), A[c]) = g * InnerProduct(R[m], A[c]) + t * InnerProduct(R[q], A[c])
        BY <3>0, <3>2, <4>2, MixProduct
      <4> QED BY <4>1, <4>3
    <3>5. InnerProduct(z, A[c]) = 0
      BY <2>1 DEF Zeros
    <3>6. a * InnerProduct(w, A[c]) + (-b) * InnerProduct(u, A[c]) = 0
      BY <1>7, <3>1, <3>5
    <3>7. PICK x \in Nat, y \in Nat, k \in Nat :
            x = InnerProduct(R[p], A[c]) /\ y = InnerProduct(R[q], A[c]) /\ k = InnerProduct(R[m], A[c])
      BY <3>1
    <3>8. a * (g * x + s * y) + (-b) * (g * k + t * y) = 0
      BY <3>3, <3>4, <3>6, <3>7
    <3>9. /\ a * s >= b * t => (k = 0 => x = 0)
          /\ b * t >= a * s => (x = 0 => k = 0)
      BY <3>8, Cancelled
    <3> QED BY <3>7, <3>9
  <2>3. a * s \in Int /\ b * t \in Int
    OBVIOUS
  <2>4. CASE a * s >= b * t
    <3>1. Zeros(R[m], A) \subseteq Zeros(R[p], A)
      BY <2>2, <2>4 DEF Zeros
    <3> QED BY <3>1 DEF Extreme
  <2>5. CASE b * t >= a * s
    <3>1. Zeros(R[p], A) \subseteq Zeros(R[m], A)
      BY <2>2, <2>5 DEF Zeros
    <3> QED BY <3>1 DEF Extreme
  <2> QED BY <2>3, <2>4, <2>5
<1>11. z \in IntRow /\ Within(z, A) /\ Zeros(w, A) \subseteq Zeros(z, A) /\ Zeros(w, A) # Zeros(z, A)
  BY <1>6 DEF z
<1> QED BY <1>2, <1>8, <1>10, <1>11 DEF Beyond

\* The same when m is on the side of q.
LEMMA ThirdRayNegative ==
  ASSUME NEW A, NEW R, NEW N, IsFamily(A), Extreme(A, R, N), NEW h \in IntRow,
         NEW p \in N, NEW q \in N, NEW m \in N, m # q,
         InnerProduct(R[p], h) > 0, InnerProduct(R[q], h) < 0, InnerProduct(R[m], h) < 0,
         Zeros(R[p], A) \cap Zeros(R[q], A) \subseteq Zeros(R[m], A)
  PROVE  Beyond(Zeros(R[p], A) \cap Zeros(R[q], A), A, h)
<1> DEFINE g == Reversed(h)
           S == Zeros(R[p], A) \cap Zeros(R[q], A)
<1>1. g \in IntRow /\ \A x \in IntRow : InnerProduct(x, g) = -InnerProduct(x, h) /\ InnerProduct(x, h) \in Int
  BY ReversedProduct, InnerProductInt
<1>2. R[p] \in IntRow /\ R[q] \in IntRow /\ R[m] \in IntRow
  BY DEF Extreme
<1> HIDE DEF g
<1>3. InnerProduct(R[p], g) < 0 /\ InnerProduct(R[q], g) > 0 /\ InnerProduct(R[m], g) > 0
  BY <1>1, <1>2
<1>4. S = Zeros(R[q], A) \cap Zeros(R[p], A) /\ Zeros(R[q], A) \cap Zeros(R[p], A) \subseteq Zeros(R[m], A)
  OBVIOUS
<1>5. Beyond(Zeros(R[q], A) \cap Zeros(R[p], A), A, g)
  BY <1>1, <1>3, <1>4, ThirdRayPositive
<1>6. \A x \in IntRow : InnerProduct(x, g) = 0 => InnerProduct(x, h) = 0
  <2>1. \A y \in Int, w \in Int : w = -y => w + y = 0
    OBVIOUS
  <2>2. \A x \in IntRow : InnerProduct(x, g) \in Int
    BY <1>1, InnerProductInt
  <2>3. \A x \in IntRow : InnerProduct(x, g) + InnerProduct(x, h) = 0
    BY <1>1, <2>1, <2>2
  <2> QED BY <1>1, <2>3
<1> QED BY <1>4, <1>5, <1>6 DEF Beyond

\* Reversing a row keeps what it is orthogonal to, and that it is not zero.
LEMMA ReversedOrthogonal ==
  ASSUME NEW E, E \subseteq IntRow, NEW v \in IntRow, \A f \in E : InnerProduct(f, v) = 0
  PROVE  /\ \A f \in E : InnerProduct(f, Reversed(v)) = 0
         /\ InnerProduct(v, v) # 0 => InnerProduct(Reversed(v), Reversed(v)) # 0
<1>1. \A y \in Int, w \in Int : w = -y => w + y = 0
  OBVIOUS
<1>2. ASSUME NEW f \in E PROVE InnerProduct(f, Reversed(v)) = 0
  <2>1. f \in IntRow /\ InnerProduct(f, v) = 0
    OBVIOUS
  <2>2. InnerProduct(f, Reversed(v)) = -InnerProduct(f, v) /\ InnerProduct(f, Reversed(v)) \in Int
    BY <2>1, ReversedProduct, InnerProductInt
  <2>3. InnerProduct(f, Reversed(v)) + InnerProduct(f, v) = 0
    BY <1>1, <2>1, <2>2
  <2>4. InnerProduct(f, Reversed(v)) \in Int
    BY <2>2
  <2> QED BY <2>1, <2>3, <2>4
<1>3. ASSUME InnerProduct(v, v) # 0 PROVE InnerProduct(Reversed(v), Reversed(v)) # 0
  <2>1. Reversed(v) \in IntRow
    BY ReversedProduct
  <2>2. InnerProduct(v, v) \in Int /\ InnerProduct(v, Reversed(v)) = -InnerProduct(v, v)
    BY ReversedProduct, InnerProductInt
  <2>3. InnerProduct(Reversed(v), Reversed(v)) = -InnerProduct(v, Reversed(v))
    BY <2>1, ReversedProduct
  <2>4. PICK y \in Int : y = InnerProduct(v, v) /\ y # 0
    BY <1>3, <2>2
  <2>5. InnerProduct(Reversed(v), Reversed(v)) = -(-y)
    BY <2>2, <2>3, <2>4
  <2> QED BY <2>4, <2>5
<1> QED BY <1>2, <1>3

\* The size of a union is at most the sum of the sizes.
LEMMA UnionSize ==
  ASSUME NEW S, IsFiniteSet(S), NEW T, IsFiniteSet(T)
  PROVE  IsFiniteSet(S \cup T) /\ Cardinality(S \cup T) <= Cardinality(S) + Cardinality(T)
<1>1. /\ IsFiniteSet(S \cup T)
      /\ Cardinality(S \cup T) = Cardinality(S) + Cardinality(T) - Cardinality(S \cap T)
  BY FS_Union
<1>2. S \cap T \in SUBSET S /\ IsFiniteSet(S \cap T)
  BY FS_Intersection
<1>3. Cardinality(S) \in Nat /\ Cardinality(T) \in Nat /\ Cardinality(S \cap T) \in Nat
  BY <1>2, FS_CardinalityType
<1> QED BY <1>1, <1>3

(***************************************************************************)
(* A vector on too few constraints shares its face: there is a direction   *)
(* orthogonal to them, to the lines, to h and to the vector itself, along  *)
(* which to move to one more constraint.                                   *)
(***************************************************************************)
LEMMA FewConstraints ==
  ASSUME NEW A, NEW R, NEW P, NEW N, Describes(A, R, P, N), NEW h \in IntRow,
         NEW w \in IntRow, Within(w, A), InnerProduct(w, h) = 0, Zeros(w, A) # DOMAIN A,
         Cardinality(Zeros(w, A)) + Cardinality(P) < Dimension - 2
  PROVE  Beyond(Zeros(w, A), A, h)
<1> DEFINE S == Zeros(w, A)
           E1 == {[d \in S |-> A[d]][c] : c \in S}
           E2 == {[d \in P |-> R[d]][n] : n \in P}
           E == (E1 \cup E2) \cup {w, h}
<1>1. IsFamily(A) /\ IsFiniteSet(P) /\ (\A n \in P : R[n] \in IntRow) /\ LinesSpan(A, R, P)
  BY DEF Describes
<1>2. IsFiniteSet(S) /\ S \subseteq DOMAIN A
  <2>1. S \in SUBSET DOMAIN A /\ IsFiniteSet(DOMAIN A)
    BY <1>1 DEF Zeros, IsFamily
  <2> QED BY <2>1, FS_Subset
<1>3. IsFiniteSet(E) /\ Cardinality(E) < Dimension
  <2>1. IsFiniteSet(E1) /\ Cardinality(E1) <= Cardinality(S)
    <3> HIDE DEF S
    <3>1. DOMAIN [d \in S |-> A[d]] = S
      OBVIOUS
    <3> QED BY <1>2, <3>1, ImageSize
  <2>2. IsFiniteSet(E2) /\ Cardinality(E2) <= Cardinality(P)
    <3>1. DOMAIN [d \in P |-> R[d]] = P
      OBVIOUS
    <3> QED BY <1>1, <3>1, ImageSize
  <2>3. IsFiniteSet({w, h}) /\ Cardinality({w, h}) <= 2
    <3>1. {w, h} = {w} \cup {h}
      OBVIOUS
    <3>2. IsFiniteSet({w}) /\ Cardinality({w}) = 1 /\ IsFiniteSet({h}) /\ Cardinality({h}) = 1
      BY FS_Singleton
    <3>3. IsFiniteSet({w} \cup {h}) /\ Cardinality({w} \cup {h}) <= 1 + 1
      BY <3>2, UnionSize
    <3> QED BY <3>1, <3>3
  <2> HIDE DEF E1, E2
  <2>4. IsFiniteSet(E1 \cup E2) /\ Cardinality(E1 \cup E2) <= Cardinality(E1) + Cardinality(E2)
    BY <2>1, <2>2, UnionSize
  <2>5. IsFiniteSet(E) /\ Cardinality(E) <= Cardinality(E1 \cup E2) + Cardinality({w, h})
    BY <2>3, <2>4, UnionSize
  <2>6. /\ Cardinality(E1) \in Nat /\ Cardinality(E2) \in Nat /\ Cardinality(E1 \cup E2) \in Nat
        /\ Cardinality({w, h}) \in Nat /\ Cardinality(E) \in Nat
        /\ Cardinality(S) \in Nat /\ Cardinality(P) \in Nat
    BY <1>1, <1>2, <2>1, <2>2, <2>3, <2>4, <2>5, FS_CardinalityType
  <2> QED BY <2>1, <2>2, <2>3, <2>4, <2>5, <2>6, DimensionAssumption
<1>4. E \subseteq IntRow /\ w \in E /\ h \in E /\ (\A c \in S : A[c] \in E) /\ (\A n \in P : R[n] \in E)
  BY <1>1, <1>2 DEF IsFamily
<1> HIDE DEF E, E1, E2
<1>5. PICK v \in IntRow : (\E c \in Coordinates : v[c] # 0) /\ \A f \in E : InnerProduct(f, v) = 0
  BY <1>3, <1>4, NullVector
<1>6. InnerProduct(v, v) # 0
  BY <1>5, SelfProduct
<1> DEFINE away(u) == /\ InnerProduct(u, u) # 0
                      /\ \A f \in E : InnerProduct(f, u) = 0
<1>7. ASSUME NEW u \in IntRow, away(u)
      PROVE  /\ InnerProduct(u, h) = 0 /\ InnerProduct(u, w) = 0 /\ S \subseteq Zeros(u, A)
             /\ \A n \in P : InnerProduct(u, R[n]) = 0
             /\ Zeros(u, A) # DOMAIN A
  <2>1. \A f \in E : InnerProduct(u, f) = 0
    <3>1. ASSUME NEW f \in E PROVE InnerProduct(u, f) = 0
      <4>1. f \in IntRow /\ InnerProduct(f, u) = 0
        BY <1>4, <1>7
      <4> QED BY <4>1, InnerProductSymmetric
    <3> QED BY <3>1
  <2>2. S \subseteq Zeros(u, A)
    <3> HIDE DEF S
    <3> QED BY <1>2, <1>4, <2>1 DEF Zeros
  <2>3. \A n \in P : InnerProduct(u, R[n]) = 0
    BY <1>4, <2>1
  <2>4. Zeros(u, A) # DOMAIN A
    BY <1>1, <1>7, <2>3 DEF LinesSpan
  <2> QED BY <1>4, <2>1, <2>2, <2>3, <2>4
<1>8. PICK u \in IntRow : away(u) /\ \E e \in DOMAIN A : InnerProduct(u, A[e]) > 0
  <2>1. away(v)
    BY <1>5, <1>6
  <2>2. PICK e \in DOMAIN A : InnerProduct(v, A[e]) # 0
    BY <1>7, <2>1 DEF Zeros
  <2>3. A[e] \in IntRow /\ InnerProduct(v, A[e]) \in Int
    BY <1>1, WithinProducts
  <2>4. CASE InnerProduct(v, A[e]) > 0
    BY <2>1, <2>4
  <2>5. CASE InnerProduct(v, A[e]) < 0
    <3>1. Reversed(v) \in IntRow /\ InnerProduct(Reversed(v), A[e]) = -InnerProduct(v, A[e])
      BY <2>3, ReversedProduct
    <3>2. away(Reversed(v))
      BY <1>4, <1>5, <1>6, ReversedOrthogonal
    <3>3. InnerProduct(Reversed(v), A[e]) > 0
      BY <2>3, <2>5, <3>1
    <3> QED BY <3>1, <3>2, <3>3
  <2> QED BY <2>2, <2>3, <2>4, <2>5
<1>9. /\ InnerProduct(u, h) = 0 /\ InnerProduct(u, w) = 0 /\ S \subseteq Zeros(u, A)
      /\ (\A n \in P : InnerProduct(u, R[n]) = 0) /\ InnerProduct(u, u) # 0
  BY <1>7, <1>8
<1>10. PICK e \in DOMAIN A : InnerProduct(u, A[e]) > 0
  BY <1>8
<1>11. PICK a \in Nat \ {0}, b \in Nat \ {0} :
         /\ Mix(a, w, -b, u) \in IntRow /\ Within(Mix(a, w, -b, u), A)
         /\ Zeros(w, A) \subseteq Zeros(Mix(a, w, -b, u), A)
         /\ Zeros(w, A) # Zeros(Mix(a, w, -b, u), A)
  BY <1>1, <1>9, <1>10, MaximalStep
<1>12. PICK g \in Int : g = -b /\ g # 0
  OBVIOUS
<1> DEFINE z == Mix(a, w, g, u)
<1>13. z \in IntRow /\ Within(z, A) /\ Zeros(w, A) \subseteq Zeros(z, A) /\ Zeros(w, A) # Zeros(z, A)
  BY <1>11, <1>12
<1>14. a \in Int
  OBVIOUS
<1>15. InnerProduct(z, h) = 0
  <2>1. InnerProduct(z, h) = a * 0 + g * 0
    BY <1>9, <1>14, MixProduct
  <2> QED BY <2>1
<1>16. InnerProduct(u, z) # 0
  <2>1. InnerProduct(u, z) = a * 0 + g * InnerProduct(u, u)
    BY <1>9, <1>14, ProductMix
  <2>2. InnerProduct(u, u) \in Int
    BY InnerProductInt
  <2>3. PICK y \in Int : y = InnerProduct(u, u) /\ y # 0
    BY <1>9, <2>2
  <2>4. g * y # 0
    BY <1>12, <2>3
  <2> QED BY <2>1, <2>3, <2>4
<1> HIDE DEF z
<1>17. Zeros(z, A) # DOMAIN A
  BY <1>1, <1>9, <1>13, <1>16 DEF LinesSpan
<1> QED BY <1>13, <1>15, <1>17 DEF Beyond

\* p and q are on enough common constraints for a face of dimension two, and no
\* other ray is on them all.
Neighbours(p, q, A, R, P, N) ==
  /\ Cardinality(Zeros(R[p], A) \cap Zeros(R[q], A)) + Cardinality(P) >= Dimension - 2
  /\ \A m \in N : Zeros(R[p], A) \cap Zeros(R[q], A) \subseteq Zeros(R[m], A) => m = p \/ m = q

\* Two rays on either side of h that are not neighbours.
LEMMA NotNeighbours ==
  ASSUME NEW A, NEW R, NEW P, NEW N, Describes(A, R, P, N), NEW h \in IntRow,
         NEW p \in N, NEW q \in N, InnerProduct(R[p], h) > 0, InnerProduct(R[q], h) < 0,
         ~Neighbours(p, q, A, R, P, N)
  PROVE  Beyond(Zeros(R[p], A) \cap Zeros(R[q], A), A, h)
<1> DEFINE S == Zeros(R[p], A) \cap Zeros(R[q], A)
           w == Meet(R[p], R[q], h)
<1>1. IsFamily(A) /\ Extreme(A, R, N) /\ IsFiniteSet(P)
  BY DEF Describes
<1>2. \A n \in N : R[n] \in IntRow /\ Within(R[n], A) /\ Zeros(R[n], A) # DOMAIN A
  BY <1>1 DEF Extreme
<1>3. CASE ~(Cardinality(S) + Cardinality(P) >= Dimension - 2)
  <2>1. w \in IntRow /\ Within(w, A) /\ InnerProduct(w, h) = 0 /\ Zeros(w, A) = S
    BY <1>1, <1>2, MeetIs
  <2>2. Zeros(w, A) # DOMAIN A
    <3>1. Zeros(R[p], A) # DOMAIN A /\ Zeros(R[p], A) \subseteq DOMAIN A
      BY <1>2 DEF Zeros
    <3> QED BY <2>1, <3>1
  <2>3. Cardinality(S) \in Int /\ Cardinality(P) \in Int
    <3>1. S \in SUBSET DOMAIN A /\ IsFiniteSet(DOMAIN A)
      BY <1>1 DEF IsFamily, Zeros
    <3>2. Cardinality(S) \in Nat /\ Cardinality(P) \in Nat
      <4> HIDE DEF S
      <4> QED BY <1>1, <3>1, FS_Subset, FS_CardinalityType
    <3> QED BY <3>2
  <2> HIDE DEF w, S
  <2>4. Cardinality(Zeros(w, A)) + Cardinality(P) < Dimension - 2
    BY <1>3, <2>1, <2>3, DimensionAssumption
  <2>5. Beyond(Zeros(w, A), A, h)
    BY <2>1, <2>2, <2>4, FewConstraints
  <2> QED BY <2>1, <2>5 DEF S
<1>4. CASE Cardinality(S) + Cardinality(P) >= Dimension - 2
  <2>1. PICK m \in N : S \subseteq Zeros(R[m], A) /\ m # p /\ m # q
    BY <1>4 DEF Neighbours
  <2>2. InnerProduct(R[m], h) \in Int
    BY <1>2, InnerProductInt
  <2>3. CASE InnerProduct(R[m], h) > 0
    BY <1>1, <2>1, <2>3, ThirdRayPositive
  <2>4. CASE InnerProduct(R[m], h) < 0
    BY <1>1, <2>1, <2>4, ThirdRayNegative
  <2>5. CASE InnerProduct(R[m], h) = 0
    <3>1. S # Zeros(R[m], A)
      <4>1. ~(Zeros(R[m], A) \subseteq Zeros(R[p], A))
        BY <1>1, <2>1 DEF Extreme
      <4> QED BY <4>1
    <3>2. R[m] \in IntRow /\ Within(R[m], A) /\ Zeros(R[m], A) # DOMAIN A
      BY <1>2
    <3> QED BY <2>1, <2>5, <3>1, <3>2 DEF Beyond
  <2> QED BY <2>2, <2>3, <2>4, <2>5
<1> QED BY <1>3, <1>4

(***************************************************************************)
(* A vector on the hyperplane of h lies on the face of a ray on it, or of  *)
(* two neighbours on either side: so the combinations of neighbours are    *)
(* enough.                                                                 *)
(***************************************************************************)
LEMMA FaceOnHyperplane ==
  ASSUME NEW A, NEW R, NEW P, NEW N, Describes(A, R, P, N), NEW h \in IntRow, Level(h, R, P),
         NEW x \in IntRow, Within(x, A), Zeros(x, A) # DOMAIN A, InnerProduct(x, h) = 0
  PROVE  \/ \E n \in N : Zeros(x, A) \subseteq Zeros(R[n], A) /\ InnerProduct(R[n], h) = 0
         \/ \E p \in N, q \in N :
              /\ InnerProduct(R[p], h) > 0 /\ InnerProduct(R[q], h) < 0 /\ Neighbours(p, q, A, R, P, N)
              /\ Zeros(x, A) \subseteq Zeros(R[p], A) \cap Zeros(R[q], A)
<1> DEFINE on(y) == \E n \in N : Zeros(y, A) \subseteq Zeros(R[n], A) /\ InnerProduct(R[n], h) = 0
           between(y) == \E p \in N, q \in N :
              /\ InnerProduct(R[p], h) > 0 /\ InnerProduct(R[q], h) < 0 /\ Neighbours(p, q, A, R, P, N)
              /\ Zeros(y, A) \subseteq Zeros(R[p], A) \cap Zeros(R[q], A)
           B == {y \in IntRow : /\ Within(y, A) /\ Zeros(y, A) # DOMAIN A /\ InnerProduct(y, h) = 0
                                /\ ~on(y) /\ ~between(y)}
<1>1. SUFFICES ASSUME B # {} PROVE FALSE
  OBVIOUS
<1>2. IsFamily(A)
  BY DEF Describes
<1>3. PICK y \in B : \A z \in B : Zeros(y, A) \subseteq Zeros(z, A) => Zeros(y, A) = Zeros(z, A)
  <2> HIDE DEF B
  <2> QED BY <1>1, <1>2, MostSaturated
<1>4. /\ y \in IntRow /\ Within(y, A) /\ Zeros(y, A) # DOMAIN A /\ InnerProduct(y, h) = 0
      /\ ~on(y) /\ ~between(y)
  OBVIOUS
<1>5. PICK p \in N, q \in N : /\ Zeros(y, A) \subseteq Zeros(R[p], A) /\ InnerProduct(R[p], h) > 0
                              /\ Zeros(y, A) \subseteq Zeros(R[q], A) /\ InnerProduct(R[q], h) < 0
  BY <1>4, Straddled
<1>6. ~Neighbours(p, q, A, R, P, N)
  BY <1>4, <1>5
<1>7. Beyond(Zeros(R[p], A) \cap Zeros(R[q], A), A, h)
  BY <1>5, <1>6, NotNeighbours
<1>8. PICK z \in IntRow : /\ Within(z, A) /\ Zeros(z, A) # DOMAIN A /\ InnerProduct(z, h) = 0
                          /\ Zeros(R[p], A) \cap Zeros(R[q], A) \subseteq Zeros(z, A)
                          /\ Zeros(R[p], A) \cap Zeros(R[q], A) # Zeros(z, A)
  BY <1>7 DEF Beyond
<1>9. Zeros(y, A) \subseteq Zeros(z, A) /\ Zeros(y, A) # Zeros(z, A)
  BY <1>5, <1>8
<1>10. on(z) \/ between(z)
  <2>1. z \notin B
    <3> HIDE DEF B
    <3> QED BY <1>3, <1>9
  <2> QED BY <1>8, <2>1
<1>11. on(z) => on(y)
  BY <1>9
<1>12. between(z) => between(y)
  BY <1>9
<1> QED BY <1>4, <1>10, <1>11, <1>12
-----------------------------------------------------------------------------
(* One more constraint.                                                    *)

\* The family A with the constraint h, under the new name e.
Extended(A, e, h) == [c \in DOMAIN A \cup {e} |-> IF c = e THEN h ELSE A[c]]

\* What it does to the cone and to the constraints a row saturates.
LEMMA ExtendedIs ==
  ASSUME NEW A, IsFamily(A), NEW e, e \notin DOMAIN A, NEW h \in IntRow
  PROVE  /\ IsFamily(Extended(A, e, h)) /\ DOMAIN Extended(A, e, h) = DOMAIN A \cup {e}
         /\ \A x : /\ Within(x, Extended(A, e, h)) <=> Within(x, A) /\ Verifies(x, h)
                   /\ Zeros(x, Extended(A, e, h)) =
                        Zeros(x, A) \cup (IF InnerProduct(x, h) = 0 THEN {e} ELSE {})
                   /\ Zeros(x, A) \subseteq DOMAIN A /\ e \notin Zeros(x, A)
<1> DEFINE B == Extended(A, e, h)
<1>1. DOMAIN B = DOMAIN A \cup {e} /\ B[e] = h /\ \A c \in DOMAIN A : B[c] = A[c]
  BY DEF Extended
<1> HIDE DEF B
<1>2. IsFamily(B)
  <2>1. IsFiniteSet(DOMAIN A \cup {e})
    BY FS_AddElement DEF IsFamily
  <2> QED BY <1>1, <2>1 DEF IsFamily
<1>3. ASSUME NEW x
      PROVE  /\ Within(x, B) <=> Within(x, A) /\ Verifies(x, h)
             /\ Zeros(x, B) = Zeros(x, A) \cup (IF InnerProduct(x, h) = 0 THEN {e} ELSE {})
             /\ Zeros(x, A) \subseteq DOMAIN A /\ e \notin Zeros(x, A)
  <2>1. Within(x, B) <=> Within(x, A) /\ Verifies(x, h)
    BY <1>1 DEF Within
  <2>2. Zeros(x, B) = Zeros(x, A) \cup (IF InnerProduct(x, h) = 0 THEN {e} ELSE {})
    BY <1>1 DEF Zeros
  <2> QED BY <2>1, <2>2 DEF Zeros
<1> QED BY <1>1, <1>2, <1>3 DEF B

\* p is strictly inside h, q violates it, and they are neighbours.
Crossing(p, q, A, R, P, N, h) ==
  /\ p \in N /\ q \in N /\ InnerProduct(R[p], h) > 0 /\ InnerProduct(R[q], h) < 0
  /\ Neighbours(p, q, A, R, P, N)

\* Row n is in the cone and on h, and saturates what p and q both saturate.
Joins(n, p, q, A, R, h) ==
  /\ R[n] \in IntRow /\ Within(R[n], A) /\ InnerProduct(R[n], h) = 0
  /\ Zeros(R[n], A) = Zeros(R[p], A) \cap Zeros(R[q], A)

\* The rows W are those of the pairs V, and none is on the face of another.
JoinsOf(W, V, A, R, h) ==
  /\ \A n \in W : \E v \in V : Joins(n, v[1], v[2], A, R, h)
  /\ \A v \in V : \E n \in W : Joins(n, v[1], v[2], A, R, h)
  /\ \A n \in W, m \in W : Zeros(R[n], A) \subseteq Zeros(R[m], A) => m = n

(***************************************************************************)
(* The rays that verify h and one row for each pair of neighbours on       *)
(* either side are the rays of the section: all of them are needed, and no *)
(* other is.                                                               *)
(***************************************************************************)
LEMMA PairsJoined ==
  ASSUME NEW A, NEW R, NEW P, NEW N, Describes(A, R, P, N), NEW e, e \notin DOMAIN A,
         NEW h \in IntRow, Level(h, R, P), NEW W, NEW V,
         \A v \in V : Crossing(v[1], v[2], A, R, P, N, h),
         \A p \in N, q \in N : Crossing(p, q, A, R, P, N, h) => <<p, q>> \in V,
         JoinsOf(W, V, A, R, h)
  PROVE  Describes(Extended(A, e, h), R, P, {n \in N : Verifies(R[n], h)} \cup W)
<1> DEFINE B == Extended(A, e, h)
           K == {n \in N : Verifies(R[n], h)}
<1>1. IsFamily(A) /\ IsFiniteSet(P) /\ (\A n \in P : R[n] \in IntRow) /\ Extreme(A, R, N) /\ LinesSpan(A, R, P)
  BY DEF Describes
<1>2. /\ IsFamily(B) /\ DOMAIN B = DOMAIN A \cup {e}
      /\ \A x : /\ Within(x, B) <=> Within(x, A) /\ Verifies(x, h)
                /\ Zeros(x, B) = Zeros(x, A) \cup (IF InnerProduct(x, h) = 0 THEN {e} ELSE {})
                /\ Zeros(x, A) \subseteq DOMAIN A /\ e \notin Zeros(x, A)
  BY <1>1, ExtendedIs
<1>0. /\ \A x : InnerProduct(x, h) # 0 => Zeros(x, B) = Zeros(x, A)
      /\ \A x : Within(x, A) /\ Verifies(x, h) => Within(x, B)
      /\ \A x : Zeros(x, A) # DOMAIN A => Zeros(x, B) # DOMAIN B
      /\ \A x : e \in Zeros(x, B) <=> InnerProduct(x, h) = 0
      /\ \A x, y : Zeros(x, B) \subseteq Zeros(y, B) => Zeros(x, A) \subseteq Zeros(y, A)
  <2> HIDE DEF B
  <2> QED BY <1>2
<1>3. ASSUME NEW n \in N
      PROVE  /\ R[n] \in IntRow /\ Within(R[n], A) /\ Zeros(R[n], A) # DOMAIN A
             /\ InnerProduct(R[n], h) \in Int
             /\ \A m \in N : Zeros(R[n], A) \subseteq Zeros(R[m], A) => m = n
  BY <1>1, InnerProductInt DEF Extreme
<1>4. ASSUME NEW n \in W
      PROVE  \E p \in N, q \in N : /\ Crossing(p, q, A, R, P, N, h) /\ Joins(n, p, q, A, R, h)
  <2>1. PICK v \in V : Joins(n, v[1], v[2], A, R, h)
    BY DEF JoinsOf
  <2>2. Crossing(v[1], v[2], A, R, P, N, h)
    OBVIOUS
  <2>3. v[1] \in N /\ v[2] \in N
    BY <2>2 DEF Crossing
  <2> QED BY <2>1, <2>2, <2>3
<1> HIDE DEF B
<1>5. ASSUME NEW x \in IntRow, Within(x, B), Zeros(x, B) # DOMAIN B
      PROVE  \E n \in K \cup W : Zeros(x, B) \subseteq Zeros(R[n], B)
  <2>1. Within(x, A) /\ Verifies(x, h) /\ InnerProduct(x, h) \in Int
    BY <1>2, <1>5, InnerProductInt
  <2>2. Zeros(x, A) # DOMAIN A
    <3>1. SUFFICES ASSUME Zeros(x, A) = DOMAIN A PROVE FALSE
      OBVIOUS
    <3>2. InnerProduct(x, h) = 0
      BY <3>1, LinealityLevel
    <3> QED BY <1>2, <1>5, <3>1, <3>2
  <2>3. InnerProduct(x, h) >= 0
    BY <2>1 DEF Verifies
  <2>4. CASE InnerProduct(x, h) > 0
    <3>1. PICK n \in N : Zeros(x, A) \subseteq Zeros(R[n], A) /\ InnerProduct(R[n], h) > 0
      BY <2>1, <2>4, PositiveRay
    <3>2. h[0] # 0
      BY <2>1, <2>4 DEF Verifies
    <3>3. n \in K
      BY <1>3, <3>1, <3>2 DEF Verifies
    <3>4. InnerProduct(x, h) # 0
      BY <2>1, <2>4
    <3>5. Zeros(x, B) = Zeros(x, A)
      BY <1>0, <3>4
    <3> QED BY <1>2, <3>1, <3>3, <3>5
  <2>5. CASE InnerProduct(x, h) = 0
    <3>1. CASE \E n \in N : Zeros(x, A) \subseteq Zeros(R[n], A) /\ InnerProduct(R[n], h) = 0
      <4>1. PICK n \in N : Zeros(x, A) \subseteq Zeros(R[n], A) /\ InnerProduct(R[n], h) = 0
        BY <3>1
      <4>2. n \in K
        BY <4>1 DEF Verifies
      <4>3. Zeros(x, B) \subseteq Zeros(R[n], B)
        BY <1>2, <4>1
      <4> QED BY <4>2, <4>3
    <3>2. CASE \E p \in N, q \in N :
                 /\ InnerProduct(R[p], h) > 0 /\ InnerProduct(R[q], h) < 0 /\ Neighbours(p, q, A, R, P, N)
                 /\ Zeros(x, A) \subseteq Zeros(R[p], A) \cap Zeros(R[q], A)
      <4>1. PICK p \in N, q \in N :
                 /\ InnerProduct(R[p], h) > 0 /\ InnerProduct(R[q], h) < 0 /\ Neighbours(p, q, A, R, P, N)
                 /\ Zeros(x, A) \subseteq Zeros(R[p], A) \cap Zeros(R[q], A)
        BY <3>2
      <4>2. Crossing(p, q, A, R, P, N, h)
        BY <4>1 DEF Crossing
      <4>3. PICK v \in V : v = <<p, q>>
        BY <4>2
      <4>4. PICK n \in W : Joins(n, v[1], v[2], A, R, h)
        BY DEF JoinsOf
      <4>5. Zeros(R[n], A) = Zeros(R[p], A) \cap Zeros(R[q], A) /\ InnerProduct(R[n], h) = 0
        BY <4>3, <4>4 DEF Joins
      <4>6. Zeros(x, B) \subseteq Zeros(R[n], B)
        BY <1>2, <4>1, <4>5
      <4> QED BY <4>6
    <3> QED BY <2>1, <2>2, <2>5, <3>1, <3>2, FaceOnHyperplane
  <2> QED BY <2>1, <2>3, <2>4, <2>5
<1>6. ASSUME NEW n \in K \cup W
      PROVE  R[n] \in IntRow /\ Within(R[n], B) /\ Zeros(R[n], B) # DOMAIN B
  <2>1. CASE n \in K
    <3>1. n \in N /\ Verifies(R[n], h)
      BY <2>1
    <3> QED BY <1>0, <1>3, <3>1
  <2>2. CASE n \in W
    <3>1. PICK p \in N, q \in N : Crossing(p, q, A, R, P, N, h) /\ Joins(n, p, q, A, R, h)
      BY <1>4, <2>2
    <3>2. /\ R[n] \in IntRow /\ Within(R[n], A) /\ InnerProduct(R[n], h) = 0
          /\ Zeros(R[n], A) \subseteq Zeros(R[p], A)
      BY <3>1 DEF Joins
    <3>3. Verifies(R[n], h)
      BY <3>2 DEF Verifies
    <3>4. Zeros(R[p], A) # DOMAIN A
      BY <1>3
    <3> QED BY <1>2, <3>2, <3>3, <3>4
  <2> QED BY <2>1, <2>2
<1>7. ASSUME NEW n \in K \cup W, NEW m \in K \cup W, Zeros(R[n], B) \subseteq Zeros(R[m], B)
      PROVE  m = n
  <2>1. /\ Zeros(R[n], A) \subseteq Zeros(R[m], A)
        /\ InnerProduct(R[n], h) = 0 => InnerProduct(R[m], h) = 0
    BY <1>2, <1>7
  <2>2. CASE n \in K /\ m \in K
    BY <1>3, <2>1, <2>2
  <2>3. CASE n \in W /\ m \in W
    BY <2>1, <2>3 DEF JoinsOf
  <2>4. CASE n \in K /\ m \in W
    <3>1. PICK p \in N, q \in N : Crossing(p, q, A, R, P, N, h) /\ Joins(m, p, q, A, R, h)
      BY <1>4, <2>4
    <3>2. Zeros(R[n], A) \subseteq Zeros(R[p], A) /\ Zeros(R[n], A) \subseteq Zeros(R[q], A)
      BY <2>1, <3>1 DEF Joins
    <3>3. p = n /\ q = n
      BY <1>3, <2>4, <3>2
    <3>4. InnerProduct(R[p], h) > 0 /\ InnerProduct(R[q], h) < 0 /\ InnerProduct(R[p], h) \in Int
      BY <1>3, <3>1 DEF Crossing
    <3> QED BY <3>3, <3>4
  <2>5. CASE n \in W /\ m \in K
    <3>1. PICK p \in N, q \in N : Crossing(p, q, A, R, P, N, h) /\ Joins(n, p, q, A, R, h)
      BY <1>4, <2>5
    <3>2. /\ InnerProduct(R[p], h) > 0 /\ InnerProduct(R[q], h) < 0
          /\ InnerProduct(R[p], h) \in Int /\ InnerProduct(R[q], h) \in Int
      BY <1>3, <3>1 DEF Crossing
    <3>3. m = p \/ m = q
      <4>1. m \in N /\ Zeros(R[p], A) \cap Zeros(R[q], A) \subseteq Zeros(R[m], A)
        BY <2>1, <2>5, <3>1 DEF Joins
      <4> QED BY <3>1, <4>1 DEF Crossing, Neighbours
    <3>4. InnerProduct(R[m], h) = 0
      BY <2>1, <3>1 DEF Joins
    <3> QED BY <3>2, <3>3, <3>4
  <2> QED BY <2>2, <2>3, <2>4, <2>5
<1>8. LinesSpan(B, R, P)
  <2>1. \A z : Zeros(z, B) = DOMAIN B => Zeros(z, A) = DOMAIN A
    BY <1>2
  <2> QED BY <1>1, <2>1 DEF LinesSpan
<1> HIDE DEF K
<1>9. Covers(B, R, K \cup W) /\ Extreme(B, R, K \cup W)
  BY <1>5, <1>6, <1>7 DEF Covers, Extreme
<1> QED BY <1>1, <1>2, <1>8, <1>9 DEF Describes, B, K

\* Joining one more pair of neighbours: none of the rows is on the face of another.
LEMMA OneMoreJoin ==
  ASSUME NEW A, NEW R, NEW P, NEW N, Extreme(A, R, N), NEW h \in IntRow, NEW W, NEW V,
         \A v \in V : v \in N \X N /\ Crossing(v[1], v[2], A, R, P, N, h),
         JoinsOf(W, V, A, R, h),
         NEW p, NEW q, Crossing(p, q, A, R, P, N, h), <<p, q>> \notin V,
         NEW w, w \notin W, NEW S, \A n \in N \cup W : S[n] = R[n], Joins(w, p, q, A, S, h)
  PROVE  JoinsOf(W \cup {w}, V \cup {<<p, q>>}, A, S, h)
<1>1. /\ p \in N /\ q \in N /\ InnerProduct(R[p], h) > 0 /\ InnerProduct(R[q], h) < 0
      /\ \A m \in N : Zeros(R[p], A) \cap Zeros(R[q], A) \subseteq Zeros(R[m], A) => m = p \/ m = q
  BY DEF Crossing, Neighbours
<1>2. \A n \in N : InnerProduct(R[n], h) \in Int
  BY InnerProductInt DEF Extreme
<1>3. Zeros(S[w], A) = Zeros(R[p], A) \cap Zeros(R[q], A)
  BY <1>1 DEF Joins
<1>4. ASSUME NEW n \in W
      PROVE  \E v \in V : /\ Joins(n, v[1], v[2], A, S, h)
                          /\ Zeros(S[n], A) = Zeros(R[v[1]], A) \cap Zeros(R[v[2]], A)
  <2>1. PICK v \in V : Joins(n, v[1], v[2], A, R, h)
    BY DEF JoinsOf
  <2>2. v[1] \in N /\ v[2] \in N
    OBVIOUS
  <2>3. S[n] = R[n] /\ S[v[1]] = R[v[1]] /\ S[v[2]] = R[v[2]]
    BY <2>2
  <2> QED BY <2>1, <2>3 DEF Joins
<1>5. ASSUME NEW v \in V PROVE \E n \in W : Joins(n, v[1], v[2], A, S, h)
  <2>1. PICK n \in W : Joins(n, v[1], v[2], A, R, h)
    BY DEF JoinsOf
  <2>2. v[1] \in N /\ v[2] \in N
    OBVIOUS
  <2>3. S[n] = R[n] /\ S[v[1]] = R[v[1]] /\ S[v[2]] = R[v[2]]
    BY <2>2
  <2> QED BY <2>1, <2>3 DEF Joins
<1>6. ASSUME NEW n \in W PROVE ~(Zeros(S[w], A) \subseteq Zeros(S[n], A))
  <2>1. SUFFICES ASSUME Zeros(S[w], A) \subseteq Zeros(S[n], A) PROVE FALSE
    OBVIOUS
  <2>2. PICK v \in V : Zeros(S[n], A) = Zeros(R[v[1]], A) \cap Zeros(R[v[2]], A)
    BY <1>4
  <2>3. /\ v[1] \in N /\ v[2] \in N /\ v = <<v[1], v[2]>>
        /\ InnerProduct(R[v[1]], h) > 0 /\ InnerProduct(R[v[2]], h) < 0
    BY DEF Crossing
  <2>4. (v[1] = p \/ v[1] = q) /\ (v[2] = p \/ v[2] = q)
    BY <1>1, <1>3, <2>1, <2>2, <2>3
  <2>5. v[1] = p /\ v[2] = q
    BY <1>1, <1>2, <2>3, <2>4
  <2> QED BY <2>3, <2>5
<1>7. ASSUME NEW n \in W PROVE ~(Zeros(S[n], A) \subseteq Zeros(S[w], A))
  <2>1. SUFFICES ASSUME Zeros(S[n], A) \subseteq Zeros(S[w], A) PROVE FALSE
    OBVIOUS
  <2>2. PICK v \in V : Zeros(S[n], A) = Zeros(R[v[1]], A) \cap Zeros(R[v[2]], A)
    BY <1>4
  <2>3. /\ v[1] \in N /\ v[2] \in N /\ v = <<v[1], v[2]>>
        /\ InnerProduct(R[v[1]], h) > 0 /\ InnerProduct(R[v[2]], h) < 0
        /\ Neighbours(v[1], v[2], A, R, P, N)
    BY DEF Crossing
  <2>4. (p = v[1] \/ p = v[2]) /\ (q = v[1] \/ q = v[2])
    BY <1>1, <1>3, <2>1, <2>2, <2>3 DEF Neighbours
  <2>5. v[1] = p /\ v[2] = q
    BY <1>1, <1>2, <2>3, <2>4
  <2> QED BY <2>3, <2>5
<1>8. \A n \in W \cup {w} : \E v \in V \cup {<<p, q>>} : Joins(n, v[1], v[2], A, S, h)
  BY <1>4
<1>9. \A v \in V \cup {<<p, q>>} : \E n \in W \cup {w} : Joins(n, v[1], v[2], A, S, h)
  BY <1>5
<1>10. ASSUME NEW n \in W \cup {w}, NEW m \in W \cup {w}, Zeros(S[n], A) \subseteq Zeros(S[m], A)
       PROVE  m = n
  <2>1. CASE n \in W /\ m \in W
    <3>1. S[n] = R[n] /\ S[m] = R[m]
      BY <2>1
    <3> QED BY <1>10, <2>1, <3>1 DEF JoinsOf
  <2> QED BY <1>6, <1>7, <1>10, <2>1
<1> QED BY <1>8, <1>9, <1>10 DEF JoinsOf
-----------------------------------------------------------------------------
(* The same rows elsewhere, or with another status word.                   *)

\* Two rows that differ at most in the status word.
SameCoordinates(p, r) == \A c \in Coordinates : r[c] = p[c]

\* The status word takes no part in any of it.
LEMMA SameZeros ==
  ASSUME NEW A, IsFamily(A), NEW p \in IntRow, NEW r \in IntRow, SameCoordinates(p, r)
  PROVE  /\ Within(r, A) <=> Within(p, A)
         /\ Zeros(r, A) = Zeros(p, A)
         /\ \A m \in IntRow : InnerProduct(r, m) = InnerProduct(p, m) /\ InnerProduct(m, r) = InnerProduct(m, p)
<1>1. ASSUME NEW m \in IntRow
      PROVE  InnerProduct(r, m) = InnerProduct(p, m) /\ InnerProduct(m, r) = InnerProduct(m, p)
  <2>1. InnerProduct(r, m) = InnerProduct(p, m)
    BY InnerProductSame DEF SameCoordinates
  <2>2. InnerProduct(m, r) = InnerProduct(r, m) /\ InnerProduct(m, p) = InnerProduct(p, m)
    BY InnerProductSymmetric
  <2> QED BY <2>1, <2>2
<1>2. \A c \in DOMAIN A : InnerProduct(r, A[c]) = InnerProduct(p, A[c])
  BY <1>1 DEF IsFamily
<1> QED BY <1>1, <1>2 DEF Within, Zeros, Verifies

\* S holds at n the row that R holds at m.
SameAt(S, n, R, m) == S[n] \in IntRow /\ SameCoordinates(R[m], S[n])

\* What describes a cone does so in any order.
LEMMA Reindexed ==
  ASSUME NEW A, NEW R, NEW P, NEW N, Describes(A, R, P, N), NEW S, NEW M, NEW f,
         \A n \in M : f[n] \in N /\ SameAt(S, n, R, f[n]),
         \A n \in M, m \in M : f[n] = f[m] => n = m,
         \A m \in N : \E n \in M : f[n] = m,
         \A n \in P : SameAt(S, n, R, n)
  PROVE  Describes(A, S, P, M)
<1>1. /\ IsFamily(A) /\ IsFiniteSet(P) /\ (\A n \in P : R[n] \in IntRow)
      /\ Covers(A, R, N) /\ Extreme(A, R, N) /\ LinesSpan(A, R, P)
  BY DEF Describes
<1>2. ASSUME NEW n \in M
      PROVE  /\ S[n] \in IntRow /\ Zeros(S[n], A) = Zeros(R[f[n]], A)
             /\ Within(S[n], A) /\ Zeros(S[n], A) # DOMAIN A
  <2>1. f[n] \in N /\ SameAt(S, n, R, f[n])
    OBVIOUS
  <2>2. R[f[n]] \in IntRow /\ Within(R[f[n]], A) /\ Zeros(R[f[n]], A) # DOMAIN A
    BY <1>1, <2>1 DEF Extreme
  <2>3. S[n] \in IntRow /\ SameCoordinates(R[f[n]], S[n])
    BY <2>1 DEF SameAt
  <2> QED BY <1>1, <2>2, <2>3, SameZeros
<1>3. Covers(A, S, M)
  <2>1. ASSUME NEW x \in IntRow, Within(x, A), Zeros(x, A) # DOMAIN A
        PROVE  \E n \in M : Zeros(x, A) \subseteq Zeros(S[n], A)
    <3>1. PICK m \in N : Zeros(x, A) \subseteq Zeros(R[m], A)
      BY <1>1, <2>1 DEF Covers
    <3>2. PICK n \in M : f[n] = m
      OBVIOUS
    <3> QED BY <1>2, <3>1, <3>2
  <2> QED BY <2>1 DEF Covers
<1>4. Extreme(A, S, M)
  <2>1. ASSUME NEW n \in M, NEW m \in M, Zeros(S[n], A) \subseteq Zeros(S[m], A) PROVE m = n
    <3>1. f[n] \in N /\ f[m] \in N
      OBVIOUS
    <3>2. Zeros(R[f[n]], A) \subseteq Zeros(R[f[m]], A)
      BY <1>2, <2>1
    <3>3. f[m] = f[n]
      BY <1>1, <3>1, <3>2 DEF Extreme
    <3> QED BY <3>3
  <2> QED BY <1>2, <2>1 DEF Extreme
<1>5. ASSUME NEW n \in P
      PROVE  S[n] \in IntRow /\ \A v \in IntRow : InnerProduct(v, S[n]) = InnerProduct(v, R[n])
  <2>1. S[n] \in IntRow /\ SameCoordinates(R[n], S[n]) /\ R[n] \in IntRow
    BY <1>1 DEF SameAt
  <2> QED BY <1>1, <2>1, SameZeros
<1>6. LinesSpan(A, S, P)
  BY <1>1, <1>5 DEF LinesSpan
<1> QED BY <1>1, <1>3, <1>4, <1>5, <1>6 DEF Describes
-----------------------------------------------------------------------------
(* A line that does not saturate the constraint.                           *)

(***************************************************************************)
(* The rows S once one line has left for the side of h it points to: the   *)
(* rays have been moved along it onto h, the other lines are on h, and     *)
(* with it they generate what the old lines did.                           *)
(***************************************************************************)
Straight(S, Q, z, A, R, P, N, h) ==
  /\ z \notin N /\ IsFiniteSet(Q)
  /\ \A n \in N : /\ S[n] \in IntRow /\ Within(S[n], A) /\ InnerProduct(S[n], h) = 0
                  /\ Zeros(S[n], A) = Zeros(R[n], A)
  /\ \A n \in Q : S[n] \in IntRow /\ InnerProduct(h, S[n]) = 0
  /\ S[z] \in IntRow /\ Zeros(S[z], A) = DOMAIN A /\ InnerProduct(S[z], h) > 0
  /\ \A u \in IntRow : (\A n \in Q \cup {z} : InnerProduct(u, S[n]) = 0) =>
                         \A n \in P : InnerProduct(u, R[n]) = 0

\* The lines that remain span the lineality space of the section.
LEMMA LinesLeft ==
  ASSUME NEW A, NEW R, NEW P, NEW N, Describes(A, R, P, N), NEW h \in IntRow,
         NEW S, NEW Q, NEW z, Straight(S, Q, z, A, R, P, N, h),
         NEW y \in IntRow, Zeros(y, A) = DOMAIN A, InnerProduct(y, h) = 0,
         NEW v \in IntRow, \A n \in Q : InnerProduct(v, S[n]) = 0
  PROVE  InnerProduct(v, y) = 0
<1>1. S[z] \in IntRow /\ InnerProduct(S[z], h) > 0 /\ InnerProduct(S[z], h) \in Int /\ InnerProduct(v, S[z]) \in Int
  BY InnerProductInt DEF Straight
<1>2. PICK a \in Int, b \in Int : a = InnerProduct(S[z], h) /\ b = -InnerProduct(v, S[z]) /\ a > 0
  BY <1>1
<1> DEFINE u == Mix(a, v, b, h)
<1>3. u \in IntRow
  BY MixRow
<1>4. ASSUME NEW w \in IntRow PROVE InnerProduct(u, w) = a * InnerProduct(v, w) + b * InnerProduct(h, w)
  BY MixProduct
<1> HIDE DEF u
<1>5. ASSUME NEW n \in Q PROVE InnerProduct(u, S[n]) = 0
  <2>1. S[n] \in IntRow /\ InnerProduct(h, S[n]) = 0
    BY DEF Straight
  <2>2. InnerProduct(u, S[n]) = a * 0 + b * 0
    BY <1>4, <2>1
  <2> QED BY <2>2
<1>6. InnerProduct(u, S[z]) = 0
  <2>1. InnerProduct(h, S[z]) = a
    BY <1>1, <1>2, InnerProductSymmetric
  <2>2. PICK w \in Int : w = InnerProduct(v, S[z])
    BY <1>1
  <2>3. InnerProduct(u, S[z]) = a * w + b * a
    BY <1>1, <1>4, <2>1, <2>2
  <2>4. b = -w
    BY <1>2, <2>2
  <2>5. a * w + (-w) * a = 0
    OBVIOUS
  <2> QED BY <2>3, <2>4, <2>5
<1>7. \A n \in P : InnerProduct(u, R[n]) = 0
  BY <1>3, <1>5, <1>6 DEF Straight
<1>8. InnerProduct(u, y) = 0
  BY <1>3, <1>7 DEF Describes, LinesSpan
<1>9. InnerProduct(u, y) = a * InnerProduct(v, y) + b * 0
  <2>1. InnerProduct(h, y) = 0
    BY InnerProductSymmetric
  <2> QED BY <1>4, <2>1
<1>10. PICK x \in Int : x = InnerProduct(v, y)
  BY InnerProductInt
<1>11. a * x = 0
  BY <1>8, <1>9, <1>10
<1> QED BY <1>2, <1>10, <1>11, NoZeroDivisor

(***************************************************************************)
(* For an inequality the line becomes a ray, the only one inside h; for an *)
(* equality it disappears.  The faces of the rays stay what they were.     *)
(***************************************************************************)
LEMMA LineMet ==
  ASSUME NEW A, NEW R, NEW P, NEW N, Describes(A, R, P, N), NEW e, e \notin DOMAIN A,
         NEW h \in IntRow, NEW S, NEW Q, NEW z, Straight(S, Q, z, A, R, P, N, h)
  PROVE  Describes(Extended(A, e, h), S, Q, IF h[0] = 0 THEN N ELSE N \cup {z})
<1> DEFINE B == Extended(A, e, h)
           M == IF h[0] = 0 THEN N ELSE N \cup {z}
<1>1. IsFamily(A) /\ Covers(A, R, N) /\ Extreme(A, R, N)
  BY DEF Describes
<1>2. /\ IsFamily(B) /\ DOMAIN B = DOMAIN A \cup {e}
      /\ \A x : /\ Within(x, B) <=> Within(x, A) /\ Verifies(x, h)
                /\ Zeros(x, B) = Zeros(x, A) \cup (IF InnerProduct(x, h) = 0 THEN {e} ELSE {})
                /\ Zeros(x, A) \subseteq DOMAIN A /\ e \notin Zeros(x, A)
  BY <1>1, ExtendedIs
<1> HIDE DEF B
<1>3. ASSUME NEW n \in N
      PROVE  /\ S[n] \in IntRow /\ Within(S[n], A) /\ InnerProduct(S[n], h) = 0
             /\ Zeros(S[n], A) = Zeros(R[n], A) /\ Zeros(S[n], A) # DOMAIN A
             /\ \A m \in N : Zeros(S[n], A) \subseteq Zeros(S[m], A) => m = n
  <2>1. \A m \in N : Zeros(S[m], A) = Zeros(R[m], A)
    BY DEF Straight
  <2>2. S[n] \in IntRow /\ Within(S[n], A) /\ InnerProduct(S[n], h) = 0
    BY DEF Straight
  <2> QED BY <1>1, <2>1, <2>2 DEF Extreme
<1>4. /\ z \notin N /\ S[z] \in IntRow /\ Zeros(S[z], A) = DOMAIN A
      /\ InnerProduct(S[z], h) > 0 /\ InnerProduct(S[z], h) \in Int
  BY InnerProductInt DEF Straight
<1>5. Within(S[z], A)
  <2>1. \A c \in DOMAIN A : InnerProduct(S[z], A[c]) = 0
    BY <1>4 DEF Zeros
  <2> QED BY <2>1 DEF Within, Verifies
<1>6. ASSUME NEW x \in IntRow, Within(x, B), Zeros(x, B) # DOMAIN B
      PROVE  \E n \in M : Zeros(x, B) \subseteq Zeros(S[n], B)
  <2>1. Within(x, A) /\ Verifies(x, h)
    BY <1>2, <1>6
  <2>2. CASE Zeros(x, A) = DOMAIN A
    <3>1. InnerProduct(x, h) # 0
      BY <1>2, <1>6, <2>2
    <3>2. z \in M
      BY <2>1, <3>1 DEF Verifies
    <3>3. Zeros(x, B) \subseteq Zeros(S[z], B)
      BY <1>2, <1>4, <3>1
    <3> QED BY <3>2, <3>3
  <2>3. CASE Zeros(x, A) # DOMAIN A
    <3>1. PICK n \in N : Zeros(x, A) \subseteq Zeros(R[n], A)
      BY <1>1, <2>1, <2>3 DEF Covers
    <3>2. Zeros(x, B) \subseteq Zeros(S[n], B)
      BY <1>2, <1>3, <3>1
    <3> QED BY <3>2
  <2> QED BY <2>2, <2>3
<1>7. ASSUME NEW n \in M
      PROVE  S[n] \in IntRow /\ Within(S[n], B) /\ Zeros(S[n], B) # DOMAIN B
  <2>1. CASE n \in N
    <3>1. Verifies(S[n], h)
      BY <1>3, <2>1 DEF Verifies
    <3> QED BY <1>2, <1>3, <2>1, <3>1
  <2>2. CASE n = z /\ h[0] # 0
    <3>1. Verifies(S[z], h)
      BY <1>4, <2>2 DEF Verifies
    <3>2. InnerProduct(S[z], h) # 0
      BY <1>4
    <3> QED BY <1>2, <1>4, <1>5, <2>2, <3>1, <3>2
  <2> QED BY <2>1, <2>2
<1>8. ASSUME NEW n \in M, NEW m \in M, Zeros(S[n], B) \subseteq Zeros(S[m], B)
      PROVE  m = n
  <2>1. /\ Zeros(S[n], A) \subseteq Zeros(S[m], A)
        /\ InnerProduct(S[n], h) = 0 => InnerProduct(S[m], h) = 0
    BY <1>2, <1>8
  <2>2. CASE n \in N /\ m \in N
    BY <1>3, <2>1, <2>2
  <2>3. CASE n \in N /\ m = z
    BY <1>3, <1>4, <2>1, <2>3
  <2>4. CASE n = z /\ m \in N
    BY <1>2, <1>3, <1>4, <2>1, <2>4
  <2> QED BY <2>2, <2>3, <2>4
<1>9. LinesSpan(B, S, Q)
  <2>1. ASSUME NEW y \in IntRow, NEW v \in IntRow, Zeros(y, B) = DOMAIN B, \A n \in Q : InnerProduct(v, S[n]) = 0
        PROVE  InnerProduct(v, y) = 0
    <3>1. Zeros(y, A) = DOMAIN A /\ InnerProduct(y, h) = 0
      BY <1>2, <2>1
    <3> QED BY <2>1, <3>1, LinesLeft
  <2> QED BY <2>1 DEF LinesSpan
<1>10. IsFiniteSet(Q) /\ \A n \in Q : S[n] \in IntRow
  BY DEF Straight
<1> HIDE DEF M
<1>11. Covers(B, S, M) /\ Extreme(B, S, M)
  BY <1>6, <1>7, <1>8 DEF Covers, Extreme
<1> QED BY <1>2, <1>9, <1>10, <1>11 DEF Describes, B, M

-----------------------------------------------------------------------------
(* Two families of rows, constraints and rays, that describe one cone.     *)

\* x is on the right side of every row of A, and on those of E.
Obeys(x, A, E) ==
  \A c \in DOMAIN A : /\ InnerProduct(x, A[c]) >= 0
                      /\ c \in E => InnerProduct(x, A[c]) = 0

\* The rays R satisfy the constraints A; the equalities E are those that all the
\* rays saturate and the lines L the rays that saturate all the constraints; and
\* what the constraints admit satisfies every inequality valid for the rays.
Tight(A, E, R, L) ==
  /\ IsFamily(A) /\ E \subseteq DOMAIN A
  /\ IsFamily(R) /\ L \subseteq DOMAIN R
  /\ \A r \in DOMAIN R : Obeys(R[r], A, E)
  /\ \A r \in L, c \in DOMAIN A : InnerProduct(R[r], A[c]) = 0
  /\ \A c \in DOMAIN A \ E : \E r \in DOMAIN R : InnerProduct(R[r], A[c]) > 0
  /\ \A r \in DOMAIN R \ L : \E c \in DOMAIN A : InnerProduct(R[r], A[c]) > 0
  /\ \A x \in IntRow, p \in IntRow :
       Obeys(x, A, E) /\ Obeys(p, R, L) => InnerProduct(x, p) >= 0

\* What is known of a ray and a constraint.
LEMMA TightProducts ==
  ASSUME NEW A, NEW E, NEW R, NEW L, Tight(A, E, R, L), NEW r \in DOMAIN R, NEW c \in DOMAIN A
  PROVE  /\ A[c] \in IntRow /\ R[r] \in IntRow
         /\ InnerProduct(R[r], A[c]) \in Nat
         /\ InnerProduct(A[c], R[r]) = InnerProduct(R[r], A[c])
         /\ c \in E \/ r \in L => InnerProduct(R[r], A[c]) = 0
<1>1. A[c] \in IntRow /\ R[r] \in IntRow
  BY DEF Tight, IsFamily
<1>2. InnerProduct(R[r], A[c]) \in Int /\ InnerProduct(A[c], R[r]) = InnerProduct(R[r], A[c])
  BY <1>1, InnerProductInt, InnerProductSymmetric
<1>3. Obeys(R[r], A, E) /\ (r \in L => InnerProduct(R[r], A[c]) = 0)
  BY DEF Tight
<1>4. InnerProduct(R[r], A[c]) >= 0 /\ (c \in E => InnerProduct(R[r], A[c]) = 0)
  BY <1>3 DEF Obeys
<1> QED BY <1>1, <1>2, <1>3, <1>4

\* Both ways a constraint obeys the rays.
LEMMA ConstraintObeys ==
  ASSUME NEW A, NEW E, NEW R, NEW L, Tight(A, E, R, L), NEW c \in DOMAIN A
  PROVE  A[c] \in IntRow /\ Obeys(A[c], R, L)
<1>1. A[c] \in IntRow
  BY DEF Tight, IsFamily
<1>2. ASSUME NEW r \in DOMAIN R
      PROVE  InnerProduct(A[c], R[r]) >= 0 /\ (r \in L => InnerProduct(A[c], R[r]) = 0)
  BY TightProducts
<1> QED BY <1>1, <1>2 DEF Obeys

\* Constraints and rays have the same rights.
LEMMA TightSwapped ==
  ASSUME NEW A, NEW E, NEW R, NEW L, Tight(A, E, R, L)
  PROVE  Tight(R, L, A, E)
<1>1. \A c \in DOMAIN A : Obeys(A[c], R, L)
  BY ConstraintObeys
<1>2. \A c \in E, r \in DOMAIN R : InnerProduct(A[c], R[r]) = 0
  <2>1. E \subseteq DOMAIN A
    BY DEF Tight
  <2> QED BY <2>1, TightProducts
<1>3. \A r \in DOMAIN R \ L : \E c \in DOMAIN A : InnerProduct(A[c], R[r]) > 0
  <2>1. ASSUME NEW r \in DOMAIN R \ L PROVE \E c \in DOMAIN A : InnerProduct(A[c], R[r]) > 0
    <3>1. PICK c \in DOMAIN A : InnerProduct(R[r], A[c]) > 0
      BY DEF Tight
    <3> QED BY <3>1, TightProducts
  <2> QED BY <2>1
<1>4. \A c \in DOMAIN A \ E : \E r \in DOMAIN R : InnerProduct(A[c], R[r]) > 0
  <2>1. ASSUME NEW c \in DOMAIN A \ E PROVE \E r \in DOMAIN R : InnerProduct(A[c], R[r]) > 0
    <3>1. PICK r \in DOMAIN R : InnerProduct(R[r], A[c]) > 0
      BY DEF Tight
    <3> QED BY <3>1, TightProducts
  <2> QED BY <2>1
<1>5. ASSUME NEW p \in IntRow, NEW x \in IntRow, Obeys(p, R, L), Obeys(x, A, E)
      PROVE  InnerProduct(p, x) >= 0
  <2>1. InnerProduct(x, p) >= 0
    BY <1>5 DEF Tight
  <2> QED BY <2>1, InnerProductSymmetric
<1> QED BY <1>1, <1>2, <1>3, <1>4, <1>5 DEF Tight

\* What the constraints admit satisfies what is valid for the rays.
LEMMA TightMeets ==
  ASSUME NEW A, NEW E, NEW R, NEW L, Tight(A, E, R, L),
         NEW x \in IntRow, Obeys(x, A, E), NEW p \in IntRow, Obeys(p, R, L)
  PROVE  InnerProduct(x, p) >= 0 /\ InnerProduct(x, p) \in Int
BY InnerProductInt DEF Tight

\* What saturates a row does so reversed.
LEMMA ReversedZero ==
  ASSUME NEW x \in IntRow, NEW m \in IntRow, InnerProduct(x, m) = 0
  PROVE  Reversed(x) \in IntRow /\ InnerProduct(Reversed(x), m) = 0
<1> DEFINE X == InnerProduct(x, m)
           Y == InnerProduct(Reversed(x), m)
<1>1. Y = -X /\ Reversed(x) \in IntRow
  BY ReversedProduct
<1>2. X = 0 /\ Y \in Int
  BY <1>1, InnerProductInt
<1> HIDE DEF X, Y
<1>3. \A y \in Int, z \in Int : z = -y => z + y = 0
  OBVIOUS
<1>4. X \in Int
  BY <1>2
<1>5. Y + X = 0
  BY <1>1, <1>2, <1>3, <1>4
<1>6. Y = 0
  BY <1>2, <1>5
<1> QED BY <1>1, <1>6 DEF Y

\* A row that saturates a family obeys it both ways.
LEMMA FlatReversed ==
  ASSUME NEW A, IsFamily(A), NEW E, NEW x \in IntRow, \A c \in DOMAIN A : InnerProduct(x, A[c]) = 0
  PROVE  Obeys(x, A, E) /\ Reversed(x) \in IntRow /\ Obeys(Reversed(x), A, E)
<1>1. ASSUME NEW c \in DOMAIN A PROVE InnerProduct(Reversed(x), A[c]) = 0
  <2>1. A[c] \in IntRow
    BY DEF IsFamily
  <2> QED BY <2>1, ReversedZero
<1>2. Reversed(x) \in IntRow
  <2>1. Reversed(x) = Mix(-1, x, 0, x) /\ -1 \in Int /\ 0 \in Int
    BY DEF Reversed
  <2> QED BY <2>1, MixRow
<1> QED BY <1>1, <1>2 DEF Obeys

\* So it is orthogonal to all that is valid on the other side.
LEMMA FlatMeets ==
  ASSUME NEW A, NEW E, NEW R, NEW L, Tight(A, E, R, L), NEW x \in IntRow,
         \A c \in DOMAIN A : InnerProduct(x, A[c]) = 0, NEW p \in IntRow, Obeys(p, R, L)
  PROVE  InnerProduct(x, p) = 0
<1>1. IsFamily(A)
  BY DEF Tight
<1>2. Obeys(x, A, E) /\ Reversed(x) \in IntRow /\ Obeys(Reversed(x), A, E)
  BY <1>1, FlatReversed
<1>3. InnerProduct(x, p) >= 0 /\ InnerProduct(x, p) \in Int
  BY <1>2, TightMeets
<1>4. InnerProduct(Reversed(x), p) >= 0
  BY <1>2, TightMeets
<1>5. InnerProduct(Reversed(x), p) = -InnerProduct(x, p)
  BY ReversedProduct
<1> QED BY <1>3, <1>4, <1>5

-----------------------------------------------------------------------------
(* Multiples that outweigh, and vectors inside a cone.                     *)

\* A multiple of positive numbers outweighs finitely many integers.
LEMMA Multiple ==
  ASSUME NEW P, IsFiniteSet(P), NEW f, NEW g, \A c \in P : f[c] \in Nat \ {0} /\ g[c] \in Int
  PROVE  \E K \in Nat \ {0} : \A c \in P : K * f[c] + g[c] > 0
<1>1. CASE P = {}
  <2>1. 1 \in Nat \ {0} /\ \A c \in P : 1 * f[c] + g[c] > 0
    BY <1>1
  <2> QED BY <2>1
<1>2. CASE P # {}
  <2> DEFINE size(y) == IF y > 0 THEN y + 1 ELSE 1 - y
             one == [c \in P |-> 1]
             h == [c \in P |-> size(g[c])]
  <2>1. one \in [P -> Nat] /\ h \in [P -> Nat \ {0}]
    OBVIOUS
  <2>2. one \in [P -> Nat \ {0}] /\ h \in [P -> Nat]
    BY <2>1
  <2>3. PICK e : LeastRatio(e, P, one, h)
    <3> HIDE DEF one, h
    <3> QED BY <1>2, <2>1, LeastRatioExists
  <2>4. e \in P /\ \A c \in P : one[e] * h[c] <= one[c] * h[e]
    BY <2>3 DEF LeastRatio
  <2> DEFINE K == h[e]
  <2>5. K \in Nat \ {0}
    BY <2>1, <2>4
  <2>6. ASSUME NEW c \in P PROVE K * f[c] + g[c] > 0
    <3>1. one[e] = 1 /\ one[c] = 1 /\ h[c] = size(g[c]) /\ h[c] \in Nat \ {0} /\ h[e] \in Nat \ {0}
      BY <2>1, <2>4
    <3>2. 1 * h[c] <= 1 * h[e]
      BY <2>4, <3>1
    <3>3. h[c] <= K
      BY <3>1, <3>2
    <3>4. h[c] > -g[c]
      BY <3>1
    <3> HIDE DEF h, K
    <3>5. f[c] \in Nat \ {0} /\ g[c] \in Int
      OBVIOUS
    <3>6. K * f[c] >= K
      BY <2>5, <3>5
    <3> QED BY <2>5, <3>1, <3>3, <3>4, <3>5, <3>6
  <2> QED BY <2>5, <2>6
<1> QED BY <1>1, <1>2

\* A combination with weights that are not negative obeys what both obey.
LEMMA MixObeys ==
  ASSUME NEW A, IsFamily(A), NEW E, NEW x \in IntRow, NEW y \in IntRow, Obeys(x, A, E), Obeys(y, A, E),
         NEW a \in Nat, NEW b \in Nat
  PROVE  Mix(a, x, b, y) \in IntRow /\ Obeys(Mix(a, x, b, y), A, E)
<1>1. ASSUME NEW c \in DOMAIN A
      PROVE  /\ InnerProduct(Mix(a, x, b, y), A[c]) >= 0
             /\ c \in E => InnerProduct(Mix(a, x, b, y), A[c]) = 0
  <2> DEFINE X == InnerProduct(x, A[c])
             Y == InnerProduct(y, A[c])
  <2>1. A[c] \in IntRow
    BY DEF IsFamily
  <2>2. X \in Nat /\ Y \in Nat /\ (c \in E => X = 0 /\ Y = 0)
    BY <2>1, InnerProductInt DEF Obeys
  <2>3. InnerProduct(Mix(a, x, b, y), A[c]) = a * X + b * Y
    BY <2>1, MixProduct
  <2> HIDE DEF X, Y
  <2>4. a * X >= 0 /\ b * Y >= 0 /\ a * X \in Int /\ b * Y \in Int /\ (X = 0 => a * X = 0) /\ (Y = 0 => b * Y = 0)
    BY <2>2
  <2> QED BY <2>2, <2>3, <2>4
<1>2. Mix(a, x, b, y) \in IntRow
  <2>1. a \in Int /\ b \in Int
    OBVIOUS
  <2> QED BY <2>1, MixRow
<1> QED BY <1>1, <1>2 DEF Obeys
-----------------------------------------------------------------------------
(* Leaving out what another row covers.                                    *)

\* The rows K of A.
Only(A, K) == [c \in K |-> A[c]]

\* The rows of R that p saturates.
Touched(p, R) == {r \in DOMAIN R : InnerProduct(R[r], p) = 0}

\* It is enough that the cone of the constraints has not grown.
LEMMA TightOnly ==
  ASSUME NEW A, NEW E, NEW R, NEW L, Tight(A, E, R, L), NEW K, E \subseteq K, K \subseteq DOMAIN A,
         \A x \in IntRow : Obeys(x, Only(A, K), E) => Obeys(x, A, E)
  PROVE  Tight(Only(A, K), E, R, L)
<1> DEFINE B == Only(A, K)
<1>1. DOMAIN B = K /\ (\A c \in K : B[c] = A[c])
  BY DEF Only
<1>2. IsFamily(A) /\ IsFamily(R) /\ L \subseteq DOMAIN R
  BY DEF Tight
<1> HIDE DEF B
<1>3. IsFamily(B)
  <2>1. IsFiniteSet(K)
    BY <1>2, FS_Subset DEF IsFamily
  <2> QED BY <1>1, <1>2, <2>1 DEF IsFamily
<1>4. \A r \in DOMAIN R : Obeys(R[r], B, E)
  BY <1>1 DEF Tight, Obeys
<1>5. \A r \in L, c \in DOMAIN B : InnerProduct(R[r], B[c]) = 0
  BY <1>1 DEF Tight
<1>6. \A c \in DOMAIN B \ E : \E r \in DOMAIN R : InnerProduct(R[r], B[c]) > 0
  BY <1>1 DEF Tight
<1>7. \A x \in IntRow, p \in IntRow : Obeys(x, B, E) /\ Obeys(p, R, L) => InnerProduct(x, p) >= 0
  BY TightMeets DEF B
<1>8. ASSUME NEW r \in DOMAIN R \ L PROVE \E c \in DOMAIN B : InnerProduct(R[r], B[c]) > 0
  <2> SUFFICES ASSUME \A c \in DOMAIN B : ~(InnerProduct(R[r], B[c]) > 0) PROVE FALSE
    OBVIOUS
  <2>1. PICK c \in DOMAIN A : InnerProduct(R[r], A[c]) > 0
    BY DEF Tight
  <2>2. R[r] \in IntRow
    BY <1>2 DEF IsFamily
  <2>3. \A e \in DOMAIN B : InnerProduct(R[r], B[e]) = 0
    <3>1. ASSUME NEW e \in DOMAIN B PROVE InnerProduct(R[r], B[e]) \in Nat
      BY <1>1, TightProducts
    <3> QED BY <3>1
  <2>4. Reversed(R[r]) \in IntRow /\ Obeys(Reversed(R[r]), B, E)
    BY <1>3, <2>2, <2>3, FlatReversed
  <2>5. A[c] \in IntRow /\ Obeys(A[c], R, L)
    BY ConstraintObeys
  <2>6. InnerProduct(Reversed(R[r]), A[c]) >= 0
    BY <1>7, <2>4, <2>5
  <2>7. InnerProduct(Reversed(R[r]), A[c]) = -InnerProduct(R[r], A[c]) /\ InnerProduct(R[r], A[c]) \in Int
    BY <2>2, <2>5, ReversedProduct, InnerProductInt
  <2> QED BY <2>1, <2>6, <2>7
<1>9. E \subseteq DOMAIN B
  BY <1>1
<1> QED BY <1>2, <1>3, <1>4, <1>5, <1>6, <1>7, <1>8, <1>9 DEF Tight, B

(***************************************************************************)
(* A constraint c can be left out when the rays that saturate it saturate  *)
(* another one, d, that is no equality.  From a vector that violates c     *)
(* alone, move towards a ray inside d until c is saturated: this vector is *)
(* in the cone and inside d, although c outweighs d on all the rays.       *)
(***************************************************************************)
LEMMA CoveredRow ==
  ASSUME NEW A, NEW E, NEW R, NEW L, Tight(A, E, R, L), NEW c \in DOMAIN A \ E, NEW d \in DOMAIN A \ E, c # d,
         Touched(A[c], R) \subseteq Touched(A[d], R),
         NEW x \in IntRow, Obeys(x, Only(A, DOMAIN A \ {c}), E)
  PROVE  Obeys(x, A, E)
<1>1. IsFamily(A) /\ IsFamily(R)
  BY DEF Tight
<1>2. \A e \in DOMAIN A : e # c => /\ InnerProduct(x, A[e]) >= 0
                                   /\ e \in E => InnerProduct(x, A[e]) = 0
  BY DEF Obeys, Only
<1>3. A[c] \in IntRow /\ A[d] \in IntRow /\ InnerProduct(x, A[c]) \in Int /\ InnerProduct(x, A[d]) \in Int
  BY <1>1, InnerProductInt DEF IsFamily
<1>4. CASE InnerProduct(x, A[c]) >= 0
  BY <1>2, <1>4 DEF Obeys
<1>5. CASE InnerProduct(x, A[c]) < 0
  <2>1. PICK r \in DOMAIN R : InnerProduct(R[r], A[d]) > 0
    BY DEF Tight
  <2>2. R[r] \in IntRow /\ InnerProduct(R[r], A[c]) \in Nat /\ InnerProduct(R[r], A[d]) \in Nat
    BY TightProducts
  <2>3. InnerProduct(R[r], A[c]) # 0
    BY <2>1 DEF Touched
  <2> DEFINE a == InnerProduct(R[r], A[c])
             b == -InnerProduct(x, A[c])
             z == Mix(a, x, b, R[r])
  <2>4. a \in Nat /\ b \in Nat /\ a > 0 /\ b > 0 /\ a \in Int /\ b \in Int
    BY <1>3, <1>5, <2>2, <2>3
  <2>5. \A e \in DOMAIN A : A[e] \in IntRow /\ InnerProduct(z, A[e]) = a * InnerProduct(x, A[e]) + b * InnerProduct(R[r], A[e])
    <3> HIDE DEF a, b
    <3> QED BY <1>1, <2>2, <2>4, MixProduct DEF IsFamily
  <2>6. z \in IntRow
    <3> HIDE DEF a, b
    <3> QED BY <2>2, <2>4, MixRow
  <2>7. ASSUME NEW e \in DOMAIN A
        PROVE  /\ InnerProduct(z, A[e]) >= 0 /\ (e \in E => InnerProduct(z, A[e]) = 0)
               /\ e = c => InnerProduct(z, A[e]) = 0
               /\ e = d => InnerProduct(z, A[e]) > 0
    <3> DEFINE X == InnerProduct(x, A[e])
               Y == InnerProduct(R[r], A[e])
    <3>1. X \in Int /\ Y \in Nat /\ (e \in E => Y = 0) /\ InnerProduct(z, A[e]) = a * X + b * Y
      BY <1>1, <2>5, InnerProductInt, TightProducts DEF IsFamily
    <3>2. CASE e = c
      <4>1. a * X + b * Y = 0
        <5>1. X = -b /\ Y = a
          BY <1>3, <3>2
        <5> HIDE DEF a, b, X, Y
        <5>2. a * (-b) + b * a = 0
          <6>1. a * (-b) = -(a * b) /\ a * b \in Int /\ a * b = b * a
            BY <2>4
          <6> QED BY <6>1
        <5> QED BY <5>1, <5>2
      <4> QED BY <3>1, <3>2, <4>1
    <3>3. CASE e # c
      <4>1. X >= 0 /\ (e \in E => X = 0) /\ (e = d => Y > 0)
        BY <1>2, <2>1, <3>3
      <4> HIDE DEF a, b, X, Y, z
      <4>2. a * X \in Nat /\ b * Y \in Nat /\ (X = 0 => a * X = 0) /\ (Y = 0 => b * Y = 0) /\ (Y > 0 => b * Y > 0)
        BY <2>4, <3>1, <4>1
      <4> QED BY <3>1, <3>3, <4>1, <4>2
    <3> QED BY <3>2, <3>3
  <2>8. Obeys(z, A, E) /\ InnerProduct(z, A[c]) = 0 /\ InnerProduct(z, A[d]) > 0
    BY <2>7 DEF Obeys
  <2> DEFINE P == {s \in DOMAIN R : InnerProduct(R[s], A[c]) # 0}
             f == [s \in P |-> InnerProduct(R[s], A[c])]
             g == [s \in P |-> -InnerProduct(R[s], A[d])]
  <2>9. PICK K \in Nat \ {0} : \A s \in P : K * f[s] + g[s] > 0
    <3>1. IsFiniteSet(P)
      <4>1. P \in SUBSET DOMAIN R
        OBVIOUS
      <4> QED BY <1>1, <4>1, FS_Subset DEF IsFamily
    <3>2. ASSUME NEW s \in P PROVE f[s] \in Nat \ {0} /\ g[s] \in Int
      <4>1. InnerProduct(R[s], A[c]) \in Nat /\ InnerProduct(R[s], A[d]) \in Nat /\ InnerProduct(R[s], A[c]) # 0
        BY TightProducts
      <4> QED BY <4>1
    <3> HIDE DEF P, f, g
    <3> QED BY <3>1, <3>2, Multiple
  <2> DEFINE q == Mix(K, A[c], -1, A[d])
  <2>10. K \in Int /\ -1 \in Int /\ K \in Nat
    OBVIOUS
  <2>11. q \in IntRow
    BY <1>3, <2>10, MixRow
  <2>12. \A m \in IntRow : InnerProduct(q, m) = K * InnerProduct(A[c], m) + (-1) * InnerProduct(A[d], m)
    BY <1>3, <2>10, MixProduct
  <2>13. \A m \in IntRow : InnerProduct(m, q) = K * InnerProduct(m, A[c]) + (-1) * InnerProduct(m, A[d])
    BY <1>3, <2>10, ProductMix
  <2> HIDE DEF q
  <2>14. ASSUME NEW s \in DOMAIN R
         PROVE  InnerProduct(q, R[s]) >= 0 /\ (s \in L => InnerProduct(q, R[s]) = 0)
    <3> DEFINE C == InnerProduct(R[s], A[c])
               D == InnerProduct(R[s], A[d])
    <3>1. /\ R[s] \in IntRow /\ C \in Nat /\ D \in Nat /\ (s \in L => C = 0 /\ D = 0)
          /\ InnerProduct(A[c], R[s]) = C /\ InnerProduct(A[d], R[s]) = D
      BY TightProducts
    <3>2. InnerProduct(q, R[s]) = K * C + (-1) * D
      BY <2>12, <3>1
    <3>3. C = 0 => D = 0
      BY DEF Touched
    <3>4. C # 0 => K * C + (-D) > 0
      <4>1. ASSUME C # 0 PROVE K * C + (-D) > 0
        <5>1. s \in P
          BY <4>1
        <5>2. K * f[s] + g[s] > 0
          BY <2>9, <5>1
        <5>3. f[s] = C /\ g[s] = -D
          BY <5>1
        <5> QED BY <5>2, <5>3
      <4> QED BY <4>1
    <3> HIDE DEF C, D
    <3>5. (-1) * D = -D /\ K * C \in Int /\ (C = 0 => K * C = 0)
      BY <2>10, <3>1
    <3> QED BY <3>1, <3>2, <3>3, <3>4, <3>5
  <2>15. InnerProduct(z, q) >= 0
    BY <2>6, <2>8, <2>11, <2>14, TightMeets DEF Obeys
  <2>16. InnerProduct(z, q) = K * 0 + (-1) * InnerProduct(z, A[d]) /\ InnerProduct(z, A[d]) \in Int
    <3> HIDE DEF z
    <3> QED BY <1>3, <2>6, <2>8, <2>13, InnerProductInt
  <2> HIDE DEF z
  <2>17. K * 0 = 0
    BY <2>10
  <2> QED BY <2>8, <2>15, <2>16, <2>17
<1> QED BY <1>3, <1>4, <1>5

\* One row less.
LEMMA OneLeftOut ==
  ASSUME NEW A, NEW E, NEW R, NEW L, Tight(A, E, R, L), NEW c \in DOMAIN A \ E, NEW d \in DOMAIN A \ E, c # d,
         Touched(A[c], R) \subseteq Touched(A[d], R)
  PROVE  Tight(Only(A, DOMAIN A \ {c}), E, R, L)
<1> DEFINE K == DOMAIN A \ {c}
<1>1. E \subseteq K /\ K \subseteq DOMAIN A
  BY DEF Tight
<1>2. \A x \in IntRow : Obeys(x, Only(A, K), E) => Obeys(x, A, E)
  BY CoveredRow
<1> HIDE DEF K
<1>3. Tight(Only(A, K), E, R, L)
  BY <1>1, <1>2, TightOnly
<1> QED BY <1>3 DEF K

\* Any number of rows that rows which stay cover.
LEMMA CoveredLeftOut ==
  ASSUME NEW A, NEW E, NEW R, NEW L, Tight(A, E, R, L), NEW K, E \subseteq K, K \subseteq DOMAIN A,
         \A c \in DOMAIN A \ K : \E d \in K \ E : Touched(A[c], R) \subseteq Touched(A[d], R)
  PROVE  Tight(Only(A, K), E, R, L)
<1> DEFINE N == DOMAIN A \ K
           m == Cardinality(N)
           T == {n \in 0..m : \A Q \in SUBSET N : Cardinality(Q) <= n => Tight(Only(A, K \cup (N \ Q)), E, R, L)}
<1>0. IsFiniteSet(N) /\ m \in Nat /\ \A Q \in SUBSET N : IsFiniteSet(Q) /\ Cardinality(Q) \in Nat
  <2>1. N \in SUBSET DOMAIN A /\ IsFiniteSet(DOMAIN A)
    BY DEF Tight, IsFamily
  <2>2. IsFiniteSet(N)
    BY <2>1, FS_Subset
  <2> QED BY <2>2, FS_Subset, FS_CardinalityType
<1>1. 0 \in T
  <2>1. ASSUME NEW Q \in SUBSET N, Cardinality(Q) <= 0 PROVE Tight(Only(A, K \cup (N \ Q)), E, R, L)
    <3>1. Q = {}
      BY <1>0, <2>1, FS_EmptySet
    <3>2. K \cup (N \ Q) = DOMAIN A
      BY <3>1
    <3>3. \A x \in IntRow : Obeys(x, Only(A, DOMAIN A), E) => Obeys(x, A, E)
      BY DEF Obeys, Only
    <3>4. E \subseteq DOMAIN A /\ DOMAIN A \subseteq DOMAIN A
      OBVIOUS
    <3>5. Tight(Only(A, DOMAIN A), E, R, L)
      BY <3>3, <3>4, TightOnly
    <3> QED BY <3>2, <3>5
  <2> QED BY <1>0, <2>1
<1>2. ASSUME NEW n \in 0 .. m - 1, n \in T PROVE n + 1 \in T
  <2>1. ASSUME NEW Q \in SUBSET N, Cardinality(Q) <= n + 1 PROVE Tight(Only(A, K \cup (N \ Q)), E, R, L)
    <3>1. CASE Q = {}
      <4>1. Cardinality(Q) <= n
        BY <1>0, <3>1, FS_EmptySet
      <4> QED BY <1>2, <4>1
    <3>2. CASE Q # {}
      <4>1. PICK c \in Q : TRUE
        BY <3>2
      <4> DEFINE S == Q \ {c}
                 J == K \cup (N \ S)
                 B == Only(A, J)
      <4>2. S \in SUBSET N /\ Cardinality(S) <= n
        <5>1. Cardinality(S) = Cardinality(Q) - 1 /\ Cardinality(Q) \in Nat
          BY <1>0, <4>1, FS_RemoveElement
        <5> QED BY <2>1, <5>1
      <4>3. Tight(B, E, R, L)
        BY <1>2, <4>2
      <4>4. c \in DOMAIN A \ K
        BY <4>1
      <4>5. PICK d \in K \ E : Touched(A[c], R) \subseteq Touched(A[d], R)
        BY <4>4
      <4>6. /\ DOMAIN B = J /\ c \in J /\ d \in J /\ c \notin E /\ d \notin E /\ c # d /\ B[c] = A[c] /\ B[d] = A[d]
            /\ J \ {c} = K \cup (N \ Q)
        BY <4>1, <4>4, <4>5 DEF Only
      <4>7. Only(B, J \ {c}) = Only(A, K \cup (N \ Q))
        BY <4>6 DEF Only
      <4> HIDE DEF B, J, S
      <4>8. c \in DOMAIN B \ E /\ d \in DOMAIN B \ E /\ Touched(B[c], R) \subseteq Touched(B[d], R)
        BY <4>5, <4>6
      <4>9. Tight(Only(B, DOMAIN B \ {c}), E, R, L)
        BY <4>3, <4>6, <4>8, OneLeftOut
      <4> QED BY <4>6, <4>7, <4>9
    <3> QED BY <3>1, <3>2
  <2> HIDE DEF m
  <2> QED BY <1>0, <2>1
<1>3. 0..m \subseteq T
  <2> HIDE DEF T, m
  <2> QED BY <1>0, <1>1, <1>2, UpFromZero
<1>4. N \in SUBSET N /\ Cardinality(N) <= m /\ m \in 0..m /\ K \cup (N \ N) = K
  BY <1>0
<1> QED BY <1>3, <1>4
-----------------------------------------------------------------------------
(* Vectors inside faces.                                                   *)

\* Among vectors that can be added, one saturates no more than any other.
LEMMA LeastSaturated ==
  ASSUME NEW A, IsFamily(A), NEW E, NEW B, B # {}, \A y \in B : y \in IntRow /\ Obeys(y, A, E),
         \A y \in B, z \in B : Mix(1, y, 1, z) \in B
  PROVE  \E y \in B : \A z \in B : Zeros(y, A) \subseteq Zeros(z, A)
<1> DEFINE S == {n \in Nat : \E x \in B : n = Cardinality(Zeros(x, A))}
<1>1. \A x : Zeros(x, A) \in SUBSET DOMAIN A /\ IsFiniteSet(Zeros(x, A)) /\ Cardinality(Zeros(x, A)) \in Nat
  <2>1. \A x : Zeros(x, A) \in SUBSET DOMAIN A
    BY DEF Zeros
  <2> QED BY <2>1, FS_Subset, FS_CardinalityType DEF IsFamily
<1>2. S # {} /\ S \subseteq Nat
  <2>1. PICK x \in B : TRUE
    OBVIOUS
  <2> QED BY <1>1, <2>1
<1>3. PICK n \in S : \A y \in S : n <= y
  <2> HIDE DEF S
  <2> QED BY <1>2, LeastElement
<1>4. PICK y \in B : n = Cardinality(Zeros(y, A))
  BY <1>3
<1>5. ASSUME NEW z \in B PROVE Zeros(y, A) \subseteq Zeros(z, A)
  <2> DEFINE w == Mix(1, y, 1, z)
  <2>1. w \in B
    OBVIOUS
  <2>2. \A c \in DOMAIN A : InnerProduct(w, A[c]) = 0 <=> InnerProduct(y, A[c]) = 0 /\ InnerProduct(z, A[c]) = 0
    <3>1. ASSUME NEW c \in DOMAIN A
          PROVE  InnerProduct(w, A[c]) = 0 <=> InnerProduct(y, A[c]) = 0 /\ InnerProduct(z, A[c]) = 0
      <4>1. A[c] \in IntRow /\ y \in IntRow /\ z \in IntRow
        BY DEF IsFamily
      <4>2. InnerProduct(y, A[c]) \in Nat /\ InnerProduct(z, A[c]) \in Nat
        BY <4>1, InnerProductInt DEF Obeys
      <4>3. InnerProduct(w, A[c]) = 1 * InnerProduct(y, A[c]) + 1 * InnerProduct(z, A[c])
        BY <4>1, MixProduct
      <4> QED BY <4>2, <4>3
    <3> QED BY <3>1
  <2>3. Zeros(w, A) \in SUBSET Zeros(y, A) /\ Zeros(w, A) \subseteq Zeros(z, A)
    BY <2>2 DEF Zeros
  <2>4. Cardinality(Zeros(w, A)) \in S
    BY <1>1, <2>1
  <2>5. Cardinality(Zeros(y, A)) <= Cardinality(Zeros(w, A))
    BY <1>3, <1>4, <2>4
  <2>6. Cardinality(Zeros(w, A)) <= Cardinality(Zeros(y, A))
          /\ (Cardinality(Zeros(w, A)) = Cardinality(Zeros(y, A)) => Zeros(w, A) = Zeros(y, A))
    BY <1>1, <2>3, FS_Subset
  <2> HIDE DEF w
  <2>7. Zeros(w, A) = Zeros(y, A)
    BY <1>1, <2>5, <2>6
  <2> QED BY <2>3, <2>7
<1> QED BY <1>5

\* From a vector of the cone a short step is possible in every direction that
\* leaves none of the constraints it saturates.
LEMMA ShortStep ==
  ASSUME NEW A, IsFamily(A), NEW E, NEW y \in IntRow, Obeys(y, A, E), NEW v \in IntRow,
         \A c \in DOMAIN A : InnerProduct(y, A[c]) = 0 => InnerProduct(v, A[c]) >= 0,
         \A c \in DOMAIN A : c \in E => InnerProduct(v, A[c]) = 0
  PROVE  \E K \in Nat \ {0} : Mix(K, y, 1, v) \in IntRow /\ Obeys(Mix(K, y, 1, v), A, E)
<1> DEFINE P == {c \in DOMAIN A : InnerProduct(y, A[c]) # 0}
           f == [c \in P |-> InnerProduct(y, A[c])]
           g == [c \in P |-> InnerProduct(v, A[c])]
<1>1. ASSUME NEW c \in DOMAIN A
      PROVE  A[c] \in IntRow /\ InnerProduct(y, A[c]) \in Nat /\ InnerProduct(v, A[c]) \in Int
               /\ (c \in E => InnerProduct(y, A[c]) = 0)
  BY InnerProductInt DEF IsFamily, Obeys
<1>2. IsFiniteSet(P)
  <2>1. P \in SUBSET DOMAIN A
    OBVIOUS
  <2> QED BY <2>1, FS_Subset DEF IsFamily
<1>3. \A c \in P : f[c] \in Nat \ {0} /\ g[c] \in Int
  BY <1>1
<1>4. PICK K \in Nat \ {0} : \A c \in P : K * f[c] + g[c] > 0
  <2> HIDE DEF P, f, g
  <2> QED BY <1>2, <1>3, Multiple
<1>5. K \in Int /\ 1 \in Int
  OBVIOUS
<1>6. ASSUME NEW c \in DOMAIN A
      PROVE  /\ InnerProduct(Mix(K, y, 1, v), A[c]) >= 0
             /\ c \in E => InnerProduct(Mix(K, y, 1, v), A[c]) = 0
  <2> DEFINE Y == InnerProduct(y, A[c])
             V == InnerProduct(v, A[c])
  <2>1. InnerProduct(Mix(K, y, 1, v), A[c]) = K * Y + 1 * V
    BY <1>1, <1>5, MixProduct
  <2>2. Y \in Nat /\ V \in Int /\ (c \in E => Y = 0 /\ V = 0) /\ (Y = 0 => V >= 0)
    BY <1>1
  <2>3. ASSUME Y # 0 PROVE K * Y + V > 0
    <3>1. c \in P
      BY <2>3
    <3>2. K * f[c] + g[c] > 0 /\ f[c] = Y /\ g[c] = V
      BY <1>4, <3>1
    <3> QED BY <3>2
  <2> HIDE DEF Y, V
  <2>4. K * Y \in Int /\ 1 * V = V /\ (Y = 0 => K * Y = 0)
    BY <1>5, <2>2
  <2> QED BY <2>1, <2>2, <2>3, <2>4
<1> QED BY <1>5, <1>6, MixRow DEF Obeys

\* The zero row, and the sum of two rows.
LEMMA ZeroRow ==
  ASSUME NEW p \in IntRow
  PROVE  Mix(0, p, 0, p) \in IntRow /\ \A m \in IntRow : InnerProduct(Mix(0, p, 0, p), m) = 0
<1>1. 0 \in Int
  OBVIOUS
<1>2. ASSUME NEW m \in IntRow PROVE InnerProduct(Mix(0, p, 0, p), m) = 0
  <2>1. InnerProduct(Mix(0, p, 0, p), m) = 0 * InnerProduct(p, m) + 0 * InnerProduct(p, m) /\ InnerProduct(p, m) \in Int
    BY <1>1, MixProduct, InnerProductInt
  <2> QED BY <2>1
<1> QED BY <1>1, <1>2, MixRow

(***************************************************************************)
(* A valid inequality that is positive somewhere holds on a face of one of *)
(* the constraints: on the face it holds on, take a vector inside; were it *)
(* inside all the constraints, one could go further than the inequality.   *)
(***************************************************************************)
LEMMA OnFacet ==
  ASSUME NEW A, NEW E, NEW R, NEW L, Tight(A, E, R, L), NEW p \in IntRow, Obeys(p, R, L),
         NEW s \in DOMAIN R, InnerProduct(p, R[s]) > 0
  PROVE  \E d \in DOMAIN A \ E : Touched(p, R) \subseteq Touched(A[d], R)
<1> DEFINE B == {y \in IntRow : Obeys(y, A, E) /\ InnerProduct(y, p) = 0}
<1>1. IsFamily(A) /\ IsFamily(R) /\ E \subseteq DOMAIN A
  BY DEF Tight
<1>2. B # {}
  <2>1. Mix(0, p, 0, p) \in IntRow /\ \A m \in IntRow : InnerProduct(Mix(0, p, 0, p), m) = 0
    BY ZeroRow
  <2>2. Obeys(Mix(0, p, 0, p), A, E)
    BY <1>1, <2>1 DEF Obeys, IsFamily
  <2> QED BY <2>1, <2>2
<1>3. ASSUME NEW y \in B, NEW z \in B PROVE Mix(1, y, 1, z) \in B
  <2>1. 1 \in Nat /\ 1 \in Int
    OBVIOUS
  <2>2. Mix(1, y, 1, z) \in IntRow /\ Obeys(Mix(1, y, 1, z), A, E)
    BY <1>1, <2>1, MixObeys
  <2>3. InnerProduct(Mix(1, y, 1, z), p) = 1 * 0 + 1 * 0
    BY <2>1, MixProduct
  <2> QED BY <2>2, <2>3
<1>4. PICK y \in B : \A z \in B : Zeros(y, A) \subseteq Zeros(z, A)
  <2>1. \A x \in B : x \in IntRow /\ Obeys(x, A, E)
    OBVIOUS
  <2> HIDE DEF B
  <2> QED BY <1>1, <1>2, <1>3, <2>1, LeastSaturated
<1>5. R[s] \in IntRow /\ Reversed(R[s]) \in IntRow
  BY <1>1, ReversedProduct DEF IsFamily
<1>6. PICK d \in DOMAIN A \ E : InnerProduct(y, A[d]) = 0
  <2> SUFFICES ASSUME \A d \in DOMAIN A \ E : InnerProduct(y, A[d]) # 0 PROVE FALSE
    OBVIOUS
  <2> DEFINE v == Reversed(R[s])
  <2>1. \A c \in DOMAIN A : c \in E => InnerProduct(v, A[c]) = 0
    <3>1. ASSUME NEW c \in DOMAIN A, c \in E PROVE InnerProduct(v, A[c]) = 0
      <4>1. A[c] \in IntRow /\ InnerProduct(R[s], A[c]) = 0
        BY <3>1, TightProducts
      <4> QED BY <1>5, <4>1, ReversedZero
    <3> QED BY <3>1
  <2>2. \A c \in DOMAIN A : InnerProduct(y, A[c]) = 0 => InnerProduct(v, A[c]) >= 0
    <3>1. \A c \in DOMAIN A : InnerProduct(y, A[c]) = 0 => InnerProduct(v, A[c]) = 0
      BY <2>1
    <3> QED BY <3>1
  <2>3. y \in IntRow /\ Obeys(y, A, E) /\ v \in IntRow /\ InnerProduct(y, p) = 0
    BY <1>5
  <2> HIDE DEF v
  <2>4. PICK K \in Nat \ {0} : Mix(K, y, 1, v) \in IntRow /\ Obeys(Mix(K, y, 1, v), A, E)
    BY <1>1, <2>1, <2>2, <2>3, ShortStep
  <2>5. InnerProduct(Mix(K, y, 1, v), p) >= 0
    BY <2>4, TightMeets
  <2>6. K \in Int /\ 1 \in Int /\ K * 0 = 0
    OBVIOUS
  <2>7. InnerProduct(Mix(K, y, 1, v), p) = K * 0 + 1 * InnerProduct(v, p)
    BY <2>3, <2>6, MixProduct
  <2>8. InnerProduct(v, p) = -InnerProduct(R[s], p) /\ InnerProduct(R[s], p) = InnerProduct(p, R[s]) /\ InnerProduct(R[s], p) \in Int
    BY <1>5, ReversedProduct, InnerProductInt, InnerProductSymmetric DEF v
  <2> QED BY <2>5, <2>6, <2>7, <2>8
<1>7. ASSUME NEW r \in Touched(p, R) PROVE r \in Touched(A[d], R)
  <2>1. r \in DOMAIN R /\ R[r] \in IntRow /\ Obeys(R[r], A, E) /\ InnerProduct(R[r], p) = 0
    BY <1>1 DEF Touched, IsFamily, Tight
  <2>2. R[r] \in B /\ d \in Zeros(y, A)
    BY <1>6, <2>1 DEF Zeros
  <2>3. d \in Zeros(R[r], A)
    BY <1>4, <2>2
  <2> QED BY <2>1, <2>3 DEF Zeros, Touched
<1> QED BY <1>7

(***************************************************************************)
(* What saturates all the rays is spanned by the equalities: it is         *)
(* orthogonal to whatever they are orthogonal to, a direction in which one *)
(* can go both ways from inside the cone.                                  *)
(***************************************************************************)
LEMMA EqualitiesSpan ==
  ASSUME NEW A, NEW E, NEW R, NEW L, Tight(A, E, R, L), NEW p \in IntRow,
         \A r \in DOMAIN R : InnerProduct(p, R[r]) = 0,
         NEW v \in IntRow, \A c \in E : InnerProduct(v, A[c]) = 0
  PROVE  InnerProduct(v, p) = 0
<1> DEFINE B == {y \in IntRow : Obeys(y, A, E)}
<1>1. IsFamily(A) /\ IsFamily(R) /\ E \subseteq DOMAIN A
  BY DEF Tight
<1>2. B # {}
  <2>1. Mix(0, p, 0, p) \in IntRow /\ \A m \in IntRow : InnerProduct(Mix(0, p, 0, p), m) = 0
    BY ZeroRow
  <2>2. Obeys(Mix(0, p, 0, p), A, E)
    BY <1>1, <2>1 DEF Obeys, IsFamily
  <2> QED BY <2>1, <2>2
<1>3. ASSUME NEW y \in B, NEW z \in B PROVE Mix(1, y, 1, z) \in B
  <2>1. 1 \in Nat
    OBVIOUS
  <2> QED BY <1>1, <2>1, MixObeys
<1>4. PICK y \in B : \A z \in B : Zeros(y, A) \subseteq Zeros(z, A)
  <2>1. \A x \in B : x \in IntRow /\ Obeys(x, A, E)
    OBVIOUS
  <2> HIDE DEF B
  <2> QED BY <1>1, <1>2, <1>3, <2>1, LeastSaturated
<1>5. ASSUME NEW c \in DOMAIN A, InnerProduct(y, A[c]) = 0 PROVE c \in E
  <2> SUFFICES ASSUME c \notin E PROVE FALSE
    OBVIOUS
  <2>1. PICK r \in DOMAIN R : InnerProduct(R[r], A[c]) > 0
    BY DEF Tight
  <2>2. R[r] \in B
    BY <1>1 DEF Tight, IsFamily
  <2>3. c \in Zeros(R[r], A)
    BY <1>4, <1>5, <2>2 DEF Zeros
  <2> QED BY <2>1, <2>3 DEF Zeros
<1>6. \A c \in DOMAIN A : c \in E => InnerProduct(v, A[c]) = 0
  OBVIOUS
<1>7. \A c \in DOMAIN A : InnerProduct(y, A[c]) = 0 => InnerProduct(v, A[c]) >= 0
  <2>1. \A c \in DOMAIN A : InnerProduct(y, A[c]) = 0 => InnerProduct(v, A[c]) = 0
    BY <1>5, <1>6
  <2> QED BY <2>1
<1>8. PICK K \in Nat \ {0} : Mix(K, y, 1, v) \in IntRow /\ Obeys(Mix(K, y, 1, v), A, E)
  BY <1>1, <1>6, <1>7, ShortStep
<1>9. InnerProduct(p, Mix(K, y, 1, v)) = 0 /\ InnerProduct(p, y) = 0
  <2>1. Tight(R, L, A, E)
    BY TightSwapped
  <2> QED BY <1>8, <2>1, FlatMeets
<1>10. InnerProduct(p, Mix(K, y, 1, v)) = K * InnerProduct(p, y) + 1 * InnerProduct(p, v) /\ InnerProduct(p, v) \in Int
  <2>1. K \in Int /\ 1 \in Int
    OBVIOUS
  <2> QED BY <2>1, ProductMix, InnerProductInt
<1>11. InnerProduct(p, v) = 0
  <2>1. K * 0 = 0
    OBVIOUS
  <2> QED BY <1>9, <1>10, <2>1
<1> QED BY <1>11, InnerProductSymmetric

-----------------------------------------------------------------------------
(* Constraints that too few rays saturate.                                 *)

\* The rows of R as inequalities.
Ones(R) == [r \in DOMAIN R |-> [R[r] EXCEPT ![0] = 1]]

\* Only the status words differ.
LEMMA OnesIs ==
  ASSUME NEW R, IsFamily(R)
  PROVE  /\ IsFamily(Ones(R)) /\ DOMAIN Ones(R) = DOMAIN R
         /\ \A x \in IntRow, r \in DOMAIN R :
              /\ InnerProduct(x, Ones(R)[r]) = InnerProduct(x, R[r])
              /\ InnerProduct(x, R[r]) = InnerProduct(R[r], x) /\ InnerProduct(x, R[r]) \in Int
              /\ Verifies(x, Ones(R)[r]) <=> InnerProduct(x, R[r]) >= 0
<1> DEFINE Q == Ones(R)
<1>1. DOMAIN Q = DOMAIN R /\ \A r \in DOMAIN R : Q[r] = [R[r] EXCEPT ![0] = 1]
  BY DEF Ones
<1> HIDE DEF Q
<1>2. ASSUME NEW r \in DOMAIN R
      PROVE  R[r] \in IntRow /\ Q[r] \in IntRow /\ Q[r][0] = 1 /\ \A c \in Coordinates : Q[r][c] = R[r][c]
  <2>1. R[r] \in IntRow
    BY DEF IsFamily
  <2> QED BY <1>1, <2>1, DimensionAssumption DEF IntRow, Coordinates
<1>3. IsFamily(Q)
  BY <1>1, <1>2 DEF IsFamily
<1>4. ASSUME NEW x \in IntRow, NEW r \in DOMAIN R
      PROVE  /\ InnerProduct(x, Q[r]) = InnerProduct(x, R[r])
             /\ InnerProduct(x, R[r]) = InnerProduct(R[r], x) /\ InnerProduct(x, R[r]) \in Int
             /\ Verifies(x, Q[r]) <=> InnerProduct(x, R[r]) >= 0
  <2>1. R[r] \in IntRow /\ Q[r] \in IntRow /\ Q[r][0] = 1 /\ \A c \in Coordinates : Q[r][c] = R[r][c]
    BY <1>2
  <2>2. InnerProduct(Q[r], x) = InnerProduct(R[r], x)
    BY <2>1, InnerProductSame
  <2>3. InnerProduct(x, Q[r]) = InnerProduct(x, R[r])
    BY <2>1, <2>2, InnerProductSymmetric
  <2> QED BY <2>1, <2>3, InnerProductSymmetric, InnerProductInt DEF Verifies
<1> QED BY <1>1, <1>3, <1>4 DEF Q

(***************************************************************************)
(* When vectors fewer than Dimension - 1 are enough to fix the equalities  *)
(* and the rays that saturate constraint c, this constraint can be turned  *)
(* about its rays until another ray saturates it: it is then on a          *)
(* constraint that the rays of c saturate, and others.                     *)
(***************************************************************************)
LEMMA FewTouched ==
  ASSUME NEW A, NEW E, NEW R, NEW L, Tight(A, E, R, L), NEW c \in DOMAIN A \ E,
         NEW F, F \subseteq IntRow, IsFiniteSet(F), Cardinality(F) + 1 < Dimension,
         \A v \in IntRow : (\A f \in F : InnerProduct(f, v) = 0) =>
           /\ \A e \in E : InnerProduct(v, A[e]) = 0
           /\ \A r \in Touched(A[c], R) : InnerProduct(v, R[r]) = 0
  PROVE  \E d \in DOMAIN A \ E : /\ Touched(A[c], R) \subseteq Touched(A[d], R)
                                 /\ Touched(A[c], R) # Touched(A[d], R)
<1>1. IsFamily(A) /\ IsFamily(R) /\ E \subseteq DOMAIN A /\ L \subseteq DOMAIN R
  BY DEF Tight
<1>2. A[c] \in IntRow /\ Obeys(A[c], R, L)
  BY ConstraintObeys
<1>3. PICK v \in IntRow : /\ \E x \in Coordinates : v[x] # 0
                          /\ \A f \in F \cup {A[c]} : InnerProduct(f, v) = 0
  <2>1. IsFiniteSet({A[c]}) /\ Cardinality({A[c]}) = 1
    BY FS_Singleton
  <2>2. IsFiniteSet(F \cup {A[c]}) /\ Cardinality(F \cup {A[c]}) <= Cardinality(F) + Cardinality({A[c]})
    BY <2>1, UnionSize
  <2>3. Cardinality(F) \in Nat /\ Cardinality(F \cup {A[c]}) \in Nat
    BY <2>2, FS_CardinalityType
  <2>4. Cardinality(F \cup {A[c]}) < Dimension
    BY <2>1, <2>2, <2>3, DimensionAssumption
  <2>5. F \cup {A[c]} \subseteq IntRow
    BY <1>2
  <2> QED BY <2>2, <2>4, <2>5, NullVector
<1>4. /\ \A e \in E : InnerProduct(v, A[e]) = 0
      /\ \A r \in Touched(A[c], R) : InnerProduct(v, R[r]) = 0
      /\ InnerProduct(A[c], v) = 0 /\ InnerProduct(v, v) # 0
  BY <1>3, SelfProduct
<1> DEFINE Turns(w) == /\ w \in IntRow /\ InnerProduct(A[c], w) = 0 /\ InnerProduct(w, w) # 0
                       /\ \A e \in E : InnerProduct(w, A[e]) = 0
                       /\ \A r \in Touched(A[c], R) : InnerProduct(w, R[r]) = 0
<1>5. PICK s \in DOMAIN R : InnerProduct(v, R[s]) # 0
  BY <1>4, EqualitiesSpan
<1>6. PICK w : Turns(w) /\ InnerProduct(w, R[s]) > 0
  <2>1. R[s] \in IntRow /\ InnerProduct(v, R[s]) \in Int
    BY <1>1, InnerProductInt DEF IsFamily
  <2>2. CASE InnerProduct(v, R[s]) > 0
    BY <1>3, <1>4, <2>2
  <2>3. CASE InnerProduct(v, R[s]) < 0
    <3>1. InnerProduct(Reversed(v), R[s]) = -InnerProduct(v, R[s])
      BY <2>1, ReversedProduct
    <3>2. InnerProduct(Reversed(v), R[s]) > 0
      BY <2>1, <2>3, <3>1
    <3>3. \A e \in E : A[e] \in IntRow
      BY <1>1 DEF IsFamily
    <3>4. \A r \in Touched(A[c], R) : R[r] \in IntRow
      BY <1>1 DEF IsFamily, Touched
    <3>5. InnerProduct(A[c], Reversed(v)) = 0 /\ InnerProduct(Reversed(v), Reversed(v)) # 0
      <4> DEFINE U == {A[c]}
      <4>1. U \subseteq IntRow /\ A[c] \in U /\ \A f \in U : InnerProduct(f, v) = 0
        BY <1>2, <1>4
      <4> HIDE DEF U
      <4> QED BY <1>4, <4>1, ReversedOrthogonal
    <3>6. /\ \A e \in E : InnerProduct(Reversed(v), A[e]) = 0
          /\ \A r \in Touched(A[c], R) : InnerProduct(Reversed(v), R[r]) = 0
      BY <1>4, <3>3, <3>4, ReversedZero
    <3>7. Reversed(v) \in IntRow
      BY <2>1, ReversedProduct
    <3> QED BY <3>2, <3>5, <3>6, <3>7
  <2> QED BY <1>5, <2>1, <2>2, <2>3
<1> DEFINE Q == Ones(R)
<1>7. /\ IsFamily(Q) /\ DOMAIN Q = DOMAIN R
      /\ \A x \in IntRow, r \in DOMAIN R :
           /\ InnerProduct(x, Q[r]) = InnerProduct(x, R[r])
           /\ InnerProduct(x, R[r]) = InnerProduct(R[r], x) /\ InnerProduct(x, R[r]) \in Int
           /\ Verifies(x, Q[r]) <=> InnerProduct(x, R[r]) >= 0
  BY <1>1, OnesIs
<1> HIDE DEF Q
<1>8. ASSUME NEW x \in IntRow PROVE Zeros(x, Q) = Touched(x, R) /\ (Within(x, Q) <=> \A r \in DOMAIN R : InnerProduct(x, R[r]) >= 0)
  BY <1>7 DEF Zeros, Touched, Within
<1>9. Within(A[c], Q) /\ Zeros(A[c], Q) \subseteq Zeros(w, Q) /\ InnerProduct(w, Q[s]) > 0
  <2>1. Touched(A[c], R) \subseteq Touched(w, R)
    BY <1>6, <1>7 DEF Touched
  <2> QED BY <1>2, <1>6, <1>7, <1>8, <2>1 DEF Obeys
<1>10. PICK a \in Nat \ {0}, b \in Nat \ {0} :
         /\ Mix(a, A[c], -b, w) \in IntRow /\ Within(Mix(a, A[c], -b, w), Q)
         /\ Zeros(A[c], Q) \subseteq Zeros(Mix(a, A[c], -b, w), Q)
         /\ Zeros(A[c], Q) # Zeros(Mix(a, A[c], -b, w), Q)
  <2>1. w \in IntRow /\ s \in DOMAIN Q
    BY <1>6, <1>7
  <2> QED BY <1>2, <1>7, <1>9, <2>1, MaximalStep
<1> DEFINE p == Mix(a, A[c], -b, w)
<1>11. /\ p \in IntRow /\ Touched(A[c], R) \subseteq Touched(p, R) /\ Touched(A[c], R) # Touched(p, R)
       /\ \A r \in DOMAIN R : InnerProduct(p, R[r]) >= 0
  BY <1>2, <1>8, <1>10
<1>12. InnerProduct(w, p) # 0
  <2>1. InnerProduct(w, p) = a * InnerProduct(w, A[c]) + (-b) * InnerProduct(w, w)
    <3>1. a \in Int /\ -b \in Int /\ w \in IntRow
      BY <1>6, <1>10
    <3> QED BY <1>2, <3>1, ProductMix
  <2>2. InnerProduct(w, A[c]) = 0 /\ InnerProduct(w, w) \in Int /\ InnerProduct(w, w) # 0
    BY <1>2, <1>6, InnerProductSymmetric, InnerProductInt
  <2> DEFINE W == InnerProduct(w, w)
  <2>3. InnerProduct(w, p) = a * 0 + (-b) * W /\ W \in Int /\ W # 0
    BY <2>1, <2>2
  <2> HIDE DEF p, W
  <2>4. W > 0 \/ W < 0
    BY <2>3
  <2>5. (W > 0 => a * 0 + (-b) * W < 0) /\ (W < 0 => a * 0 + (-b) * W > 0)
    <3>1. 0 \in Int
      OBVIOUS
    <3> QED BY <1>10, <2>3, <3>1, StaysNegative
  <2> DEFINE X == a * 0 + (-b) * W
  <2>6. InnerProduct(w, p) = X /\ (X < 0 \/ X > 0)
    BY <2>3, <2>4, <2>5
  <2> HIDE DEF X
  <2> QED BY <2>6
<1> HIDE DEF p
<1>13. Obeys(p, R, L)
  <2>1. ASSUME NEW r \in L PROVE InnerProduct(p, R[r]) = 0
    <3>1. r \in DOMAIN R /\ R[r] \in IntRow /\ InnerProduct(R[r], A[c]) = 0
      BY <1>1, TightProducts DEF IsFamily
    <3>2. r \in Touched(p, R)
      BY <1>11, <3>1 DEF Touched
    <3> QED BY <1>11, <3>1, <3>2, InnerProductSymmetric DEF Touched
  <2> QED BY <1>11, <2>1 DEF Obeys
<1>14. PICK t \in DOMAIN R : InnerProduct(p, R[t]) > 0
  <2>1. SUFFICES ASSUME \A r \in DOMAIN R : InnerProduct(p, R[r]) = 0 PROVE FALSE
    BY <1>7, <1>11
  <2>2. InnerProduct(w, p) = 0
    BY <1>6, <1>11, <2>1, EqualitiesSpan
  <2> QED BY <1>12, <2>2
<1>15. PICK d \in DOMAIN A \ E : Touched(p, R) \subseteq Touched(A[d], R)
  BY <1>11, <1>13, <1>14, OnFacet
<1> QED BY <1>11, <1>15

\* What more rays saturate than c, again and again, ends outside a set all of
\* whose constraints have such a one.
LEMMA CoveredOutside ==
  ASSUME NEW A, NEW E, NEW R, NEW L, Tight(A, E, R, L), NEW G, G \subseteq DOMAIN A \ E,
         \A c \in G : \E d \in DOMAIN A \ E : /\ Touched(A[c], R) \subseteq Touched(A[d], R)
                                              /\ Touched(A[c], R) # Touched(A[d], R),
         NEW c \in DOMAIN A \ E
  PROVE  \E d \in (DOMAIN A \ E) \ G : Touched(A[c], R) \subseteq Touched(A[d], R)
<1> DEFINE B == {d \in DOMAIN A \ E : Touched(A[c], R) \subseteq Touched(A[d], R)}
           size(d) == Cardinality(Touched(A[d], R))
           S == {n \in Nat : \E d \in B : n = size(d)}
           top == Cardinality(DOMAIN R)
<1>1. IsFiniteSet(DOMAIN R)
  BY DEF Tight, IsFamily
<1>2. \A d : IsFiniteSet(Touched(A[d], R)) /\ size(d) \in Nat /\ size(d) <= top
  <2>1. \A d : Touched(A[d], R) \in SUBSET DOMAIN R
    BY DEF Touched
  <2> QED BY <1>1, <2>1, FS_Subset, FS_CardinalityType
<1>3. top \in Nat /\ S \subseteq Nat /\ S # {} /\ \A n \in S : n <= top
  <2>1. c \in B /\ top \in Nat
    BY <1>1, FS_CardinalityType
  <2> QED BY <1>2, <2>1
<1>4. PICK n \in S : \A m \in S : m <= n
  <2> HIDE DEF S, top
  <2> QED BY <1>3, GreatestElement
<1>5. PICK d \in B : n = size(d)
  BY <1>4
<1>6. d \notin G
  <2> SUFFICES ASSUME d \in G PROVE FALSE
    OBVIOUS
  <2>1. PICK e \in DOMAIN A \ E : /\ Touched(A[d], R) \subseteq Touched(A[e], R)
                                  /\ Touched(A[d], R) # Touched(A[e], R)
    OBVIOUS
  <2>2. e \in B
    BY <1>5, <2>1
  <2>3. size(e) \in S
    BY <1>2, <2>2
  <2>4. size(e) <= size(d)
    BY <1>4, <1>5, <2>3
  <2>5. Touched(A[d], R) \in SUBSET Touched(A[e], R)
    BY <2>1
  <2>6. size(d) <= size(e) /\ (size(d) = size(e) => Touched(A[d], R) = Touched(A[e], R))
    BY <1>2, <2>5, FS_Subset
  <2> HIDE DEF size
  <2> QED BY <1>2, <2>1, <2>4, <2>6
<1> QED BY <1>5, <1>6

-----------------------------------------------------------------------------
(* The two families alone.                                                 *)

\* The constraints that all the rays saturate.
Flat(A, R) == {c \in DOMAIN A : \A r \in DOMAIN R : InnerProduct(R[r], A[c]) = 0}

\* Constraints and rays of one cone.
Exact(A, R) == Tight(A, Flat(A, R), R, Flat(R, A))

\* The constraints A of the rays R can be replaced with B.
Replaces(B, A, R) ==
  /\ Exact(B, R) /\ Flat(R, B) = Flat(R, A)
  /\ \A x \in IntRow : Obeys(x, B, Flat(B, R)) <=> Obeys(x, A, Flat(A, R))

\* Exactness is the same for both sides.
LEMMA ExactSwapped == \A A, R : Exact(A, R) => Exact(R, A)
BY TightSwapped DEF Exact

\* What is known of a ray and a constraint.
LEMMA ExactProducts ==
  ASSUME NEW A, NEW R, Exact(A, R), NEW r \in DOMAIN R, NEW c \in DOMAIN A
  PROVE  /\ A[c] \in IntRow /\ R[r] \in IntRow
         /\ InnerProduct(R[r], A[c]) \in Nat
         /\ InnerProduct(A[c], R[r]) = InnerProduct(R[r], A[c])
         /\ c \in Flat(A, R) \/ r \in Flat(R, A) => InnerProduct(R[r], A[c]) = 0
BY TightProducts DEF Exact

\* It is enough that the rays satisfy B, and that B admits nothing else.
LEMMA ExactReplaced ==
  ASSUME NEW A, NEW R, Exact(A, R), NEW B, IsFamily(B),
         \A b \in DOMAIN B, r \in DOMAIN R : /\ InnerProduct(R[r], B[b]) >= 0
                                             /\ r \in Flat(R, A) => InnerProduct(R[r], B[b]) = 0,
         \A x \in IntRow : Obeys(x, B, Flat(B, R)) => Obeys(x, A, Flat(A, R))
  PROVE  Replaces(B, A, R)
<1> DEFINE E == Flat(A, R)
           L == Flat(R, A)
           F == Flat(B, R)
<1>1. Tight(A, E, R, L) /\ IsFamily(A) /\ IsFamily(R) /\ E \subseteq DOMAIN A /\ L \subseteq DOMAIN R
  BY DEF Exact, Tight
<1>2. ASSUME NEW b \in DOMAIN B
      PROVE  /\ B[b] \in IntRow /\ Obeys(B[b], R, L)
             /\ \A r \in DOMAIN R : /\ R[r] \in IntRow /\ InnerProduct(R[r], B[b]) \in Int
                                    /\ InnerProduct(B[b], R[r]) = InnerProduct(R[r], B[b])
  <2>1. B[b] \in IntRow
    BY DEF IsFamily
  <2>2. ASSUME NEW r \in DOMAIN R
        PROVE  /\ R[r] \in IntRow /\ InnerProduct(R[r], B[b]) \in Int
               /\ InnerProduct(B[b], R[r]) = InnerProduct(R[r], B[b])
    BY <1>1, <2>1, InnerProductSymmetric, InnerProductInt DEF IsFamily
  <2> HIDE DEF L
  <2>3. \A r \in DOMAIN R : InnerProduct(R[r], B[b]) >= 0 /\ (r \in L => InnerProduct(R[r], B[b]) = 0)
    BY DEF L
  <2> QED BY <2>1, <2>2, <2>3 DEF Obeys
<1>3. ASSUME NEW x \in IntRow, Obeys(x, A, E) PROVE Obeys(x, B, F)
  <2>1. ASSUME NEW b \in DOMAIN B PROVE InnerProduct(x, B[b]) >= 0
    BY <1>1, <1>2, <1>3, TightMeets
  <2>2. ASSUME NEW b \in F PROVE InnerProduct(x, B[b]) = 0
    <3>1. b \in DOMAIN B /\ B[b] \in IntRow /\ \A r \in DOMAIN R : InnerProduct(B[b], R[r]) = 0
      BY <1>2 DEF Flat
    <3>2. Tight(R, L, A, E)
      BY <1>1, TightSwapped
    <3> HIDE DEF E, L, F
    <3>3. InnerProduct(B[b], x) = 0
      BY <1>3, <3>1, <3>2, FlatMeets
    <3> QED BY <3>1, <3>3, InnerProductSymmetric
  <2> QED BY <2>1, <2>2 DEF Obeys
<1>4. \A x \in IntRow : Obeys(x, B, F) => Obeys(x, A, E)
  OBVIOUS
<1>5. Flat(R, B) = L
  <2>1. ASSUME NEW r \in L PROVE r \in Flat(R, B)
    <3>1. r \in DOMAIN R /\ \A b \in DOMAIN B : InnerProduct(R[r], B[b]) = 0
      BY <1>1
    <3> QED BY <1>2, <3>1 DEF Flat
  <2>2. ASSUME NEW r \in Flat(R, B) PROVE r \in L
    <3>1. r \in DOMAIN R /\ R[r] \in IntRow
      BY <1>1 DEF IsFamily, Flat
    <3>2. \A b \in DOMAIN B : InnerProduct(R[r], B[b]) = 0
      BY <1>2, <3>1 DEF Flat
    <3>3. Reversed(R[r]) \in IntRow /\ Obeys(Reversed(R[r]), B, F)
      BY <3>1, <3>2, FlatReversed
    <3>4. Obeys(Reversed(R[r]), A, E)
      BY <1>4, <3>3
    <3>5. ASSUME NEW c \in DOMAIN A PROVE InnerProduct(A[c], R[r]) = 0
      <4>1. InnerProduct(R[r], A[c]) \in Nat /\ InnerProduct(A[c], R[r]) = InnerProduct(R[r], A[c]) /\ A[c] \in IntRow
        BY <3>1, ExactProducts
      <4>2. InnerProduct(Reversed(R[r]), A[c]) >= 0
        BY <3>4 DEF Obeys
      <4>3. InnerProduct(Reversed(R[r]), A[c]) = -InnerProduct(R[r], A[c])
        BY <3>1, <4>1, ReversedProduct
      <4> QED BY <4>1, <4>2, <4>3
    <3> QED BY <3>1, <3>5 DEF Flat
  <2> QED BY <2>1, <2>2
<1>6. \A r \in DOMAIN R : R[r] \in IntRow /\ Obeys(R[r], B, F)
  <2>1. ASSUME NEW r \in DOMAIN R PROVE R[r] \in IntRow /\ Obeys(R[r], A, E)
    BY <1>1 DEF Tight, IsFamily
  <2> QED BY <1>3, <2>1
<1>7. Tight(B, F, R, L)
  <2>1. F \subseteq DOMAIN B
    BY DEF Flat
  <2>2. \A r \in L, b \in DOMAIN B : InnerProduct(R[r], B[b]) = 0
    BY <1>1
  <2>3. ASSUME NEW b \in DOMAIN B \ F PROVE \E r \in DOMAIN R : InnerProduct(R[r], B[b]) > 0
    <3>1. PICK r \in DOMAIN R : InnerProduct(R[r], B[b]) # 0
      BY DEF Flat
    <3> QED BY <1>2, <3>1
  <2>4. ASSUME NEW r \in DOMAIN R \ L PROVE \E b \in DOMAIN B : InnerProduct(R[r], B[b]) > 0
    <3>1. r \notin Flat(R, B)
      BY <1>5
    <3>2. PICK b \in DOMAIN B : InnerProduct(B[b], R[r]) # 0
      BY <3>1 DEF Flat
    <3> QED BY <1>2, <3>2
  <2>5. \A x \in IntRow, p \in IntRow : Obeys(x, B, F) /\ Obeys(p, R, L) => InnerProduct(x, p) >= 0
    BY <1>1, <1>4, TightMeets
  <2> HIDE DEF E, L, F
  <2> QED BY <1>1, <1>6, <2>1, <2>2, <2>3, <2>4, <2>5 DEF Tight
<1> QED BY <1>3, <1>4, <1>5, <1>7 DEF Replaces, Exact

\* x has the same product with p and q, whatever x.
Alike(p, q) == \A x \in IntRow : InnerProduct(x, p) = InnerProduct(x, q)

\* The same rows, in any order and number, but for the zero row.
LEMMA ExactRows ==
  ASSUME NEW A, NEW R, Exact(A, R), NEW B, IsFamily(B),
         \A b \in DOMAIN B : \E a \in DOMAIN A : Alike(B[b], A[a]),
         \A a \in DOMAIN A : \/ \E b \in DOMAIN B : Alike(B[b], A[a])
                             \/ \A x \in IntRow : InnerProduct(x, A[a]) = 0
  PROVE  Replaces(B, A, R)
<1>1. ASSUME NEW b \in DOMAIN B, NEW r \in DOMAIN R
      PROVE  /\ InnerProduct(R[r], B[b]) >= 0
             /\ r \in Flat(R, A) => InnerProduct(R[r], B[b]) = 0
  <2>1. PICK a \in DOMAIN A : Alike(B[b], A[a])
    OBVIOUS
  <2>2. R[r] \in IntRow /\ InnerProduct(R[r], A[a]) \in Nat /\ (r \in Flat(R, A) => InnerProduct(R[r], A[a]) = 0)
    BY ExactProducts
  <2> QED BY <2>1, <2>2 DEF Alike
<1>2. \A r \in DOMAIN R : R[r] \in IntRow
  BY DEF Exact, Tight, IsFamily
<1>3. ASSUME NEW x \in IntRow, Obeys(x, B, Flat(B, R)) PROVE Obeys(x, A, Flat(A, R))
  <2>1. ASSUME NEW a \in DOMAIN A
        PROVE  InnerProduct(x, A[a]) >= 0 /\ (a \in Flat(A, R) => InnerProduct(x, A[a]) = 0)
    <3>1. CASE \E b \in DOMAIN B : Alike(B[b], A[a])
      <4>1. PICK b \in DOMAIN B : Alike(B[b], A[a])
        BY <3>1
      <4>2. a \in Flat(A, R) => b \in Flat(B, R)
        BY <1>2, <4>1 DEF Flat, Alike
      <4> QED BY <1>3, <4>1, <4>2 DEF Obeys, Alike
    <3>2. CASE \A y \in IntRow : InnerProduct(y, A[a]) = 0
      BY <3>2
    <3> QED BY <3>1, <3>2
  <2> QED BY <2>1 DEF Obeys
<1> QED BY <1>1, <1>3, ExactReplaced

\* Rows that rows which stay cover are left out.
LEMMA ExactLeftOut ==
  ASSUME NEW A, NEW R, Exact(A, R), NEW K, Flat(A, R) \subseteq K, K \subseteq DOMAIN A,
         \A c \in DOMAIN A \ K : \E d \in K \ Flat(A, R) : Touched(A[c], R) \subseteq Touched(A[d], R)
  PROVE  Replaces(Only(A, K), A, R) /\ Flat(Only(A, K), R) = Flat(A, R)
<1>1. Tight(Only(A, K), Flat(A, R), R, Flat(R, A))
  BY CoveredLeftOut DEF Exact
<1> DEFINE B == Only(A, K)
<1>2. DOMAIN B = K /\ \A c \in K : B[c] = A[c]
  BY DEF Only
<1> HIDE DEF B
<1>3. Flat(B, R) = Flat(A, R)
  BY <1>2 DEF Flat
<1>4. IsFamily(B)
  BY <1>1 DEF Tight, B
<1>5. ASSUME NEW b \in DOMAIN B, NEW r \in DOMAIN R
      PROVE  /\ InnerProduct(R[r], B[b]) >= 0
             /\ r \in Flat(R, A) => InnerProduct(R[r], B[b]) = 0
  BY <1>2, ExactProducts
<1>6. ASSUME NEW x \in IntRow, Obeys(x, B, Flat(B, R)) PROVE Obeys(x, A, Flat(A, R))
  <2>1. ASSUME NEW c \in DOMAIN A
        PROVE  InnerProduct(x, A[c]) >= 0 /\ (c \in Flat(A, R) => InnerProduct(x, A[c]) = 0)
    <3>1. A[c] \in IntRow /\ Obeys(A[c], R, Flat(R, A))
      BY ConstraintObeys DEF Exact
    <3>2. InnerProduct(x, A[c]) >= 0
      BY <1>1, <1>3, <1>6, <3>1, TightMeets DEF B
    <3>3. ASSUME c \in Flat(A, R) PROVE InnerProduct(x, A[c]) = 0
      BY <1>2, <1>3, <1>6, <3>3 DEF Obeys
    <3> QED BY <3>2, <3>3
  <2> QED BY <2>1 DEF Obeys
<1>7. Replaces(B, A, R)
  BY <1>4, <1>5, <1>6, ExactReplaced
<1> QED BY <1>3, <1>7 DEF B

-----------------------------------------------------------------------------
(* The descriptions above and these.                                       *)

\* Rays that describe a cone are, with its constraints, an exact pair, ...
LEMMA DescribedExact ==
  ASSUME NEW A, NEW R, NEW P, NEW N, Describes(A, R, P, N), IsFamily(R), DOMAIN R = P \cup N,
         \A n \in P, c \in DOMAIN A : InnerProduct(R[n], A[c]) = 0
  PROVE  /\ Exact(A, R)
         /\ \A x \in IntRow : Obeys(x, A, Flat(A, R)) <=> Within(x, A)
<1> DEFINE E == Flat(A, R)
           L == Flat(R, A)
<1>1. /\ IsFamily(A) /\ IsFiniteSet(P) /\ Extreme(A, R, N) /\ \A r \in DOMAIN R : R[r] \in IntRow
  BY DEF Describes, IsFamily
<1>2. ASSUME NEW r \in DOMAIN R, NEW c \in DOMAIN A
      PROVE  /\ InnerProduct(R[r], A[c]) >= 0 /\ InnerProduct(R[r], A[c]) \in Int /\ A[c] \in IntRow
             /\ InnerProduct(A[c], R[r]) = InnerProduct(R[r], A[c])
             /\ A[c][0] = 0 => InnerProduct(R[r], A[c]) = 0
  <2>1. R[r] \in IntRow /\ A[c] \in IntRow /\ InnerProduct(R[r], A[c]) \in Int
    BY <1>1, WithinProducts
  <2>2. CASE r \in P
    <3>1. InnerProduct(R[r], A[c]) = 0
      BY <2>2
    <3> QED BY <2>1, <3>1, InnerProductSymmetric
  <2>3. CASE r \in N
    <3>1. Within(R[r], A)
      BY <1>1, <2>3 DEF Extreme
    <3> QED BY <1>1, <2>1, <3>1, WithinProducts, InnerProductSymmetric
  <2> QED BY <2>2, <2>3
<1>3. P \subseteq L
  BY <1>2 DEF Flat
<1>4. ASSUME NEW x \in IntRow, Obeys(x, A, E) PROVE Within(x, A)
  <2>1. ASSUME NEW c \in DOMAIN A PROVE Verifies(x, A[c])
    <3>1. A[c][0] = 0 => c \in E
      BY <1>2 DEF Flat
    <3> QED BY <1>4, <3>1 DEF Verifies, Obeys
  <2> QED BY <2>1 DEF Within
<1>5. ASSUME NEW x \in IntRow, Within(x, A) PROVE Obeys(x, A, E)
  <2>1. ASSUME NEW c \in DOMAIN A
        PROVE  InnerProduct(x, A[c]) >= 0 /\ (c \in E => InnerProduct(x, A[c]) = 0)
    <3>1. A[c] \in IntRow /\ InnerProduct(x, A[c]) \in Int /\ InnerProduct(x, A[c]) >= 0
      BY <1>1, <1>5, WithinProducts
    <3>2. ASSUME c \in E, InnerProduct(x, A[c]) > 0 PROVE FALSE
      <4>1. Level(A[c], R, P)
        BY <1>2 DEF Level
      <4>2. PICK n \in N : InnerProduct(R[n], A[c]) > 0
        BY <1>5, <3>1, <3>2, <4>1, PositiveRay
      <4> QED BY <3>2, <4>2 DEF Flat
    <3> QED BY <3>1, <3>2
  <2> QED BY <2>1 DEF Obeys
<1>6. ASSUME NEW x \in IntRow, NEW p \in IntRow, Obeys(x, A, E), Obeys(p, R, L) PROVE InnerProduct(x, p) >= 0
  <2>1. Within(x, A) /\ InnerProduct(x, p) \in Int
    BY <1>4, <1>6, InnerProductInt
  <2>2. Level(p, R, P)
    BY <1>3, <1>6 DEF Level, Obeys
  <2> SUFFICES ASSUME InnerProduct(x, p) < 0 PROVE FALSE
    BY <2>1
  <2>3. PICK n \in N : InnerProduct(R[n], p) < 0
    BY <2>1, <2>2, NegativeRay
  <2>4. InnerProduct(p, R[n]) >= 0 /\ R[n] \in IntRow
    BY <1>1, <1>6 DEF Obeys
  <2> QED BY <2>3, <2>4, InnerProductSymmetric, InnerProductInt
<1>7. Tight(A, E, R, L)
  <2>1. E \subseteq DOMAIN A /\ L \subseteq DOMAIN R
    BY DEF Flat
  <2>2. \A r \in DOMAIN R : Obeys(R[r], A, E)
    BY <1>2 DEF Obeys, Flat
  <2>3. \A r \in L, c \in DOMAIN A : InnerProduct(R[r], A[c]) = 0
    BY <1>2 DEF Flat
  <2>4. \A c \in DOMAIN A \ E : \E r \in DOMAIN R : InnerProduct(R[r], A[c]) > 0
    <3>1. ASSUME NEW c \in DOMAIN A \ E PROVE \E r \in DOMAIN R : InnerProduct(R[r], A[c]) > 0
      <4>1. PICK r \in DOMAIN R : InnerProduct(R[r], A[c]) # 0
        BY DEF Flat
      <4> QED BY <1>2, <4>1
    <3> QED BY <3>1
  <2>5. \A r \in DOMAIN R \ L : \E c \in DOMAIN A : InnerProduct(R[r], A[c]) > 0
    <3>1. ASSUME NEW r \in DOMAIN R \ L PROVE \E c \in DOMAIN A : InnerProduct(R[r], A[c]) > 0
      <4>1. PICK c \in DOMAIN A : InnerProduct(A[c], R[r]) # 0
        BY DEF Flat
      <4> QED BY <1>2, <4>1
    <3> QED BY <3>1
  <2> HIDE DEF E, L
  <2> QED BY <1>1, <1>6, <2>1, <2>2, <2>3, <2>4, <2>5 DEF Tight
<1> QED BY <1>4, <1>5, <1>7 DEF Exact

\* What the constraints admit lies on a face that one of the rays spans.
LEMMA ExactCovers ==
  ASSUME NEW A, NEW R, Exact(A, R), NEW x \in IntRow, Obeys(x, A, Flat(A, R)), Zeros(x, A) # DOMAIN A
  PROVE  \E n \in DOMAIN R \ Flat(R, A) : Zeros(x, A) \subseteq Zeros(R[n], A)
<1>1. Tight(R, Flat(R, A), A, Flat(A, R))
  BY ExactSwapped DEF Exact
<1>2. IsFamily(A) /\ IsFamily(R)
  BY <1>1 DEF Tight
<1>3. PICK s \in DOMAIN A : InnerProduct(x, A[s]) # 0
  BY DEF Zeros
<1>4. InnerProduct(x, A[s]) > 0
  <2>1. InnerProduct(x, A[s]) \in Int /\ InnerProduct(x, A[s]) >= 0
    BY <1>2, InnerProductInt DEF Obeys, IsFamily
  <2> QED BY <1>3, <2>1
<1>5. PICK n \in DOMAIN R \ Flat(R, A) : Touched(x, A) \subseteq Touched(R[n], A)
  BY <1>1, <1>4, OnFacet
<1>6. ASSUME NEW y \in IntRow PROVE Touched(y, A) = Zeros(y, A)
  <2>1. \A c \in DOMAIN A : InnerProduct(A[c], y) = InnerProduct(y, A[c])
    BY <1>2, InnerProductSymmetric DEF IsFamily
  <2> QED BY <2>1 DEF Touched, Zeros
<1>7. R[n] \in IntRow
  BY <1>2 DEF IsFamily
<1> QED BY <1>5, <1>6, <1>7

\* ... and the other way, when the status words tell the equalities and no ray
\* lies on all the constraints another one lies on.
LEMMA ExactDescribes ==
  ASSUME NEW A, NEW R, Exact(A, R),
         \A c \in DOMAIN A : A[c][0] = 0 <=> c \in Flat(A, R),
         \A n \in DOMAIN R \ Flat(R, A), m \in DOMAIN R \ Flat(R, A) :
           Zeros(R[n], A) \subseteq Zeros(R[m], A) => m = n
  PROVE  Describes(A, R, Flat(R, A), DOMAIN R \ Flat(R, A))
<1> DEFINE P == Flat(R, A)
           N == DOMAIN R \ Flat(R, A)
<1>1. Tight(A, Flat(A, R), R, P) /\ Tight(R, P, A, Flat(A, R))
  BY ExactSwapped DEF Exact
<1>2. IsFamily(A) /\ IsFamily(R) /\ P \subseteq DOMAIN R /\ IsFiniteSet(P)
  <2>1. IsFamily(A) /\ IsFamily(R) /\ P \in SUBSET DOMAIN R
    BY <1>1 DEF Tight
  <2> QED BY <2>1, FS_Subset DEF IsFamily
<1>3. ASSUME NEW x \in IntRow PROVE Within(x, A) <=> Obeys(x, A, Flat(A, R))
  <2>1. ASSUME NEW c \in DOMAIN A
        PROVE  Verifies(x, A[c]) <=> InnerProduct(x, A[c]) >= 0 /\ (c \in Flat(A, R) => InnerProduct(x, A[c]) = 0)
    BY DEF Verifies
  <2> QED BY <2>1 DEF Within, Obeys
<1>4. Covers(A, R, N)
  BY <1>3, ExactCovers DEF Covers
<1>5. Extreme(A, R, N)
  <2>1. ASSUME NEW n \in N
        PROVE  /\ R[n] \in IntRow /\ Within(R[n], A) /\ Zeros(R[n], A) # DOMAIN A
    <3>1. R[n] \in IntRow /\ Obeys(R[n], A, Flat(A, R))
      BY <1>1, <1>2 DEF Tight, IsFamily
    <3>2. PICK c \in DOMAIN A : InnerProduct(R[n], A[c]) > 0
      BY <1>1 DEF Tight
    <3>3. c \notin Zeros(R[n], A)
      BY <3>2 DEF Zeros
    <3> QED BY <1>3, <3>1, <3>2, <3>3
  <2> QED BY <2>1 DEF Extreme
<1>6. LinesSpan(A, R, P)
  <2>1. ASSUME NEW z \in IntRow, NEW v \in IntRow, Zeros(z, A) = DOMAIN A, \A n \in P : InnerProduct(v, R[n]) = 0
        PROVE  InnerProduct(v, z) = 0
    <3>1. \A c \in DOMAIN A : InnerProduct(z, A[c]) = 0
      BY <2>1 DEF Zeros
    <3> HIDE DEF P
    <3> QED BY <1>1, <2>1, <3>1, EqualitiesSpan
  <2> QED BY <2>1 DEF LinesSpan
<1> QED BY <1>2, <1>4, <1>5, <1>6 DEF Describes, IsFamily

-----------------------------------------------------------------------------
(* Combinations of several rows, and the ranks of equalities and lines.    *)

\* A sum without negative terms is zero only if all of them are.
LEMMA NonNegativeProduct ==
  ASSUME NEW p \in IntRow, NEW q \in IntRow, \A c \in Coordinates : p[c] * q[c] >= 0,
         InnerProduct(p, q) = 0, NEW d \in Coordinates
  PROVE  p[d] * q[d] = 0
<1>1. PICK s : IsSum(s, Products(p, q), Dimension) /\ InnerProduct(p, q) = s[Dimension]
  BY InnerProductSum
<1> SUFFICES ASSUME p[d] * q[d] # 0 PROVE FALSE
  OBVIOUS
<1>2. ASSUME NEW n \in 1..Dimension
      PROVE  /\ Products(p, q)[n] \in Int /\ Products(p, q)[n] >= 0
             /\ n = d => Products(p, q)[n] > 0
  <2>1. p[n] \in Int /\ q[n] \in Int /\ n \in Coordinates
    BY DimensionAssumption DEF IntRow, Coordinates
  <2>2. Products(p, q)[n] = p[n] * q[n] /\ p[n] * q[n] \in Int
    BY <2>1 DEF Products
  <2> QED BY <2>1, <2>2
<1>3. d \in 1..Dimension /\ Dimension \in Nat
  BY DimensionAssumption DEF Coordinates
<1> DEFINE T == {n \in 0..Dimension : s[n] \in Int /\ s[n] >= 0 /\ (n >= d => s[n] > 0)}
<1>4. 0 \in T
  BY <1>1, <1>3 DEF IsSum
<1>5. ASSUME NEW n \in 0 .. Dimension - 1, n \in T PROVE n + 1 \in T
  <2>1. n + 1 \in 1..Dimension /\ n + 1 \in 0..Dimension /\ (n + 1) - 1 = n
    BY <1>3
  <2>2. s[n + 1] = s[n] + Products(p, q)[n + 1]
    BY <1>1, <2>1 DEF IsSum
  <2>3. n + 1 >= d => n >= d \/ n + 1 = d
    BY <1>3
  <2>4. s[n] \in Int /\ s[n] >= 0 /\ (n >= d => s[n] > 0)
    BY <1>5
  <2> QED BY <1>2, <2>1, <2>2, <2>3, <2>4
<1>6. 0..Dimension \subseteq T
  <2> HIDE DEF T
  <2> QED BY <1>3, <1>4, <1>5, UpFromZero
<1>7. Dimension \in 0..Dimension /\ Dimension >= d
  BY <1>3
<1> QED BY <1>1, <1>6, <1>7

\* Rows that are both non-zero in one coordinate only.
LEMMA SingleProduct ==
  ASSUME NEW p \in IntRow, NEW q \in IntRow, NEW d \in Coordinates,
         \A c \in Coordinates : c = d \/ p[c] = 0 \/ q[c] = 0
  PROVE  InnerProduct(p, q) = p[d] * q[d]
<1>1. Axis(d) \in IntRow /\ Axis(d)[d] = 1 /\ \A c \in Coordinates : c # d => Axis(d)[c] = 0
  BY AxisAt
<1>2. p[d] \in Int /\ q[d] \in Int
  BY DimensionAssumption DEF IntRow, Coordinates
<1> DEFINE a == Axis(d)
           e == p[d]
           w == Mix(1, p, -e, a)
<1>3. 1 \in Int /\ -e \in Int
  BY <1>2
<1>4. w \in IntRow /\ \A c \in Coordinates : w[c] = 1 * p[c] + (-e) * a[c]
  BY <1>1, <1>3, MixRow
<1>5. InnerProduct(w, q) = 1 * InnerProduct(p, q) + (-e) * InnerProduct(a, q)
  BY <1>1, <1>3, MixProduct
<1> HIDE DEF a, w
<1>6. ASSUME NEW c \in Coordinates PROVE w[c] = 0 \/ q[c] = 0
  <2>1. p[c] \in Int /\ w[c] = 1 * p[c] + (-e) * a[c]
    BY <1>4 DEF IntRow, Coordinates
  <2>2. CASE c = d
    <3>1. w[c] = 1 * e + (-e) * 1
      BY <1>1, <2>1, <2>2 DEF a
    <3> QED BY <1>2, <3>1
  <2>3. CASE c # d
    <3>1. w[c] = 1 * p[c] + (-e) * 0
      BY <1>1, <2>1, <2>3 DEF a
    <3>2. w[c] = p[c]
      BY <1>2, <2>1, <3>1
    <3> QED BY <2>3, <3>2
  <2> QED BY <2>2, <2>3
<1>7. InnerProduct(w, q) = 0
  BY <1>4, <1>6, DisjointProduct
<1>8. InnerProduct(a, q) = q[d]
  BY <1>1, AxisProduct, InnerProductSymmetric DEF a
<1>9. InnerProduct(p, q) \in Int
  BY InnerProductInt
<1> QED BY <1>2, <1>5, <1>7, <1>8, <1>9

\* The inner products of the first n rows of S with m, as a row.
Gram(S, n, m) == [x \in 0..Dimension |-> IF x \in 1..n THEN InnerProduct(S[x], m) ELSE 0]

\* What it is made of.
LEMMA GramRow ==
  ASSUME NEW n \in 0..Dimension, NEW S, \A x \in 1..n : S[x] \in IntRow, NEW m \in IntRow
  PROVE  /\ Gram(S, n, m) \in IntRow
         /\ \A x \in 1..n : Gram(S, n, m)[x] = InnerProduct(S[x], m)
         /\ \A x \in Coordinates : x \notin 1..n => Gram(S, n, m)[x] = 0
<1>1. \A x \in 1..n : InnerProduct(S[x], m) \in Int
  BY InnerProductInt
<1>2. 1..n \subseteq 0..Dimension /\ Coordinates \subseteq 0..Dimension /\ 0 \in Int
  BY DimensionAssumption DEF Coordinates
<1>3. \A x \in 0..Dimension : Gram(S, n, m)[x] = IF x \in 1..n THEN InnerProduct(S[x], m) ELSE 0
  BY DEF Gram
<1>4. \A x \in 0..Dimension : Gram(S, n, m)[x] \in Int
  BY <1>1, <1>2, <1>3
<1>5. Gram(S, n, m) = [x \in 0..Dimension |-> Gram(S, n, m)[x]]
  BY DEF Gram
<1>6. Gram(S, n, m) \in IntRow
  BY <1>4, <1>5 DEF IntRow
<1> QED BY <1>2, <1>3, <1>6

\* y is the combination of the first n rows of S with the weights u.
Combines(y, u, S, n) ==
  y \in IntRow /\ \A m \in IntRow : InnerProduct(y, m) = InnerProduct(Gram(S, n, m), u)

\* There is such a row.
LEMMA Combination ==
  ASSUME NEW n \in 0..Dimension, NEW S, \A x \in 1..n : S[x] \in IntRow, NEW u \in IntRow
  PROVE  \E y : Combines(y, u, S, n)
<1> DEFINE T == {l \in 0..n : \E y : Combines(y, u, S, l)}
<1>1. 0 \in T
  <2>1. Mix(0, u, 0, u) \in IntRow /\ \A m \in IntRow : InnerProduct(Mix(0, u, 0, u), m) = 0
    BY ZeroRow
  <2>2. ASSUME NEW m \in IntRow PROVE InnerProduct(Gram(S, 0, m), u) = 0
    <3>1. 0 \in 0..Dimension /\ 1..0 = {}
      BY DimensionAssumption
    <3>2. ASSUME NEW l \in 0..Dimension, l = 0
          PROVE  Gram(S, l, m) \in IntRow /\ \A c \in Coordinates : Gram(S, l, m)[c] = 0
      <4>1. \A x : x \notin 1..l
        BY <3>2
      <4>2. Gram(S, l, m) \in IntRow /\ \A c \in Coordinates : c \notin 1..l => Gram(S, l, m)[c] = 0
        BY <4>1, GramRow
      <4> QED BY <4>1, <4>2
    <3>3. Gram(S, 0, m) \in IntRow /\ \A c \in Coordinates : Gram(S, 0, m)[c] = 0
      BY <3>1, <3>2
    <3> QED BY <3>3, DisjointProduct
  <2>3. Combines(Mix(0, u, 0, u), u, S, 0)
    BY <2>1, <2>2 DEF Combines
  <2>4. 0 \in 0..n
    OBVIOUS
  <2> QED BY <2>3, <2>4
<1>2. ASSUME NEW l \in 0 .. n - 1, l \in T PROVE l + 1 \in T
  <2>1. /\ l \in 0..Dimension /\ l + 1 \in 0..Dimension /\ l + 1 \in 0..n /\ l + 1 \in 1..n /\ l + 1 \in Coordinates
        /\ 1 .. l + 1 = (1..l) \cup {l + 1} /\ l + 1 \notin 1..l
        /\ 1..l \subseteq 1..n /\ 1 .. l + 1 \subseteq 1..n
    BY DimensionAssumption DEF Coordinates
  <2>2. PICK y : Combines(y, u, S, l)
    BY <1>2
  <2> DEFINE t == l + 1
             e == u[t]
             z == Mix(1, y, e, S[t])
  <2>3. e \in Int /\ 1 \in Int /\ y \in IntRow /\ S[t] \in IntRow
    BY <2>1, <2>2 DEF IntRow, Coordinates, Combines
  <2>4. z \in IntRow
    BY <2>3, MixRow
  <2>5. ASSUME NEW m \in IntRow PROVE InnerProduct(z, m) = InnerProduct(Gram(S, t, m), u)
    <3> DEFINE a == Gram(S, l, m)
               b == Gram(S, t, m)
               h == InnerProduct(S[t], m)
    <3>1. InnerProduct(z, m) = 1 * InnerProduct(y, m) + e * h
      BY <2>3, MixProduct
    <3>2. InnerProduct(y, m) = InnerProduct(a, u)
      BY <2>2 DEF Combines
    <3>3. h \in Int
      BY <2>3, InnerProductInt
    <3>4. Axis(t) \in IntRow /\ Axis(t)[t] = 1 /\ \A c \in Coordinates : c # t => Axis(t)[c] = 0
      BY <2>1, AxisAt
    <3>5. /\ a \in IntRow /\ \A c \in 1..l : a[c] = InnerProduct(S[c], m)
          /\ \A c \in Coordinates : c \notin 1..l => a[c] = 0
      BY <2>1, GramRow
    <3>6. /\ b \in IntRow /\ \A c \in 1..t : b[c] = InnerProduct(S[c], m)
          /\ \A c \in Coordinates : c \notin 1..t => b[c] = 0
      BY <2>1, GramRow
    <3> DEFINE x == Axis(t)
    <3> HIDE DEF a, b, x, h, z
    <3>7. ASSUME NEW c \in Coordinates PROVE 1 * b[c] = 1 * a[c] + h * x[c]
      <4>1. a[c] \in Int /\ b[c] \in Int
        BY <3>5, <3>6 DEF IntRow, Coordinates
      <4>2. CASE c = t
        BY <2>1, <3>3, <3>4, <3>5, <3>6, <4>1, <4>2 DEF x, h
      <4>3. CASE c # t
        <5>1. x[c] = 0 /\ (c \in 1..t <=> c \in 1..l)
          BY <2>1, <3>4, <4>3 DEF x
        <5>2. b[c] = a[c]
          BY <3>5, <3>6, <5>1
        <5> QED BY <3>3, <4>1, <5>1, <5>2
      <4> QED BY <4>2, <4>3
    <3>8. 1 * InnerProduct(b, u) = 1 * InnerProduct(a, u) + h * InnerProduct(x, u)
      BY <2>3, <3>3, <3>4, <3>5, <3>6, <3>7, InnerProductLinear DEF x
    <3>9. InnerProduct(x, u) = e
      BY <2>1, AxisProduct, InnerProductSymmetric DEF x
    <3>10. InnerProduct(a, u) \in Int /\ InnerProduct(b, u) \in Int
      BY <3>5, <3>6, InnerProductInt
    <3>11. InnerProduct(b, u) = InnerProduct(a, u) + h * e
      BY <2>3, <3>3, <3>8, <3>9, <3>10
    <3>12. InnerProduct(z, m) = InnerProduct(a, u) + e * h
      BY <2>3, <3>1, <3>2, <3>3, <3>10
    <3> QED BY <2>3, <3>3, <3>10, <3>11, <3>12 DEF b
  <2>6. Combines(z, u, S, t)
    BY <2>4, <2>5 DEF Combines
  <2> QED BY <2>1, <2>6
<1>3. 0..n \subseteq T
  <2>1. n \in Nat
    BY DimensionAssumption
  <2> HIDE DEF T
  <2> QED BY <1>1, <1>2, <2>1, UpFromZero
<1>4. n \in 0..n
  BY DimensionAssumption
<1> QED BY <1>3, <1>4

\* More rows than equations: some combination of the rows satisfies them all.
LEMMA Dependent ==
  ASSUME NEW n \in 1..Dimension, NEW S, \A x \in 1..n : S[x] \in IntRow,
         NEW F, F \subseteq IntRow, IsFiniteSet(F), Cardinality(F) < n
  PROVE  \E u \in IntRow : \E y :
           /\ Combines(y, u, S, n) /\ \A f \in F : InnerProduct(y, f) = 0
           /\ \E x \in 1..n : u[x] # 0
           /\ \A x \in Coordinates : x \notin 1..n => u[x] = 0
<1> DEFINE I == n + 1 .. Dimension
           g == [f \in F |-> Gram(S, n, f)]
           a == [c \in I |-> Axis(c)]
           G == {g[f] : f \in F}
           A == {a[c] : c \in I}
<1>1. /\ n \in 0..Dimension /\ I \subseteq Coordinates /\ n \in Nat /\ 1..n \subseteq Coordinates
      /\ \A c \in Coordinates : c \in 1..n \/ c \in I
      /\ \A c \in I : c \notin 1..n
  BY DimensionAssumption DEF Coordinates
<1>2. IsFiniteSet(I) /\ Cardinality(I) = Dimension - n
  <2>1. n + 1 \in Int /\ Dimension \in Int
    BY DimensionAssumption
  <2>2. IsFiniteSet(I) /\ Cardinality(I) = IF n + 1 > Dimension THEN 0 ELSE Dimension - (n + 1) + 1
    BY <2>1, FS_Interval
  <2> QED BY <2>2, DimensionAssumption
<1>3. IsFiniteSet(G) /\ Cardinality(G) <= Cardinality(F)
  <2>1. DOMAIN g = F
    OBVIOUS
  <2> HIDE DEF g
  <2> QED BY <2>1, ImageSize
<1>4. IsFiniteSet(A) /\ Cardinality(A) <= Cardinality(I)
  <2>1. DOMAIN a = I
    OBVIOUS
  <2> HIDE DEF a, I
  <2> QED BY <1>2, <2>1, ImageSize
<1>5. \A f \in F : g[f] \in IntRow /\ g[f] = Gram(S, n, f)
  BY <1>1, GramRow
<1>6. \A c \in I : a[c] \in IntRow /\ a[c] = Axis(c)
  BY <1>1, AxisAt
<1>7. G \cup A \subseteq IntRow
  BY <1>5, <1>6
<1> HIDE DEF G, A, g, a, I
<1>8. IsFiniteSet(G \cup A) /\ Cardinality(G \cup A) < Dimension
  <2>1. IsFiniteSet(G \cup A) /\ Cardinality(G \cup A) <= Cardinality(G) + Cardinality(A)
    BY <1>3, <1>4, UnionSize
  <2>2. Cardinality(G) \in Nat /\ Cardinality(A) \in Nat /\ Cardinality(F) \in Nat /\ Cardinality(G \cup A) \in Nat
    BY <1>3, <1>4, <2>1, FS_CardinalityType
  <2> QED BY <1>1, <1>2, <1>3, <1>4, <2>1, <2>2, DimensionAssumption
<1>9. PICK u \in IntRow : (\E c \in Coordinates : u[c] # 0) /\ \A f \in G \cup A : InnerProduct(f, u) = 0
  BY <1>7, <1>8, NullVector
<1>10. PICK y : Combines(y, u, S, n)
  BY <1>1, Combination
<1>11. ASSUME NEW f \in F PROVE InnerProduct(y, f) = 0
  <2>1. g[f] \in G \cup A /\ f \in IntRow
    BY DEF G
  <2>2. InnerProduct(Gram(S, n, f), u) = 0
    BY <1>5, <1>9, <2>1
  <2> QED BY <1>10, <2>1, <2>2 DEF Combines
<1>12. ASSUME NEW c \in I PROVE u[c] = 0
  <2>1. a[c] \in G \cup A /\ c \in Coordinates
    BY <1>1 DEF A
  <2>2. InnerProduct(Axis(c), u) = 0
    BY <1>6, <1>9, <2>1
  <2> QED BY <2>1, <2>2, AxisProduct, InnerProductSymmetric
<1>13. \A x \in Coordinates : x \notin 1..n => u[x] = 0
  BY <1>1, <1>12
<1>14. \E x \in 1..n : u[x] # 0
  BY <1>9, <1>13
<1> QED BY <1>10, <1>11, <1>13, <1>14

\* The first rows of K have a pivot each, behind zeros and in no other row.
Pivotal(M, column, rank, K) ==
  /\ \A y \in K : M[y] \in IntRow
  /\ \A x \in 0 .. rank - 1 :
       /\ x \in K /\ column[x] \in Coordinates /\ M[x][column[x]] # 0
       /\ \A c \in 1 .. column[x] - 1 : M[x][c] = 0
       /\ \A y \in K : y # x => M[y][column[x]] = 0

\* Gauss4 leaves such rows.
LEMMA EchelonPivotal ==
  ASSUME NEW m \in Nat, NEW n \in 0..m, NEW rank \in 0..n, NEW M \in MatrixOf(m), NEW column,
         Echelon(M, column, rank, n), Alone(M, column, 0, rank, n, m)
  PROVE  Pivotal(M, column, rank, 0 .. m - 1)
<1>1. \A y \in 0 .. m - 1 : M[y] \in IntRow
  BY DEF MatrixOf
<1>2. ASSUME NEW x \in 0 .. rank - 1
      PROVE  /\ x \in 0 .. m - 1 /\ column[x] \in Coordinates /\ M[x][column[x]] # 0
             /\ \A c \in 1 .. column[x] - 1 : M[x][c] = 0
             /\ \A y \in 0 .. m - 1 : y # x => M[y][column[x]] = 0
  <2>1. /\ column[x] \in Coordinates /\ M[x][column[x]] > 0
        /\ \A y \in x + 1 .. n - 1 : M[y][column[x]] = 0
        /\ \A c \in 1 .. column[x] - 1 : M[x][c] = 0
    BY <1>2 DEF Echelon
  <2>2. \A y \in (0 .. x - 1) \cup (n .. m - 1) : M[y][column[x]] = 0
    BY <1>2 DEF Alone
  <2>3. x \in 0 .. m - 1 /\ \A y \in 0 .. m - 1 : y # x => y \in x + 1 .. n - 1 \/ y \in (0 .. x - 1) \cup (n .. m - 1)
    BY <1>2
  <2>4. M[x][column[x]] # 0
    BY <2>1
  <2> QED BY <2>1, <2>2, <2>3, <2>4
<1> QED BY <1>1, <1>2 DEF Pivotal

\* The coordinates without a pivot.
Free(column, rank) == Coordinates \ {column[x] : x \in 0 .. rank - 1}

\* Their number.
LEMMA FreeSize ==
  ASSUME NEW rank \in Nat, NEW M, NEW column, NEW K, Pivotal(M, column, rank, K)
  PROVE  /\ IsFiniteSet(Free(column, rank)) /\ Cardinality(Free(column, rank)) = Dimension - rank
         /\ Free(column, rank) \subseteq Coordinates
<1> DEFINE X == 0 .. rank - 1
           f == [x \in X |-> column[x]]
           C == {column[x] : x \in X}
<1>1. IsFiniteSet(X) /\ Cardinality(X) = rank
  <2>1. 0 \in Int /\ rank - 1 \in Int
    OBVIOUS
  <2>2. IsFiniteSet(X) /\ Cardinality(X) = IF 0 > rank - 1 THEN 0 ELSE (rank - 1) - 0 + 1
    BY <2>1, FS_Interval
  <2> QED BY <2>2
<1>2. f \in Bijection(X, C)
  <2>1. \A x \in X, y \in X : column[x] = column[y] => x = y
    BY DEF Pivotal
  <2>2. f \in [X -> C] /\ \A t \in C : \E x \in X : f[x] = t
    OBVIOUS
  <2> QED BY <2>1, <2>2 DEF Bijection, Injection, Surjection, IsInjective
<1>3. IsFiniteSet(C) /\ Cardinality(C) = rank
  <2>1. ExistsBijection(X, C)
    BY <1>2 DEF ExistsBijection
  <2> QED BY <1>1, <2>1, FS_Bijection
<1>4. IsFiniteSet(Coordinates) /\ Cardinality(Coordinates) = Dimension
  <2>1. 1 \in Int /\ Dimension \in Int
    BY DimensionAssumption
  <2>2. IsFiniteSet(1..Dimension) /\ Cardinality(1..Dimension) = IF 1 > Dimension THEN 0 ELSE Dimension - 1 + 1
    BY <2>1, FS_Interval
  <2> QED BY <2>2, DimensionAssumption DEF Coordinates
<1>5. C \subseteq Coordinates
  BY DEF Pivotal
<1> HIDE DEF C
<1>6. Coordinates \cap C = C
  BY <1>5
<1>7. IsFiniteSet(Coordinates \ C) /\ Cardinality(Coordinates \ C) = Cardinality(Coordinates) - Cardinality(Coordinates \cap C)
  BY <1>4, FS_Difference
<1> QED BY <1>3, <1>4, <1>6, <1>7 DEF Free, C

\* A vector that satisfies the equations and is zero in the coordinates without
\* pivot is zero.
LEMMA FreeZero ==
  ASSUME NEW rank \in Nat, NEW M, NEW column, NEW K, Pivotal(M, column, rank, K),
         NEW v \in IntRow, \A x \in 0 .. rank - 1 : InnerProduct(v, M[x]) = 0,
         \A c \in Free(column, rank) : v[c] = 0
  PROVE  \A c \in Coordinates : v[c] = 0
<1>1. ASSUME NEW x \in 0 .. rank - 1 PROVE v[column[x]] = 0
  <2> DEFINE d == column[x]
  <2>1. d \in Coordinates /\ M[x] \in IntRow /\ M[x][d] # 0
    BY DEF Pivotal
  <2>2. ASSUME NEW c \in Coordinates, c # d PROVE v[c] = 0 \/ M[x][c] = 0
    <3>1. CASE c \in Free(column, rank)
      BY <3>1
    <3>2. CASE c \notin Free(column, rank)
      <4>1. PICK y \in 0 .. rank - 1 : c = column[y]
        BY <2>2, <3>2 DEF Free
      <4>2. x \in K /\ x # y
        BY <2>2, <4>1 DEF Pivotal
      <4> QED BY <4>1, <4>2 DEF Pivotal
    <3> QED BY <3>1, <3>2
  <2>3. InnerProduct(v, M[x]) = v[d] * M[x][d]
    BY <2>1, <2>2, SingleProduct
  <2>4. v[d] \in Int /\ M[x][d] \in Int /\ v[d] * M[x][d] = 0
    <3>1. d \in 0..Dimension
      BY <2>1, DimensionAssumption DEF Coordinates
    <3>2. v[d] \in Int /\ M[x][d] \in Int
      BY <2>1, <3>1 DEF IntRow
    <3>3. x \in 0 .. rank - 1
      OBVIOUS
    <3>4. InnerProduct(v, M[x]) = 0
      BY <3>3
    <3> HIDE DEF d
    <3> QED BY <2>3, <3>2, <3>4
  <2> HIDE DEF d
  <2>5. v[d] = 0
    BY <2>1, <2>4
  <2> QED BY <2>5 DEF d
<1>2. ASSUME NEW c \in Coordinates, c \notin Free(column, rank) PROVE v[c] = 0
  <2>1. PICK x \in 0 .. rank - 1 : c = column[x]
    BY <1>2 DEF Free
  <2> QED BY <1>1, <2>1
<1> QED BY <1>2

\* A vector that satisfies the equations and is zero in all the coordinates
\* without pivot but one.
LEMMA FreeVector ==
  ASSUME NEW rank \in Nat, NEW M, NEW column, NEW K, Pivotal(M, column, rank, K),
         NEW t \in Free(column, rank)
  PROVE  \E v \in IntRow : /\ \A x \in 0 .. rank - 1 : InnerProduct(v, M[x]) = 0
                           /\ v[t] # 0
                           /\ \A c \in Free(column, rank) : c # t => v[c] = 0
<1> DEFINE X == 0 .. rank - 1
           I == Free(column, rank) \ {t}
           e == [x \in X |-> M[x]]
           a == [c \in I |-> Axis(c)]
           E == {e[x] : x \in X}
           B == {a[c] : c \in I}
<1>1. /\ IsFiniteSet(Free(column, rank)) /\ Cardinality(Free(column, rank)) = Dimension - rank
      /\ Free(column, rank) \subseteq Coordinates
  BY FreeSize
<1>2. IsFiniteSet(I) /\ Cardinality(I) = Dimension - rank - 1
  BY <1>1, FS_RemoveElement
<1>3. IsFiniteSet(X) /\ Cardinality(X) = rank
  <2>1. 0 \in Int /\ rank - 1 \in Int
    OBVIOUS
  <2>2. IsFiniteSet(X) /\ Cardinality(X) = IF 0 > rank - 1 THEN 0 ELSE (rank - 1) - 0 + 1
    BY <2>1, FS_Interval
  <2> QED BY <2>2
<1>4. \A x \in X : e[x] = M[x] /\ M[x] \in IntRow
  BY DEF Pivotal
<1>5. \A c \in I : a[c] = Axis(c) /\ c \in Coordinates /\ Axis(c) \in IntRow
  BY <1>1, AxisAt
<1>6. IsFiniteSet(E) /\ Cardinality(E) <= Cardinality(X)
  <2>1. DOMAIN e = X
    OBVIOUS
  <2> HIDE DEF e, X
  <2> QED BY <1>3, <2>1, ImageSize
<1>7. IsFiniteSet(B) /\ Cardinality(B) <= Cardinality(I)
  <2>1. DOMAIN a = I
    OBVIOUS
  <2> HIDE DEF a, I
  <2> QED BY <1>2, <2>1, ImageSize
<1>8. E \cup B \subseteq IntRow
  BY <1>4, <1>5
<1>9. \A c \in I : c \in Free(column, rank) /\ c # t
  OBVIOUS
<1>10. \A c \in Free(column, rank) : c # t => c \in I
  OBVIOUS
<1> HIDE DEF E, B, e, a, I, X
<1>11. IsFiniteSet(E \cup B) /\ Cardinality(E \cup B) < Dimension
  <2>1. IsFiniteSet(E \cup B) /\ Cardinality(E \cup B) <= Cardinality(E) + Cardinality(B)
    BY <1>6, <1>7, UnionSize
  <2>2. Cardinality(E) \in Nat /\ Cardinality(B) \in Nat /\ Cardinality(E \cup B) \in Nat
    BY <1>6, <1>7, <2>1, FS_CardinalityType
  <2> QED BY <1>2, <1>3, <1>6, <1>7, <2>1, <2>2, DimensionAssumption
<1>12. PICK v \in IntRow : (\E c \in Coordinates : v[c] # 0) /\ \A f \in E \cup B : InnerProduct(f, v) = 0
  BY <1>8, <1>11, NullVector
<1>13. \A x \in 0 .. rank - 1 : InnerProduct(v, M[x]) = 0
  <2> SUFFICES ASSUME NEW x \in 0 .. rank - 1 PROVE InnerProduct(v, M[x]) = 0
    OBVIOUS
  <2>1. x \in X
    BY DEF X
  <2>2. e[x] \in E \cup B
    BY <2>1 DEF E
  <2>3. InnerProduct(M[x], v) = 0 /\ M[x] \in IntRow
    BY <1>4, <1>12, <2>1, <2>2
  <2> QED BY <2>3, InnerProductSymmetric
<1>14. \A c \in Free(column, rank) : c # t => v[c] = 0
  <2> SUFFICES ASSUME NEW c \in I PROVE v[c] = 0
    BY <1>10
  <2>1. a[c] \in E \cup B
    BY DEF B
  <2>2. InnerProduct(Axis(c), v) = 0 /\ c \in Coordinates /\ Axis(c) \in IntRow
    BY <1>5, <1>12, <2>1
  <2>3. InnerProduct(v, Axis(c)) = 0
    BY <2>2, InnerProductSymmetric
  <2> QED BY <2>2, <2>3, AxisProduct
<1>15. v[t] # 0
  <2> SUFFICES ASSUME v[t] = 0 PROVE FALSE
    OBVIOUS
  <2>1. \A c \in Free(column, rank) : v[c] = 0
    BY <1>14
  <2>2. \A c \in Coordinates : v[c] = 0
    BY <1>13, <2>1, FreeZero
  <2> QED BY <1>12, <2>2
<1> QED BY <1>13, <1>14, <1>15

\* Its product with a row that is zero in the columns of the pivots.
ZeroAtPivots(w, column, rank) == w \in IntRow /\ \A x \in 0 .. rank - 1 : w[column[x]] = 0

LEMMA FreeProduct ==
  ASSUME NEW rank \in Nat, NEW column, NEW t \in Free(column, rank), NEW v \in IntRow,
         \A c \in Free(column, rank) : c # t => v[c] = 0,
         NEW w, ZeroAtPivots(w, column, rank)
  PROVE  InnerProduct(v, w) = v[t] * w[t] /\ v[t] \in Int /\ w[t] \in Int /\ t \in Coordinates
<1>1. w \in IntRow /\ t \in Coordinates
  BY DEF ZeroAtPivots, Free
<1>2. \A c \in Coordinates : c = t \/ v[c] = 0 \/ w[c] = 0
  BY DEF ZeroAtPivots, Free
<1>3. InnerProduct(v, w) = v[t] * w[t]
  BY <1>1, <1>2, SingleProduct
<1>4. t \in 0..Dimension
  BY <1>1, DimensionAssumption DEF Coordinates
<1> QED BY <1>1, <1>3, <1>4 DEF IntRow

\* A row that is zero in the columns of the pivots and on the vectors that satisfy
\* the equations and end with zero has no other entry than its last.
SpansAtInfinity(M, rank, w) ==
  \A v \in IntRow : (\A x \in 0 .. rank - 1 : InnerProduct(v, M[x]) = 0) /\ v[Dimension] = 0
                      => InnerProduct(v, w) = 0

LEMMA LastOnly ==
  ASSUME NEW rank \in Nat, NEW M, NEW column, NEW K, Pivotal(M, column, rank, K),
         Dimension \in Free(column, rank), NEW w, ZeroAtPivots(w, column, rank), SpansAtInfinity(M, rank, w)
  PROVE  \A c \in Coordinates : c # Dimension => w[c] = 0
<1> SUFFICES ASSUME NEW c \in Coordinates, c # Dimension PROVE w[c] = 0
  OBVIOUS
<1>1. CASE c \in Free(column, rank)
  <2>1. PICK v \in IntRow : /\ \A x \in 0 .. rank - 1 : InnerProduct(v, M[x]) = 0
                            /\ v[c] # 0
                            /\ \A d \in Free(column, rank) : d # c => v[d] = 0
    BY <1>1, FreeVector
  <2>2. InnerProduct(v, w) = 0
    BY <2>1, DimensionAssumption DEF SpansAtInfinity, Free, Coordinates
  <2>3. InnerProduct(v, w) = v[c] * w[c] /\ v[c] \in Int /\ w[c] \in Int
    BY <1>1, <2>1, FreeProduct
  <2> QED BY <2>1, <2>2, <2>3
<1>2. CASE c \notin Free(column, rank)
  BY <1>2 DEF Free, ZeroAtPivots
<1> QED BY <1>1, <1>2

-----------------------------------------------------------------------------
(* Which rows a facet can be.                                              *)

\* A vector that saturates a valid inequality, and no constraint that a ray on
\* the same face does not saturate.
LEMMA InsideFace ==
  ASSUME NEW A, NEW E, NEW R, NEW L, Tight(A, E, R, L), NEW p \in IntRow, Obeys(p, R, L)
  PROVE  \E y \in IntRow : /\ Obeys(y, A, E) /\ InnerProduct(y, p) = 0
                           /\ \A d \in Zeros(y, A) : Touched(p, R) \subseteq Touched(A[d], R)
<1> DEFINE B == {y \in IntRow : Obeys(y, A, E) /\ InnerProduct(y, p) = 0}
<1>1. IsFamily(A) /\ IsFamily(R) /\ E \subseteq DOMAIN A
  BY DEF Tight
<1>2. B # {}
  <2>1. Mix(0, p, 0, p) \in IntRow /\ \A m \in IntRow : InnerProduct(Mix(0, p, 0, p), m) = 0
    BY ZeroRow
  <2>2. Obeys(Mix(0, p, 0, p), A, E)
    BY <1>1, <2>1 DEF Obeys, IsFamily
  <2> QED BY <2>1, <2>2
<1>3. ASSUME NEW y \in B, NEW z \in B PROVE Mix(1, y, 1, z) \in B
  <2>1. 1 \in Nat /\ 1 \in Int
    OBVIOUS
  <2>2. Mix(1, y, 1, z) \in IntRow /\ Obeys(Mix(1, y, 1, z), A, E)
    BY <1>1, <2>1, MixObeys
  <2>3. InnerProduct(Mix(1, y, 1, z), p) = 1 * 0 + 1 * 0
    BY <2>1, MixProduct
  <2> QED BY <2>2, <2>3
<1>4. PICK y \in B : \A z \in B : Zeros(y, A) \subseteq Zeros(z, A)
  <2>1. \A x \in B : x \in IntRow /\ Obeys(x, A, E)
    OBVIOUS
  <2> HIDE DEF B
  <2> QED BY <1>1, <1>2, <1>3, <2>1, LeastSaturated
<1>5. ASSUME NEW d \in Zeros(y, A), NEW r \in Touched(p, R) PROVE r \in Touched(A[d], R)
  <2>1. r \in DOMAIN R /\ R[r] \in IntRow /\ Obeys(R[r], A, E) /\ InnerProduct(R[r], p) = 0
    BY <1>1 DEF Touched, IsFamily, Tight
  <2>2. R[r] \in B
    BY <2>1
  <2>3. d \in Zeros(R[r], A)
    BY <1>4, <2>2
  <2> QED BY <2>1, <2>3 DEF Zeros, Touched
<1> QED BY <1>5

\* A vector of the cone that does not saturate a constraint lies on a face with a
\* ray that does not either.
LEMMA TightPositive ==
  ASSUME NEW A, NEW E, NEW R, NEW L, Tight(A, E, R, L), NEW x \in IntRow, Obeys(x, A, E),
         NEW c \in DOMAIN A, InnerProduct(x, A[c]) # 0
  PROVE  \E r \in DOMAIN R : Zeros(x, A) \subseteq Zeros(R[r], A) /\ InnerProduct(R[r], A[c]) # 0
<1> SUFFICES ASSUME \A r \in DOMAIN R : Zeros(x, A) \subseteq Zeros(R[r], A) => InnerProduct(R[r], A[c]) = 0
             PROVE  FALSE
  OBVIOUS
<1>1. Tight(R, L, A, E) /\ IsFamily(A) /\ IsFamily(R)
  <2>1. Tight(R, L, A, E)
    BY TightSwapped
  <2> QED BY <2>1 DEF Tight
<1>2. PICK y \in IntRow : /\ Obeys(y, R, L) /\ InnerProduct(y, x) = 0
                          /\ \A r \in Zeros(y, R) : Touched(x, A) \subseteq Touched(R[r], A)
  BY <1>1, InsideFace
<1>3. A[c] \in IntRow /\ Reversed(A[c]) \in IntRow /\ Obeys(A[c], R, L)
  <2>1. A[c] \in IntRow /\ Obeys(A[c], R, L)
    BY ConstraintObeys
  <2> QED BY <2>1, ReversedProduct
<1>4. ASSUME NEW r \in DOMAIN R, InnerProduct(y, R[r]) = 0 PROVE InnerProduct(A[c], R[r]) = 0
  <2>1. R[r] \in IntRow /\ \A d \in DOMAIN A : A[d] \in IntRow
    BY <1>1 DEF IsFamily
  <2>2. Touched(x, A) \subseteq Touched(R[r], A)
    BY <1>2, <1>4 DEF Zeros
  <2>3. \A d \in DOMAIN A : InnerProduct(A[d], x) = InnerProduct(x, A[d]) /\ InnerProduct(A[d], R[r]) = InnerProduct(R[r], A[d])
    BY <2>1, InnerProductSymmetric
  <2>4. Zeros(x, A) \subseteq Zeros(R[r], A)
    BY <2>2, <2>3 DEF Zeros, Touched
  <2> QED BY <2>3, <2>4
<1> DEFINE v == Reversed(A[c])
<1>5. \A r \in DOMAIN R : InnerProduct(y, R[r]) = 0 => InnerProduct(v, R[r]) >= 0
  <2> SUFFICES ASSUME NEW r \in DOMAIN R, InnerProduct(y, R[r]) = 0 PROVE InnerProduct(v, R[r]) = 0
    OBVIOUS
  <2>1. R[r] \in IntRow /\ InnerProduct(A[c], R[r]) = 0
    BY <1>1, <1>4 DEF IsFamily
  <2> QED BY <1>3, <2>1, ReversedZero
<1>6. \A r \in DOMAIN R : r \in L => InnerProduct(v, R[r]) = 0
  <2> SUFFICES ASSUME NEW r \in DOMAIN R, r \in L PROVE InnerProduct(v, R[r]) = 0
    OBVIOUS
  <2>1. R[r] \in IntRow /\ InnerProduct(A[c], R[r]) = 0
    BY <1>1, <1>3 DEF IsFamily, Obeys
  <2> QED BY <1>3, <2>1, ReversedZero
<1>7. v \in IntRow
  BY <1>3
<1> HIDE DEF v
<1>8. PICK K \in Nat \ {0} : Mix(K, y, 1, v) \in IntRow /\ Obeys(Mix(K, y, 1, v), R, L)
  BY <1>1, <1>2, <1>5, <1>6, <1>7, ShortStep
<1>9. InnerProduct(x, Mix(K, y, 1, v)) >= 0
  BY <1>8, TightMeets
<1>10. K \in Int /\ 1 \in Int /\ K * 0 = 0
  OBVIOUS
<1>11. InnerProduct(x, Mix(K, y, 1, v)) = K * InnerProduct(x, y) + 1 * InnerProduct(x, v)
  BY <1>2, <1>7, <1>10, ProductMix
<1>12. InnerProduct(x, y) = 0
  BY <1>2, InnerProductSymmetric
<1>13. InnerProduct(x, v) = -InnerProduct(x, A[c]) /\ InnerProduct(x, A[c]) \in Int
  BY <1>3, ReversedProduct, InnerProductInt DEF v
<1>14. InnerProduct(x, A[c]) >= 0
  BY DEF Obeys
<1> QED BY <1>9, <1>10, <1>11, <1>12, <1>13, <1>14

\* If the only other constraint that holds on a facet is p, the row of the facet
\* is spanned by p and the equalities.
LEMMA BelowRow ==
  ASSUME NEW A, NEW E, NEW R, NEW L, Tight(A, E, R, L), NEW c \in DOMAIN A \ E, NEW p \in DOMAIN A \ E,
         Touched(A[c], R) \subseteq Touched(A[p], R),
         \A d \in DOMAIN A \ E : Touched(A[c], R) \subseteq Touched(A[d], R) => d = c \/ Alike(A[d], A[p]),
         NEW v \in IntRow, \A e \in E : InnerProduct(v, A[e]) = 0, InnerProduct(v, A[p]) = 0,
         InnerProduct(v, A[c]) < 0
  PROVE  FALSE
<1>1. IsFamily(A) /\ IsFamily(R) /\ E \subseteq DOMAIN A
  BY DEF Tight
<1>2. A[c] \in IntRow /\ Obeys(A[c], R, L) /\ A[p] \in IntRow
  BY ConstraintObeys
<1>3. PICK y \in IntRow : /\ Obeys(y, A, E) /\ InnerProduct(y, A[c]) = 0
                          /\ \A d \in Zeros(y, A) : Touched(A[c], R) \subseteq Touched(A[d], R)
  BY <1>2, InsideFace
<1>4. PICK z \in DOMAIN R : InnerProduct(R[z], A[p]) > 0
  BY DEF Tight
<1>5. R[z] \in IntRow /\ InnerProduct(R[z], A[c]) \in Nat /\ InnerProduct(R[z], A[c]) # 0 /\ \A e \in E : InnerProduct(R[z], A[e]) = 0
  <2>1. R[z] \in IntRow /\ InnerProduct(R[z], A[c]) \in Nat /\ \A e \in E : InnerProduct(R[z], A[e]) = 0
    BY <1>1, TightProducts
  <2>2. z \notin Touched(A[p], R)
    BY <1>4 DEF Touched
  <2>3. z \notin Touched(A[c], R)
    BY <2>2
  <2> QED BY <2>1, <2>3 DEF Touched
<1> DEFINE a == InnerProduct(R[z], A[c])
           b == -InnerProduct(v, A[c])
           w == Mix(a, v, b, R[z])
<1>6. a \in Nat \ {0} /\ b \in Nat \ {0} /\ a \in Int /\ b \in Int
  <2>1. InnerProduct(v, A[c]) \in Int
    BY <1>2, InnerProductInt
  <2> QED BY <1>5, <2>1
<1>7. w \in IntRow /\ \A m \in IntRow : InnerProduct(w, m) = a * InnerProduct(v, m) + b * InnerProduct(R[z], m)
  <2> HIDE DEF a, b
  <2> QED BY <1>5, <1>6, MixRow, MixProduct
<1>8. InnerProduct(w, A[c]) = 0
  <2>1. InnerProduct(w, A[c]) = a * InnerProduct(v, A[c]) + b * InnerProduct(R[z], A[c])
    BY <1>2, <1>7
  <2>2. InnerProduct(v, A[c]) = -b /\ InnerProduct(R[z], A[c]) = a
    <3>1. InnerProduct(v, A[c]) \in Int
      BY <1>2, InnerProductInt
    <3> QED BY <3>1
  <2> HIDE DEF a, b, w
  <2> QED BY <1>6, <2>1, <2>2
<1>9. InnerProduct(w, A[p]) > 0
  <2>1. InnerProduct(w, A[p]) = a * InnerProduct(v, A[p]) + b * InnerProduct(R[z], A[p])
    BY <1>2, <1>7
  <2>2. InnerProduct(v, A[p]) = 0 /\ InnerProduct(R[z], A[p]) \in Int /\ InnerProduct(R[z], A[p]) > 0
    BY <1>2, <1>4, <1>5, InnerProductInt
  <2> HIDE DEF a, b, w
  <2>3. b * InnerProduct(R[z], A[p]) > 0 /\ a * 0 = 0
    BY <1>6, <2>2
  <2> QED BY <1>6, <2>1, <2>2, <2>3
<1>10. \A e \in E : InnerProduct(w, A[e]) = 0
  <2> SUFFICES ASSUME NEW e \in E PROVE InnerProduct(w, A[e]) = 0
    OBVIOUS
  <2>1. A[e] \in IntRow
    BY <1>1 DEF IsFamily
  <2>2. InnerProduct(w, A[e]) = a * InnerProduct(v, A[e]) + b * InnerProduct(R[z], A[e])
    BY <1>7, <2>1
  <2>3. InnerProduct(v, A[e]) = 0 /\ InnerProduct(R[z], A[e]) = 0
    BY <1>5
  <2> HIDE DEF a, b, w
  <2> QED BY <1>6, <2>2, <2>3
<1> HIDE DEF w, a, b
<1>11. \A d \in DOMAIN A : InnerProduct(y, A[d]) = 0 => InnerProduct(w, A[d]) >= 0
  <2> SUFFICES ASSUME NEW d \in DOMAIN A, InnerProduct(y, A[d]) = 0 PROVE InnerProduct(w, A[d]) >= 0
    OBVIOUS
  <2>1. CASE d \in E
    BY <1>10, <2>1
  <2>2. CASE d \notin E
    <3>1. Touched(A[c], R) \subseteq Touched(A[d], R)
      BY <1>3 DEF Zeros
    <3>2. d = c \/ Alike(A[d], A[p])
      BY <2>2, <3>1
    <3>3. Alike(A[d], A[p]) => InnerProduct(w, A[d]) = InnerProduct(w, A[p])
      BY <1>7 DEF Alike
    <3>4. InnerProduct(w, A[p]) \in Int
      BY <1>2, <1>7, InnerProductInt
    <3> QED BY <1>8, <1>9, <3>2, <3>3, <3>4
  <2> QED BY <2>1, <2>2
<1>12. \A d \in DOMAIN A : d \in E => InnerProduct(w, A[d]) = 0
  BY <1>10
<1>13. PICK K \in Nat \ {0} : Mix(K, y, 1, w) \in IntRow /\ Obeys(Mix(K, y, 1, w), A, E)
  BY <1>1, <1>3, <1>7, <1>11, <1>12, ShortStep
<1> DEFINE u == Mix(K, y, 1, w)
<1>14. K \in Int /\ 1 \in Int /\ K * 0 = 0
  OBVIOUS
<1>15. \A m \in IntRow : InnerProduct(u, m) = K * InnerProduct(y, m) + 1 * InnerProduct(w, m)
  BY <1>7, <1>14, MixProduct
<1>16. u \in IntRow /\ Obeys(u, A, E)
  BY <1>13
<1> HIDE DEF u
<1>17. InnerProduct(u, A[c]) = 0
  <2>1. InnerProduct(u, A[c]) = K * InnerProduct(y, A[c]) + 1 * InnerProduct(w, A[c])
    BY <1>2, <1>15
  <2> QED BY <1>3, <1>8, <1>14, <2>1
<1>18. InnerProduct(u, A[p]) # 0
  <2>1. InnerProduct(u, A[p]) = K * InnerProduct(y, A[p]) + 1 * InnerProduct(w, A[p])
    BY <1>2, <1>15
  <2>2. InnerProduct(y, A[p]) \in Int /\ InnerProduct(y, A[p]) >= 0 /\ InnerProduct(w, A[p]) \in Int
    BY <1>2, <1>3, <1>7, InnerProductInt DEF Obeys
  <2>3. K * InnerProduct(y, A[p]) >= 0 /\ K * InnerProduct(y, A[p]) \in Int
    BY <2>2
  <2> QED BY <1>9, <2>1, <2>2, <2>3
<1>19. PICK r \in DOMAIN R : Zeros(u, A) \subseteq Zeros(R[r], A) /\ InnerProduct(R[r], A[p]) # 0
  BY <1>16, <1>18, TightPositive
<1>20. r \in Touched(A[c], R)
  BY <1>17, <1>19 DEF Zeros, Touched
<1> QED BY <1>19, <1>20 DEF Touched

\* The case of the positivity constraint: what lies below it is zero where the
\* equalities and the last coordinate are.
LEMMA BelowPositivity ==
  ASSUME NEW A, NEW E, NEW R, NEW L, Tight(A, E, R, L), NEW c \in DOMAIN A \ E, NEW p \in DOMAIN A \ E,
         \A x \in IntRow : InnerProduct(x, A[p]) = x[Dimension],
         Touched(A[c], R) \subseteq Touched(A[p], R),
         \A d \in DOMAIN A \ E : Touched(A[c], R) \subseteq Touched(A[d], R) => d = c \/ Alike(A[d], A[p]),
         NEW rank \in Nat, NEW M,
         \A v \in IntRow : (\A x \in 0 .. rank - 1 : InnerProduct(v, M[x]) = 0) =>
                             \A e \in E : InnerProduct(v, A[e]) = 0
  PROVE  SpansAtInfinity(M, rank, A[c])
<1>1. ASSUME NEW v \in IntRow, \A e \in E : InnerProduct(v, A[e]) = 0, v[Dimension] = 0
      PROVE  InnerProduct(v, A[c]) >= 0 /\ InnerProduct(v, A[c]) \in Int
  <2>1. InnerProduct(v, A[p]) = 0
    BY <1>1
  <2>2. A[c] \in IntRow
    BY DEF Tight, IsFamily
  <2>3. InnerProduct(v, A[c]) \in Int
    BY <2>2, InnerProductInt
  <2>4. ~(InnerProduct(v, A[c]) < 0)
    BY <1>1, <2>1, BelowRow
  <2> QED BY <2>3, <2>4
<1>2. ASSUME NEW v \in IntRow, \A x \in 0 .. rank - 1 : InnerProduct(v, M[x]) = 0, v[Dimension] = 0
      PROVE  InnerProduct(v, A[c]) = 0
  <2>1. \A e \in E : InnerProduct(v, A[e]) = 0
    BY <1>2
  <2>2. A[c] \in IntRow /\ A[p] \in IntRow /\ \A e \in E : A[e] \in IntRow
    BY DEF Tight, IsFamily
  <2>3. Reversed(v) \in IntRow /\ \A m \in IntRow : InnerProduct(Reversed(v), m) = -InnerProduct(v, m)
    BY ReversedProduct
  <2>4. \A e \in E : InnerProduct(Reversed(v), A[e]) = 0
    BY <2>1, <2>2, ReversedZero
  <2>5. Reversed(v)[Dimension] = 0
    BY <1>2, <2>2, <2>3, ReversedZero
  <2>6. InnerProduct(v, A[c]) >= 0 /\ InnerProduct(v, A[c]) \in Int
    BY <1>1, <1>2, <2>1
  <2>7. InnerProduct(Reversed(v), A[c]) >= 0
    BY <1>1, <2>3, <2>4, <2>5
  <2> QED BY <2>2, <2>3, <2>6, <2>7
<1> QED BY <1>2 DEF SpansAtInfinity

-----------------------------------------------------------------------------
(* Few rays on a face.                                                     *)

\* What all the rows saturate, their combination does.
LEMMA CombinedZero ==
  ASSUME NEW n \in 0..Dimension, NEW S, \A x \in 1..n : S[x] \in IntRow, NEW u \in IntRow, NEW y, Combines(y, u, S, n),
         NEW m \in IntRow, \A x \in 1..n : InnerProduct(S[x], m) = 0
  PROVE  InnerProduct(y, m) = 0
<1>1. /\ Gram(S, n, m) \in IntRow
      /\ \A x \in 1..n : Gram(S, n, m)[x] = InnerProduct(S[x], m)
      /\ \A x \in Coordinates : x \notin 1..n => Gram(S, n, m)[x] = 0
  BY GramRow
<1>2. \A x \in Coordinates : Gram(S, n, m)[x] = 0 \/ u[x] = 0
  BY <1>1
<1> QED BY <1>1, <1>2, DisjointProduct DEF Combines

\* A combination that is zero gives no weight to the rows with a pivot.
LEMMA PivotsWeighNothing ==
  ASSUME NEW n \in 0..Dimension, NEW S, \A x \in 1..n : S[x] \in IntRow, NEW u \in IntRow,
         \A m \in IntRow : InnerProduct(Gram(S, n, m), u) = 0,
         NEW b \in 0..n, NEW N, NEW column, NEW K, Pivotal(N, column, b, K),
         \A x \in 1..b : S[x] = N[x - 1],
         \A x \in b + 1 .. n : ZeroAtPivots(S[x], column, b)
  PROVE  \A x \in 1..b : u[x] = 0
<1> SUFFICES ASSUME NEW x \in 1..b PROVE u[x] = 0
  OBVIOUS
<1> DEFINE z == x - 1
           d == column[z]
           g == Gram(S, n, Axis(d))
<1>1. z \in 0 .. b - 1 /\ x \in 1..n /\ x \in Coordinates /\ x \in 0..Dimension
  BY DimensionAssumption DEF Coordinates
<1>2. d \in Coordinates /\ N[z][d] # 0 /\ z \in K /\ \A y \in K : y # z => N[y][d] = 0
  <2> HIDE DEF z
  <2> QED BY <1>1 DEF Pivotal
<1>3. Axis(d) \in IntRow /\ \A p \in IntRow : InnerProduct(p, Axis(d)) = p[d]
  <2> HIDE DEF d
  <2> QED BY <1>2, AxisProduct
<1> HIDE DEF d
<1>4. /\ g \in IntRow
      /\ \A y \in 1..n : g[y] = S[y][d]
      /\ \A y \in Coordinates : y \notin 1..n => g[y] = 0
  BY <1>3, GramRow
<1> HIDE DEF g
<1>5. ASSUME NEW y \in 1..n, y # x PROVE S[y][d] = 0
  <2>1. CASE y \in 1..b
    <3>1. y - 1 \in 0 .. b - 1 /\ y - 1 # z
      BY <1>5, <2>1
    <3>2. y - 1 \in K
      <4> DEFINE q == y - 1
      <4>1. q \in 0 .. b - 1
        BY <3>1
      <4> HIDE DEF q
      <4>2. q \in K
        BY <4>1 DEF Pivotal
      <4> QED BY <4>2 DEF q
    <3> QED BY <1>2, <2>1, <3>1, <3>2
  <2>2. CASE y \notin 1..b
    <3>1. y \in b + 1 .. n
      BY <2>2
    <3>2. ZeroAtPivots(S[y], column, b)
      BY <3>1
    <3> HIDE DEF z
    <3> QED BY <1>1, <3>2 DEF ZeroAtPivots, d
  <2> QED BY <2>1, <2>2
<1>6. \A y \in Coordinates : y = x \/ g[y] = 0 \/ u[y] = 0
  BY <1>4, <1>5
<1>7. InnerProduct(g, u) = g[x] * u[x]
  BY <1>1, <1>4, <1>6, SingleProduct
<1>8. InnerProduct(g, u) = 0
  BY <1>3 DEF g
<1>9. g[x] = N[z][d] /\ g[x] \in Int /\ u[x] \in Int
  BY <1>1, <1>4 DEF IntRow
<1> HIDE DEF z
<1> QED BY <1>2, <1>7, <1>8, <1>9

\* Equalities and lines with pivots, of which the equalities leave the last
\* coordinate free, are together fewer than the coordinates.
LEMMA RankSum ==
  ASSUME NEW rank \in Nat, NEW M, NEW column, NEW K, Pivotal(M, column, rank, K), Dimension \in Free(column, rank),
         NEW b \in Nat, NEW N, NEW pivot, NEW I, Pivotal(N, pivot, b, I),
         \A z \in 0 .. b - 1 : N[z][Dimension] = 0 /\ \A x \in 0 .. rank - 1 : InnerProduct(N[z], M[x]) = 0
  PROVE  rank + b <= Dimension - 1
<1> SUFFICES ASSUME rank + b > Dimension - 1 PROVE FALSE
  BY DimensionAssumption
<1> DEFINE J == Free(column, rank) \ {Dimension}
           a == [c \in J |-> Axis(c)]
           F == {a[c] : c \in J}
           S == [x \in 1..b |-> N[x - 1]]
<1>1. /\ IsFiniteSet(Free(column, rank)) /\ Cardinality(Free(column, rank)) = Dimension - rank
      /\ Free(column, rank) \subseteq Coordinates
  BY FreeSize
<1>2. IsFiniteSet(J) /\ Cardinality(J) = Dimension - rank - 1 /\ Cardinality(J) \in Nat
  BY <1>1, FS_RemoveElement, FS_CardinalityType
<1>3. b \in 1..Dimension
  <2>1. IsFiniteSet(Free(pivot, b)) /\ Cardinality(Free(pivot, b)) = Dimension - b
    BY FreeSize
  <2>2. Dimension - b \in Nat
    BY <2>1, FS_CardinalityType
  <2> QED BY <1>2, <2>2, DimensionAssumption
<1>4. \A c \in J : a[c] = Axis(c) /\ c \in Coordinates /\ Axis(c) \in IntRow /\ c # Dimension
  BY <1>1, AxisAt
<1>5. \A c \in Free(column, rank) : c = Dimension \/ c \in J
  OBVIOUS
<1>6. IsFiniteSet(F) /\ Cardinality(F) <= Cardinality(J) /\ F \subseteq IntRow
  <2>1. DOMAIN a = J
    OBVIOUS
  <2>2. F \subseteq IntRow
    BY <1>4
  <2> HIDE DEF a, J
  <2> QED BY <1>2, <2>1, <2>2, ImageSize
<1>7. \A x \in 1..b : S[x] = N[x - 1] /\ S[x] \in IntRow /\ x - 1 \in 0 .. b - 1
  <2> SUFFICES ASSUME NEW x \in 1..b PROVE S[x] = N[x - 1] /\ S[x] \in IntRow /\ x - 1 \in 0 .. b - 1
    OBVIOUS
  <2> DEFINE z == x - 1
  <2>1. z \in 0 .. b - 1
    OBVIOUS
  <2>2. N[z] \in IntRow
    <3> HIDE DEF z
    <3> QED BY <2>1 DEF Pivotal
  <2> QED BY <2>1, <2>2
<1> HIDE DEF S
<1>8. Cardinality(F) < b
  <2>1. Cardinality(F) \in Nat
    BY <1>6, FS_CardinalityType
  <2> QED BY <1>2, <1>6, <2>1, DimensionAssumption
<1>9. \A c \in J : a[c] \in F
  OBVIOUS
<1> HIDE DEF F, a, J
<1>10. PICK u \in IntRow, y \in IntRow :
         /\ Combines(y, u, S, b) /\ \A f \in F : InnerProduct(y, f) = 0
         /\ \E x \in 1..b : u[x] # 0
  <2>1. \E u \in IntRow : \E y :
          /\ Combines(y, u, S, b) /\ \A f \in F : InnerProduct(y, f) = 0
          /\ \E x \in 1..b : u[x] # 0
          /\ \A x \in Coordinates : x \notin 1..b => u[x] = 0
    BY <1>3, <1>6, <1>7, <1>8, Dependent
  <2> QED BY <2>1 DEF Combines
<1>11. b \in 0..Dimension
  BY <1>3
<1>12. \A x \in 0 .. rank - 1 : InnerProduct(y, M[x]) = 0
  <2> SUFFICES ASSUME NEW x \in 0 .. rank - 1 PROVE InnerProduct(y, M[x]) = 0
    OBVIOUS
  <2>1. M[x] \in IntRow
    BY DEF Pivotal
  <2>2. \A z \in 1..b : InnerProduct(S[z], M[x]) = 0
    BY <1>7
  <2> QED BY <1>7, <1>10, <1>11, <2>1, <2>2, CombinedZero
<1>13. Dimension \in Coordinates /\ Axis(Dimension) \in IntRow
  <2>1. Dimension \in Coordinates
    BY DimensionAssumption DEF Coordinates
  <2> QED BY <2>1, AxisAt
<1>14. y[Dimension] = 0
  <2>1. \A z \in 1..b : InnerProduct(S[z], Axis(Dimension)) = 0
    <3> SUFFICES ASSUME NEW z \in 1..b PROVE InnerProduct(S[z], Axis(Dimension)) = 0
      OBVIOUS
    <3>1. S[z] \in IntRow /\ S[z][Dimension] = 0
      BY <1>7
    <3> QED BY <1>13, <3>1, AxisProduct
  <2>2. InnerProduct(y, Axis(Dimension)) = 0
    BY <1>7, <1>10, <1>11, <1>13, <2>1, CombinedZero
  <2> QED BY <1>13, <2>2, AxisProduct
<1>15. \A c \in Free(column, rank) : y[c] = 0
  <2> SUFFICES ASSUME NEW c \in J PROVE y[c] = 0
    BY <1>5, <1>14
  <2>1. InnerProduct(y, Axis(c)) = 0 /\ c \in Coordinates
    BY <1>4, <1>9, <1>10
  <2> QED BY <2>1, AxisProduct
<1>16. \A c \in Coordinates : y[c] = 0
  BY <1>12, <1>15, FreeZero
<1>17. \A m \in IntRow : InnerProduct(Gram(S, b, m), u) = 0
  BY <1>10, <1>16, DisjointProduct DEF Combines
<1>18. b \in 0..b /\ \A x \in b + 1 .. b : ZeroAtPivots(S[x], pivot, b)
  OBVIOUS
<1>19. \A x \in 1..b : u[x] = 0
  <2>1. \A x \in 1..b : S[x] \in IntRow
    BY <1>7
  <2>2. \A x \in 1..b : S[x] = N[x - 1]
    BY <1>7
  <2> QED BY <1>11, <1>17, <1>18, <2>1, <2>2, PivotsWeighNothing
<1> QED BY <1>10, <1>19

\* The rows of S from b+1 on: of the cone, not lines, and none on the face of another.
Separate(S, b, n, A) ==
  \A x \in b + 1 .. n :
    /\ S[x] \in IntRow
    /\ \A a \in DOMAIN A : InnerProduct(S[x], A[a]) >= 0
    /\ \E a \in DOMAIN A : InnerProduct(S[x], A[a]) # 0
    /\ \A z \in b + 1 .. n : Zeros(S[x], A) \subseteq Zeros(S[z], A) => z = x

\* A combination of them that vanishes.
Vanishing(S, b, n, A, u) ==
  /\ \A a \in DOMAIN A : A[a] \in IntRow /\ InnerProduct(Gram(S, n, A[a]), u) = 0
  /\ \A x \in Coordinates : x \notin b + 1 .. n => u[x] = 0

\* Its terms that are not negative are zero when one sign is left out.
LEMMA TermsVanish ==
  ASSUME NEW n \in 0..Dimension, NEW S, \A x \in 1..n : S[x] \in IntRow, NEW b \in 0..n, NEW A, Separate(S, b, n, A),
         NEW u \in IntRow, Vanishing(S, b, n, A, u), NEW t \in b + 1 .. n,
         \A x \in b + 1 .. n : x # t => u[x] >= 0,
         NEW a \in DOMAIN A, u[t] >= 0 \/ InnerProduct(S[t], A[a]) = 0
  PROVE  \A x \in b + 1 .. n : InnerProduct(S[x], A[a]) * u[x] = 0
<1> DEFINE g == Gram(S, n, A[a])
<1>1. A[a] \in IntRow
  BY DEF Vanishing
<1>2. /\ g \in IntRow
      /\ \A x \in 1..n : g[x] = InnerProduct(S[x], A[a])
      /\ InnerProduct(g, u) = 0
  BY <1>1, GramRow DEF Vanishing
<1> HIDE DEF g
<1>3. ASSUME NEW x \in b + 1 .. n PROVE x \in 1..n /\ x \in Coordinates /\ u[x] \in Int /\ g[x] \in Int
  <2>1. x \in 1..n /\ x \in Coordinates /\ x \in 0..Dimension
    BY <1>3, DimensionAssumption DEF Coordinates
  <2> QED BY <1>2, <2>1 DEF IntRow
<1>4. ASSUME NEW x \in b + 1 .. n PROVE g[x] * u[x] >= 0
  <2>1. g[x] = InnerProduct(S[x], A[a]) /\ g[x] >= 0
    BY <1>2, <1>3 DEF Separate
  <2>2. u[x] >= 0 \/ g[x] = 0
    BY <1>2, <1>3
  <2>3. g[x] \in Int /\ u[x] \in Int
    BY <1>3
  <2> QED BY <2>1, <2>2, <2>3
<1>5. \A c \in Coordinates : g[c] * u[c] >= 0
  <2> SUFFICES ASSUME NEW c \in Coordinates PROVE g[c] * u[c] >= 0
    OBVIOUS
  <2>1. CASE c \in b + 1 .. n
    BY <1>4, <2>1
  <2>2. CASE c \notin b + 1 .. n
    <3>1. u[c] = 0
      BY <2>2 DEF Vanishing
    <3>2. c \in 0..Dimension
      BY DimensionAssumption DEF Coordinates
    <3>3. g[c] \in Int
      BY <1>2, <3>2 DEF IntRow
    <3> QED BY <3>1, <3>3
  <2> QED BY <2>1, <2>2
<1>6. \A c \in Coordinates : g[c] * u[c] = 0
  BY <1>2, <1>5, NonNegativeProduct
<1> QED BY <1>2, <1>3, <1>6

\* No such combination has a single weight of one of the signs.
LEMMA OneException ==
  ASSUME NEW n \in 0..Dimension, NEW S, \A x \in 1..n : S[x] \in IntRow, NEW b \in 0..n, NEW A, Separate(S, b, n, A),
         NEW u \in IntRow, Vanishing(S, b, n, A, u), NEW t \in b + 1 .. n,
         \A x \in b + 1 .. n : x # t => u[x] >= 0,
         u[t] >= 0 \/ \E x \in b + 1 .. n : x # t /\ u[x] # 0,
         NEW z \in b + 1 .. n, u[z] # 0
  PROVE  FALSE
<1>1. ASSUME NEW x \in b + 1 .. n PROVE u[x] \in Int /\ \A a \in DOMAIN A : InnerProduct(S[x], A[a]) \in Int
  <2>1. x \in 0..Dimension /\ S[x] \in IntRow
    BY <1>1, DimensionAssumption DEF Separate
  <2> QED BY <2>1, InnerProductInt DEF Vanishing, IntRow
<1>2. CASE u[t] >= 0
  <2>1. PICK a \in DOMAIN A : InnerProduct(S[z], A[a]) # 0
    BY DEF Separate
  <2>2. InnerProduct(S[z], A[a]) * u[z] = 0
    BY <1>2, TermsVanish
  <2> QED BY <1>1, <2>1, <2>2
<1>3. CASE \E x \in b + 1 .. n : x # t /\ u[x] # 0
  <2>1. PICK x \in b + 1 .. n : x # t /\ u[x] # 0
    BY <1>3
  <2>2. ASSUME NEW a \in Zeros(S[t], A) PROVE a \in Zeros(S[x], A)
    <3>1. a \in DOMAIN A /\ InnerProduct(S[t], A[a]) = 0
      BY DEF Zeros
    <3>2. InnerProduct(S[x], A[a]) * u[x] = 0
      BY <3>1, TermsVanish
    <3>3. InnerProduct(S[x], A[a]) = 0
      BY <1>1, <2>1, <3>1, <3>2
    <3> QED BY <3>1, <3>3 DEF Zeros
  <2> QED BY <2>1, <2>2 DEF Separate
<1> QED BY <1>2, <1>3

\* Nor does one of three of them or fewer, whatever its signs.
LEMMA ThreeSeparate ==
  ASSUME NEW n \in 0..Dimension, NEW S, \A x \in 1..n : S[x] \in IntRow, NEW b \in 0..n, n <= b + 3,
         NEW A, Separate(S, b, n, A),
         NEW u \in IntRow, Vanishing(S, b, n, A, u)
  PROVE  \A z \in b + 1 .. n : u[z] = 0
<1> SUFFICES ASSUME NEW z \in b + 1 .. n, u[z] # 0 PROVE FALSE
  OBVIOUS
<1> DEFINE v == Reversed(u)
<1>1. v \in IntRow /\ \A x \in b + 1 .. n : v[x] = -u[x] /\ u[x] \in Int
  <2>1. -1 \in Int /\ 0 \in Int
    OBVIOUS
  <2>2. v \in IntRow /\ \A c \in Coordinates : v[c] = (-1) * u[c] + 0 * u[c]
    BY <2>1, MixRow DEF Reversed
  <2>3. \A x \in b + 1 .. n : x \in Coordinates /\ x \in 0..Dimension
    BY DimensionAssumption DEF Coordinates
  <2>4. \A x \in b + 1 .. n : u[x] \in Int
    BY <2>3 DEF IntRow
  <2> HIDE DEF v
  <2> QED BY <2>2, <2>3, <2>4
<1>2. Vanishing(S, b, n, A, v)
  <2>1. ASSUME NEW a \in DOMAIN A PROVE A[a] \in IntRow /\ InnerProduct(Gram(S, n, A[a]), v) = 0
    <3>1. A[a] \in IntRow /\ InnerProduct(Gram(S, n, A[a]), u) = 0
      BY DEF Vanishing
    <3>2. Gram(S, n, A[a]) \in IntRow
      BY <3>1, GramRow
    <3>3. InnerProduct(u, Gram(S, n, A[a])) = 0
      BY <3>1, <3>2, InnerProductSymmetric
    <3>4. InnerProduct(v, Gram(S, n, A[a])) = 0
      BY <3>2, <3>3, ReversedZero
    <3> QED BY <1>1, <3>1, <3>2, <3>4, InnerProductSymmetric
  <2>2. \A x \in Coordinates : x \notin b + 1 .. n => v[x] = 0
    <3>1. -1 \in Int /\ 0 \in Int
      OBVIOUS
    <3>2. \A c \in Coordinates : v[c] = (-1) * u[c] + 0 * u[c]
      BY <3>1, MixRow DEF Reversed
    <3> QED BY <3>2 DEF Vanishing
  <2> QED BY <2>1, <2>2 DEF Vanishing
<1> HIDE DEF v
<1>3. PICK t \in b + 1 .. n, w \in {u, v} :
        /\ \A x \in b + 1 .. n : x # t => w[x] >= 0
        /\ w[t] >= 0 \/ \E x \in b + 1 .. n : x # t /\ w[x] # 0
  <2>1. \A x \in b + 1 .. n : x \in {b + 1, b + 2, b + 3}
    OBVIOUS
  <2>2. CASE \A x \in b + 1 .. n : u[x] >= 0
    BY <2>2
  <2>3. CASE \A x \in b + 1 .. n : u[x] <= 0
    <3>1. \A x \in b + 1 .. n : v[x] >= 0
      BY <1>1, <2>3
    <3> QED BY <3>1
  <2>4. CASE \E x \in b + 1 .. n, y \in b + 1 .. n : u[x] < 0 /\ u[y] > 0
    <3>1. PICK x \in b + 1 .. n, y \in b + 1 .. n : u[x] < 0 /\ u[y] > 0
      BY <2>4
    <3>2. CASE \A i \in b + 1 .. n : i # x => u[i] >= 0
      BY <1>1, <3>1, <3>2
    <3>3. CASE \E i \in b + 1 .. n : i # x /\ u[i] < 0
      <4>1. PICK i \in b + 1 .. n : i # x /\ u[i] < 0
        BY <3>3
      <4>2. \A o \in b + 1 .. n : o # y => o = x \/ o = i
        <5>1. x # y /\ i # y
          BY <1>1, <3>1, <4>1
        <5> QED BY <2>1, <4>1, <5>1
      <4>3. \A o \in b + 1 .. n : o # y => v[o] >= 0
        BY <1>1, <3>1, <4>1, <4>2
      <4>4. x # y /\ v[x] # 0
        BY <1>1, <3>1
      <4> QED BY <4>3, <4>4
    <3>4. \A i \in b + 1 .. n : u[i] >= 0 \/ u[i] < 0
      BY <1>1
    <3> QED BY <3>2, <3>3, <3>4
  <2>5. \A x \in b + 1 .. n : u[x] >= 0 \/ u[x] < 0
    BY <1>1
  <2>6. \A x \in b + 1 .. n : u[x] <= 0 \/ u[x] > 0
    BY <1>1
  <2> QED BY <2>2, <2>3, <2>4, <2>5, <2>6
<1>4. w \in IntRow /\ Vanishing(S, b, n, A, w) /\ w[z] # 0
  <2>1. v[z] # 0
    BY <1>1
  <2> QED BY <1>1, <1>2, <1>3, <2>1
<1> QED BY <1>3, <1>4, OneException

\* Rows that satisfy the equations of M and end with zero.
AtInfinityRows(S, n, M, rank) ==
  \A x \in 1..n : /\ S[x] \in IntRow /\ S[x][Dimension] = 0
                  /\ \A y \in 0 .. rank - 1 : InnerProduct(S[x], M[y]) = 0
\* The first b of them are those of N.
Begins(S, b, n, N, pivot) ==
  /\ \A x \in 1..b : S[x] = N[x - 1]
  /\ \A x \in b + 1 .. n : ZeroAtPivots(S[x], pivot, b)

\* Both, none below another in the products with A.
Crowd(S, b, n, N, pivot, M, rank, A) ==
  AtInfinityRows(S, n, M, rank) /\ Begins(S, b, n, N, pivot) /\ IsFamily(A) /\ Separate(S, b, n, A)
\* A row that is not only the last coordinate, with all of them on it.
Facing(w, S, n, column, rank) ==
  /\ ZeroAtPivots(w, column, rank)
  /\ \A x \in 1..n : InnerProduct(S[x], w) = 0
  /\ \E t \in Coordinates : t # Dimension /\ w[t] # 0

\* The lines and at most three rays, as many as the space at infinity that the
\* equalities leave has dimensions, saturate nothing but what ends it.
LEMMA CrowdedFace ==
  ASSUME NEW rank \in Nat, NEW M, NEW column, NEW K, Pivotal(M, column, rank, K), Dimension \in Free(column, rank),
         NEW b \in Nat, NEW N, NEW pivot, NEW I, Pivotal(N, pivot, b, I),
         NEW n \in Nat, n = Dimension - 1 - rank, b <= n, n <= b + 3,
         NEW S, NEW A, Crowd(S, b, n, N, pivot, M, rank, A), NEW w, Facing(w, S, n, column, rank)
  PROVE  FALSE
<1> AtInfinityRows(S, n, M, rank) /\ Begins(S, b, n, N, pivot) /\ IsFamily(A) /\ Separate(S, b, n, A)
  BY DEF Crowd
<1> ZeroAtPivots(w, column, rank) /\ \A x \in 1..n : InnerProduct(S[x], w) = 0
  BY DEF Facing
<1> PICK t \in Coordinates : t # Dimension /\ w[t] # 0
  BY DEF Facing
<1> DEFINE J == (Free(column, rank) \ {Dimension}) \ {t}
           a == [c \in J |-> Axis(c)]
           F == {a[c] : c \in J}
<1>1. /\ IsFiniteSet(Free(column, rank)) /\ Cardinality(Free(column, rank)) = Dimension - rank
      /\ Free(column, rank) \subseteq Coordinates
  BY FreeSize
<1>2. t \in Free(column, rank) /\ t \in Free(column, rank) \ {Dimension}
  BY DEF Free, ZeroAtPivots
<1>3. IsFiniteSet(J) /\ Cardinality(J) = Dimension - rank - 2 /\ Cardinality(J) \in Nat
  <2>1. IsFiniteSet(Free(column, rank) \ {Dimension}) /\ Cardinality(Free(column, rank) \ {Dimension}) = Dimension - rank - 1
    BY <1>1, FS_RemoveElement
  <2>2. IsFiniteSet(J) /\ Cardinality(J) = Dimension - rank - 1 - 1
    BY <1>2, <2>1, FS_RemoveElement
  <2> QED BY <2>2, FS_CardinalityType, DimensionAssumption
<1>4. n \in 1..Dimension /\ n \in 0..Dimension /\ b \in 0..n
  BY <1>3, DimensionAssumption
<1>5. \A c \in J : a[c] = Axis(c) /\ c \in Coordinates /\ Axis(c) \in IntRow
  BY <1>1, AxisAt
<1>6. \A c \in Free(column, rank) : c = Dimension \/ c = t \/ c \in J
  OBVIOUS
<1>7. IsFiniteSet(F) /\ Cardinality(F) <= Cardinality(J) /\ F \subseteq IntRow
  <2>1. DOMAIN a = J
    OBVIOUS
  <2>2. F \subseteq IntRow
    BY <1>5
  <2> HIDE DEF a, J
  <2> QED BY <1>3, <2>1, <2>2, ImageSize
<1>8. \A x \in 1..n : S[x] \in IntRow
  BY DEF AtInfinityRows
<1>9. Cardinality(F) < n
  <2>1. Cardinality(F) \in Nat
    BY <1>7, FS_CardinalityType
  <2> QED BY <1>3, <1>7, <2>1, DimensionAssumption
<1>10. \A c \in J : a[c] \in F
  OBVIOUS
<1> HIDE DEF F, a, J
<1>11. PICK u \in IntRow, y \in IntRow :
         /\ Combines(y, u, S, n) /\ \A f \in F : InnerProduct(y, f) = 0
         /\ \E x \in 1..n : u[x] # 0
         /\ \A x \in Coordinates : x \notin 1..n => u[x] = 0
  <2>1. \E u \in IntRow : \E y :
          /\ Combines(y, u, S, n) /\ \A f \in F : InnerProduct(y, f) = 0
          /\ \E x \in 1..n : u[x] # 0
          /\ \A x \in Coordinates : x \notin 1..n => u[x] = 0
    BY <1>4, <1>7, <1>8, <1>9, Dependent
  <2> QED BY <2>1 DEF Combines
<1>12. \A x \in 0 .. rank - 1 : InnerProduct(y, M[x]) = 0
  <2> SUFFICES ASSUME NEW x \in 0 .. rank - 1 PROVE InnerProduct(y, M[x]) = 0
    OBVIOUS
  <2>1. M[x] \in IntRow
    BY DEF Pivotal
  <2>2. \A z \in 1..n : InnerProduct(S[z], M[x]) = 0
    BY DEF AtInfinityRows
  <2> QED BY <1>4, <1>8, <1>11, <2>1, <2>2, CombinedZero
<1>13. Dimension \in Coordinates /\ Axis(Dimension) \in IntRow
  <2>1. Dimension \in Coordinates
    BY DimensionAssumption DEF Coordinates
  <2> QED BY <2>1, AxisAt
<1>14. y[Dimension] = 0
  <2>1. \A z \in 1..n : InnerProduct(S[z], Axis(Dimension)) = 0
    <3> SUFFICES ASSUME NEW z \in 1..n PROVE InnerProduct(S[z], Axis(Dimension)) = 0
      OBVIOUS
    <3>1. S[z] \in IntRow /\ S[z][Dimension] = 0
      BY DEF AtInfinityRows
    <3> QED BY <1>13, <3>1, AxisProduct
  <2>2. InnerProduct(y, Axis(Dimension)) = 0
    BY <1>4, <1>8, <1>11, <1>13, <2>1, CombinedZero
  <2> QED BY <1>13, <2>2, AxisProduct
<1>15. \A c \in Free(column, rank) : c # t => y[c] = 0
  <2> SUFFICES ASSUME NEW c \in J PROVE y[c] = 0
    BY <1>6, <1>14
  <2>1. InnerProduct(y, Axis(c)) = 0 /\ c \in Coordinates
    BY <1>5, <1>10, <1>11
  <2> QED BY <2>1, AxisProduct
<1>16. y[t] = 0
  <2>1. InnerProduct(y, w) = y[t] * w[t] /\ y[t] \in Int /\ w[t] \in Int
    BY <1>2, <1>15, FreeProduct
  <2>2. w \in IntRow
    BY DEF ZeroAtPivots
  <2>3. InnerProduct(y, w) = 0
    BY <1>4, <1>8, <1>11, <2>2, CombinedZero
  <2> QED BY <2>1, <2>3
<1>17. \A c \in Coordinates : y[c] = 0
  <2>1. \A c \in Free(column, rank) : y[c] = 0
    BY <1>15, <1>16
  <2> QED BY <1>12, <2>1, FreeZero
<1>18. \A m \in IntRow : InnerProduct(Gram(S, n, m), u) = 0
  <2> SUFFICES ASSUME NEW m \in IntRow PROVE InnerProduct(Gram(S, n, m), u) = 0
    OBVIOUS
  <2>1. InnerProduct(y, m) = 0
    BY <1>17, DisjointProduct
  <2> QED BY <1>11, <2>1 DEF Combines
<1>19. \A x \in 1..b : u[x] = 0
  <2>1. \A x \in 1..b : S[x] = N[x - 1]
    BY DEF Begins
  <2>2. \A x \in b + 1 .. n : ZeroAtPivots(S[x], pivot, b)
    BY DEF Begins
  <2> QED BY <1>4, <1>8, <1>18, <2>1, <2>2, PivotsWeighNothing
<1>20. Vanishing(S, b, n, A, u)
  <2>1. \A x \in Coordinates : x \notin b + 1 .. n => u[x] = 0
    <3> SUFFICES ASSUME NEW x \in Coordinates, x \notin b + 1 .. n PROVE u[x] = 0
      OBVIOUS
    <3>1. x \notin 1..n \/ x \in 1..b
      BY <1>4 DEF Coordinates
    <3> QED BY <1>11, <1>19, <3>1
  <2> QED BY <1>18, <2>1 DEF Vanishing, IsFamily
<1>21. \A z \in b + 1 .. n : u[z] = 0
  BY <1>4, <1>8, <1>11, <1>20, ThreeSeparate
<1>22. \A z \in 1..n : z \in 1..b \/ z \in b + 1 .. n
  BY <1>4
<1> QED BY <1>11, <1>19, <1>21, <1>22
=============================================================================
