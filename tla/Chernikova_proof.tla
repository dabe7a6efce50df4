-------------------------- MODULE Chernikova_proof --------------------------
(***************************************************************************)
(* The inductive invariants of Chernikova and, for each of its steps, the  *)
(* proof that the step keeps them, for every Dimension, every matrix, any  *)
(* number of rays and any word size.  The first half is about the rows the *)
(* function has: their types, that they satisfy the constraints, and that  *)
(* the bits are exact.  The second half is about the rows it might miss:   *)
(* they describe the whole cone, without a redundant one.  The modules     *)
(* that run Chernikova prove the invariants of their initial states and    *)
(* use them from there.                                                    *)
(***************************************************************************)
EXTENDS Chernikova, Geometry_proof

-----------------------------------------------------------------------------

\* The bit of constraint c in a saturation row.
BitAt(c) == <<c \div WSIZE, c % WSIZE>>

\* r is in the cone of the constraints K of M, and in its lineality space; d is
\* dual, which leaves the positivity constraint out.
InCone(r, M, K, d) ==
  /\ \A c \in K : Verifies(r, M[c])
  /\ d \/ r[Dimension] >= 0

InLineality(r, M, K, d) ==
  /\ \A c \in K : InnerProduct(r, M[c]) = 0
  /\ d \/ r[Dimension] = 0

\* The constraints r does not saturate, and the bits of a set of constraints.
Unsaturated(r, M, K) == {c \in K : InnerProduct(r, M[c]) # 0}
BitsOf(C) == {BitAt(c) : c \in C}

\* The constraints K of M are rows.
HasRows(M, K) == \A c \in K : M[c] \in IntRow

-----------------------------------------------------------------------------

\* A combination of two lines saturates what both saturate.
LEMMA LinesCombined ==
  ASSUME NEW M, NEW K, HasRows(M, K), NEW d \in BOOLEAN,
         NEW p1 \in IntRow, NEW p2 \in IntRow, NEW p3 \in IntRow, p2[0] # 0,
         InLineality(p1, M, K, d), InLineality(p2, M, K, d)
  PROVE  InLineality(Combine(p1, p2, p3, 0), M, K, d)
<1> DEFINE r == Combine(p1, p2, p3, 0)
<1>1. r \in IntRow
  BY CombineWeighs
<1>2. PICK g \in Nat \ {0}, a1 \in Int, a2 \in Int : Weighs(r, p1, p2, g, a1, a2)
  BY CombineWeighs
<1> HIDE DEF r
<1>3. ASSUME NEW c \in K PROVE InnerProduct(r, M[c]) = 0
  <2>1. M[c] \in IntRow
    BY DEF HasRows
  <2>2. /\ InnerProduct(r, M[c]) \in Int /\ InnerProduct(p1, M[c]) \in Int
        /\ InnerProduct(p2, M[c]) \in Int
    BY <1>1, <2>1, InnerProductInt
  <2>3. Weighted(InnerProduct(r, M[c]), InnerProduct(p1, M[c]), InnerProduct(p2, M[c]), g, a1, a2)
    <3>1. PICK m \in IntRow : m = M[c]
      BY <2>1
    <3>2. Weighted(InnerProduct(r, m), InnerProduct(p1, m), InnerProduct(p2, m), g, a1, a2)
      BY <1>1, <1>2, WeightedProduct
    <3> QED BY <3>1, <3>2
  <2> QED BY <2>2, <2>3, WeightedZero DEF InLineality
<1>4. d \/ r[Dimension] = 0
  <2>1. r[Dimension] \in Int /\ p1[Dimension] \in Int /\ p2[Dimension] \in Int
    BY <1>1, LastInt
  <2>2. Weighted(r[Dimension], p1[Dimension], p2[Dimension], g, a1, a2)
    BY <1>2, WeightedLast
  <2> QED BY <2>1, <2>2, WeightedZero DEF InLineality
<1> QED BY <1>3, <1>4 DEF InLineality, r

(***************************************************************************)
(* The combination of a row on the negative side (or of any ray with a     *)
(* line) and one on the positive side: both are weighed positively, so it  *)
(* is in the cone, and it saturates exactly the constraints that both      *)
(* saturate.  For that the inner products must have the same sign: the     *)
(* union of the bits is right only for rows that verify the constraints.   *)
(***************************************************************************)
LEMMA RaysCombined ==
  ASSUME NEW M, NEW K, HasRows(M, K), NEW d \in BOOLEAN,
         NEW p1 \in IntRow, NEW p2 \in IntRow, NEW p3 \in IntRow, p2[0] > 0,
         InCone(p1, M, K, d),
         InLineality(p2, M, K, d) \/ (p1[0] < 0 /\ InCone(p2, M, K, d))
  PROVE  /\ InCone(Combine(p1, p2, p3, 0), M, K, d)
         /\ Unsaturated(Combine(p1, p2, p3, 0), M, K) = Unsaturated(p1, M, K) \cup Unsaturated(p2, M, K)
         /\ d \/ (AtInfinity(Combine(p1, p2, p3, 0)) <=> AtInfinity(p1) /\ AtInfinity(p2))
<1> DEFINE r == Combine(p1, p2, p3, 0)
<1>0. p2[0] # 0 /\ p1[0] \in Int /\ p2[0] \in Int
  BY LastInt
<1>1. r \in IntRow
  BY <1>0, CombineWeighs
<1>2. PICK g \in Nat \ {0}, a1 \in Int, a2 \in Int :
        Weighs(r, p1, p2, g, a1, a2) /\ a2 > 0 /\ (p1[0] < 0 => a1 > 0)
  BY <1>0, CombineWeighs
<1> HIDE DEF r
<1>3. ASSUME NEW c \in K
      PROVE  /\ Verifies(r, M[c])
             /\ InnerProduct(r, M[c]) = 0 <=> InnerProduct(p1, M[c]) = 0 /\ InnerProduct(p2, M[c]) = 0
  <2>1. M[c] \in IntRow
    BY DEF HasRows
  <2>2. /\ InnerProduct(r, M[c]) \in Int /\ InnerProduct(p1, M[c]) \in Int
        /\ InnerProduct(p2, M[c]) \in Int
    BY <1>1, <2>1, InnerProductInt
  <2>3. Weighted(InnerProduct(r, M[c]), InnerProduct(p1, M[c]), InnerProduct(p2, M[c]), g, a1, a2)
    <3>1. PICK m \in IntRow : m = M[c]
      BY <2>1
    <3>2. Weighted(InnerProduct(r, m), InnerProduct(p1, m), InnerProduct(p2, m), g, a1, a2)
      BY <1>1, <1>2, WeightedProduct
    <3> QED BY <3>1, <3>2
  <2>4. InnerProduct(p1, M[c]) >= 0 /\ (M[c][0] = 0 => InnerProduct(p1, M[c]) = 0)
    BY <2>2 DEF InCone, Verifies
  <2>5. \/ InnerProduct(p2, M[c]) = 0
        \/ /\ a1 > 0
           /\ InnerProduct(p2, M[c]) >= 0 /\ (M[c][0] = 0 => InnerProduct(p2, M[c]) = 0)
    BY <1>2, <2>2 DEF InCone, InLineality, Verifies
  <2>6. /\ InnerProduct(r, M[c]) >= 0
        /\ InnerProduct(r, M[c]) = 0 <=> InnerProduct(p1, M[c]) = 0 /\ InnerProduct(p2, M[c]) = 0
    <3> DEFINE y == InnerProduct(r, M[c])
               x1 == InnerProduct(p1, M[c])
               x2 == InnerProduct(p2, M[c])
    <3>1. y \in Int /\ x1 \in Int /\ x2 \in Int /\ Weighted(y, x1, x2, g, a1, a2) /\ x1 >= 0
      BY <2>2, <2>3, <2>4
    <3>2. (a1 > 0 /\ x2 >= 0) \/ x2 = 0
      BY <2>5
    <3> HIDE DEF y, x1, x2
    <3>3. y >= 0 /\ (y = 0 <=> x1 = 0 /\ x2 = 0)
      BY <1>2, <3>1, <3>2, WeightedSum
    <3> QED BY <3>3 DEF y, x1, x2
  <2> QED BY <2>4, <2>5, <2>6 DEF Verifies
<1>4. d \/ (r[Dimension] >= 0 /\ (r[Dimension] = 0 <=> p1[Dimension] = 0 /\ p2[Dimension] = 0))
  <2>1. r[Dimension] \in Int /\ p1[Dimension] \in Int /\ p2[Dimension] \in Int
    BY <1>1, LastInt
  <2>2. Weighted(r[Dimension], p1[Dimension], p2[Dimension], g, a1, a2)
    BY <1>2, WeightedLast
  <2>3. d \/ (p1[Dimension] >= 0 /\ (p2[Dimension] = 0 \/ (a1 > 0 /\ p2[Dimension] >= 0)))
    BY <1>2 DEF InCone, InLineality
  <2> QED BY <1>2, <2>1, <2>2, <2>3, WeightedSum
<1>5. InCone(r, M, K, d)
  BY <1>3, <1>4 DEF InCone
<1>6. Unsaturated(r, M, K) = Unsaturated(p1, M, K) \cup Unsaturated(p2, M, K)
  BY <1>3 DEF Unsaturated
<1>7. d \/ (AtInfinity(r) <=> AtInfinity(p1) /\ AtInfinity(p2))
  BY <1>4 DEF AtInfinity
<1> QED BY <1>5, <1>6, <1>7 DEF r

\* When the status words are the inner products with m, the combination
\* saturates m.
LEMMA CombinedOnHyperplane ==
  ASSUME NEW p1 \in IntRow, NEW p2 \in IntRow, NEW p3 \in IntRow, NEW m \in IntRow, p2[0] # 0,
         p1[0] = InnerProduct(p1, m), p2[0] = InnerProduct(p2, m)
  PROVE  InnerProduct(Combine(p1, p2, p3, 0), m) = 0
<1> DEFINE r == Combine(p1, p2, p3, 0)
<1>1. r \in IntRow
  BY CombineWeighs
<1>2. PICK g \in Nat \ {0}, a1 \in Int, a2 \in Int :
        Weighs(r, p1, p2, g, a1, a2) /\ Balances(p1, p2, 0, a1, a2)
  BY CombineWeighs
<1> HIDE DEF r
<1>3. InnerProduct(r, m) \in Int
  BY <1>1, InnerProductInt
<1>4. Weighted(InnerProduct(r, m), p1[0], p2[0], g, a1, a2)
  BY <1>1, <1>2, WeightedProduct
<1>5. g * InnerProduct(r, m) = 0
  BY <1>2, <1>4 DEF Weighted, Balances
<1>6. InnerProduct(r, m) = 0
  BY <1>3, <1>5, NoZeroDivisor
<1> QED BY <1>6 DEF r

\* What is orthogonal to a combination and to its second row is orthogonal to
\* the first: a line can be recovered.
LEMMA LineRecovered ==
  ASSUME NEW p1 \in IntRow, NEW p2 \in IntRow, NEW p3 \in IntRow, p2[0] # 0, NEW u \in IntRow,
         InnerProduct(u, Combine(p1, p2, p3, 0)) = 0, InnerProduct(u, p2) = 0
  PROVE  InnerProduct(u, p1) = 0
<1> DEFINE r == Combine(p1, p2, p3, 0)
<1>1. r \in IntRow
  BY CombineWeighs
<1>2. PICK g \in Nat \ {0}, a1 \in Int, a2 \in Int :
        Weighs(r, p1, p2, g, a1, a2) /\ (p2[0] > 0 => a2 > 0) /\ (p2[0] < 0 => a2 < 0)
  BY CombineWeighs
<1>3. InnerProduct(r, u) = 0 /\ InnerProduct(p2, u) = 0 /\ InnerProduct(p1, u) = InnerProduct(u, p1)
  BY <1>1, InnerProductSymmetric
<1>4. a2 # 0
  BY <1>2, LastInt
<1> HIDE DEF r
<1>5. Weighted(InnerProduct(r, u), InnerProduct(p1, u), InnerProduct(p2, u), g, a1, a2)
  BY <1>1, <1>2, WeightedProduct
<1>6. PICK x \in Int : x = InnerProduct(p1, u)
  BY InnerProductInt
<1>7. a2 * x = 0
  <2>1. g * 0 = a2 * x + a1 * 0
    BY <1>3, <1>5, <1>6 DEF Weighted
  <2> QED BY <2>1
<1>8. x = 0
  BY <1>4, <1>7
<1> QED BY <1>3, <1>6, <1>8
-----------------------------------------------------------------------------

\* The types, the bit of constraint k, and the space allocated.
ChernikovaTyped ==
  /\ pc \in {"head", "line", "sort", "pairs"}
  /\ dual \in BOOLEAN
  /\ NbConstraints \in Nat /\ Mat \in [0 .. NbConstraints - 1 -> IntRow]
  /\ k \in 0..NbConstraints
  /\ pc # "head" => k < NbConstraints
  /\ jx \in Nat /\ bx \in 0 .. WSIZE - 1 /\ k = jx * WSIZE + bx
  /\ NbRay \in Nat /\ NbBid \in 0..NbRay
  /\ Ray \in [0 .. NbRay - 1 -> IntRow]
  /\ DOMAIN Sat = 0 .. NbRay - 1
  /\ NbMaxRays \in Nat /\ NbRay <= NbMaxRays
  /\ equal_bound \in Int /\ sup_bound \in Int /\ inf_bound \in Int
  /\ i \in Int /\ j \in Int /\ bound \in Int

\* The constraints processed before k.
Before == 0 .. k - 1

\* Lines saturate them, rays verify them, at every step and not only between
\* two constraints.
Verified ==
  /\ \A x \in 0 .. NbBid - 1 : InLineality(Ray[x], Mat, Before, dual)
  /\ \A x \in NbBid .. NbRay - 1 : InCone(Ray[x], Mat, Before, dual)

\* From the evaluation to the end of the turn the status words are the inner
\* products with constraint k; Vector_Normalize and the copies keep them.
StatusExact == pc # "head" => \A x \in 0 .. NbRay - 1 : Ray[x][0] = InnerProduct(Ray[x], Mat[k])

\* The bit of constraint k that the sort has set in row x so far.
Marks(x) ==
  IF Ray[x][0] # 0 /\ (pc = "pairs" \/ (pc = "sort" /\ (x < sup_bound \/ x >= inf_bound)))
  THEN {k} ELSE {}

\* Sat holds the bits of the constraints not saturated, and of k where marked.
BitsExact == \A x \in 0 .. NbRay - 1 : Sat[x] = BitsOf(Unsaturated(Ray[x], Mat, Before) \cup Marks(x))

\* Where the rows of each sign are in each phase: what the sort has done, and
\* what the pairs keep.
InPhase ==
  /\ pc = "line" => \E x \in 0 .. NbBid - 1 : Ray[x][0] # 0
  /\ pc \in {"sort", "pairs"} =>
       /\ NbBid <= equal_bound /\ equal_bound <= sup_bound /\ sup_bound <= inf_bound
       /\ \A x \in 0 .. equal_bound - 1 : Ray[x][0] = 0
       /\ \A x \in equal_bound .. sup_bound - 1 : Ray[x][0] > 0
  /\ pc = "sort" => inf_bound <= NbRay /\ \A x \in inf_bound .. NbRay - 1 : Ray[x][0] < 0
  /\ pc = "pairs" =>
       /\ sup_bound <= bound /\ bound <= NbRay
       /\ equal_bound <= i /\ sup_bound <= j
       /\ \A x \in sup_bound .. bound - 1 : Ray[x][0] < 0
       /\ \A x \in bound .. NbRay - 1 : Ray[x][0] = 0

(***************************************************************************)
(* The inductive invariant.  Its parts hold each other up: the sign of a   *)
(* combination needs the status words and the tiers, the union of the bits *)
(* of two rows is exact only because both verify the constraints, and the  *)
(* bits of k are only known from the phase the function is in.             *)
(***************************************************************************)
ChernikovaInv == ChernikovaTyped /\ Verified /\ StatusExact /\ BitsExact /\ InPhase
-----------------------------------------------------------------------------

\* The word and the bit of a constraint are its quotient and remainder,
LEMMA BitAtIs ==
  ASSUME NEW w \in Nat, NEW b \in 0 .. WSIZE - 1, NEW n \in Int, n = w * WSIZE + b
  PROVE  BitAt(n) = <<w, b>>
<1> DEFINE q == n \div WSIZE
           r == n % WSIZE
<1>1. WSIZE \in Nat \ {0} /\ b \in Int /\ 0 <= b /\ b < WSIZE
  BY WSIZEAssumption
<1>2. n = WSIZE * q + r /\ q \in Int /\ r \in Int
  BY <1>1, Quotient
<1>3. 0 <= r /\ r < WSIZE
  BY <1>1
<1> HIDE DEF q, r
<1>4. WSIZE * (q - w) = b - r
  <2>1. WSIZE * (q - w) = WSIZE * q - WSIZE * w /\ w * WSIZE = WSIZE * w
    BY <1>1, <1>2
  <2>2. WSIZE * q \in Int /\ WSIZE * w \in Int
    BY <1>1, <1>2
  <2> QED BY <1>1, <1>2, <2>1, <2>2
<1>5. \A z \in Int : (z >= 1 => WSIZE * z >= WSIZE) /\ (z <= -1 => WSIZE * z <= -WSIZE)
  BY <1>1
<1>6. q = w
  BY <1>1, <1>2, <1>3, <1>4, <1>5
<1>7. r = b
  BY <1>1, <1>2, <1>4, <1>6
<1> QED BY <1>6, <1>7 DEF BitAt, q, r

\* so that two constraints never share a bit.
LEMMA BitAtInjective ==
  ASSUME NEW c \in Int, NEW e \in Int, BitAt(c) = BitAt(e)
  PROVE  c = e
<1>1. WSIZE \in Nat \ {0}
  BY WSIZEAssumption
<1>2. c = WSIZE * (c \div WSIZE) + (c % WSIZE) /\ e = WSIZE * (e \div WSIZE) + (e % WSIZE)
  BY <1>1, Quotient
<1>3. c \div WSIZE = e \div WSIZE /\ c % WSIZE = e % WSIZE
  BY DEF BitAt
<1> QED BY <1>2, <1>3

\* Setting or clearing the bit of c leaves the others alone.
LEMMA BitsOfLess ==
  ASSUME NEW A, A \subseteq Int, NEW c \in Int, c \notin A
  PROVE  BitsOf(A \cup {c}) \ {BitAt(c)} = BitsOf(A) /\ BitsOf(A) \ {BitAt(c)} = BitsOf(A)
BY BitAtInjective DEF BitsOf

\* SatVector_OR.
LEMMA BitsOfUnion == \A A, B : BitsOf(A) \cup BitsOf(B) = BitsOf(A \cup B)
  BY DEF BitsOf

\* What one more constraint adds to the cone, the lineality space and the bits.
LEMMA OneMore ==
  ASSUME NEW n \in Nat, NEW r, NEW M, NEW d
  PROVE  /\ InCone(r, M, 0..n, d) <=> InCone(r, M, 0 .. n - 1, d) /\ Verifies(r, M[n])
         /\ InLineality(r, M, 0..n, d) <=> InLineality(r, M, 0 .. n - 1, d) /\ InnerProduct(r, M[n]) = 0
         /\ Unsaturated(r, M, 0..n) =
               Unsaturated(r, M, 0 .. n - 1) \cup (IF InnerProduct(r, M[n]) # 0 THEN {n} ELSE {})
<1>1. \A c : c \in 0..n <=> c \in 0 .. n - 1 \/ c = n
  OBVIOUS
<1> QED BY <1>1 DEF InCone, InLineality, Unsaturated

\* The status word takes no part in any of it.
LEMMA StatusIrrelevant ==
  ASSUME NEW p \in IntRow, NEW r \in IntRow, SameCoordinates(p, r),
         NEW M, NEW K, HasRows(M, K), NEW d
  PROVE  /\ InCone(r, M, K, d) <=> InCone(p, M, K, d)
         /\ InLineality(r, M, K, d) <=> InLineality(p, M, K, d)
         /\ Unsaturated(r, M, K) = Unsaturated(p, M, K)
<1>1. \A m \in IntRow : InnerProduct(r, m) = InnerProduct(p, m)
  BY InnerProductSame DEF SameCoordinates
<1>2. \A c \in K : InnerProduct(r, M[c]) = InnerProduct(p, M[c])
  BY <1>1 DEF HasRows
<1>3. r[Dimension] = p[Dimension]
  BY DimensionAssumption DEF SameCoordinates, Coordinates
<1> QED BY <1>2, <1>3 DEF InCone, InLineality, Unsaturated, Verifies

-----------------------------------------------------------------------------

\* What the types give the other lemmas.
LEMMA RowsKnown ==
  ASSUME ChernikovaTyped
  PROVE  /\ HasRows(Mat, Before) /\ Before \subseteq Int /\ k \notin Before /\ k \in Nat
         /\ pc # "head" => Mat[k] \in IntRow
         /\ Bit = BitAt(k)
         /\ \A x \in 0 .. NbRay - 1 : Ray[x] \in IntRow
<1>1. k \in Nat /\ Before \subseteq Int /\ k \notin Before /\ Before \subseteq 0 .. NbConstraints - 1
  BY DEF ChernikovaTyped, Before
<1>2. pc # "head" => k \in 0 .. NbConstraints - 1
  BY <1>1 DEF ChernikovaTyped
<1>3. Bit = BitAt(k)
  BY <1>1, BitAtIs DEF ChernikovaTyped, Bit
<1> QED BY <1>1, <1>2, <1>3 DEF ChernikovaTyped, HasRows

\* The evaluation makes the status words exact and changes nothing else.
LEMMA EvaluateStep ==
  ASSUME ChernikovaInv, Evaluate
  PROVE  ChernikovaInv'
<1> USE DEF Evaluate
<1>0. /\ ChernikovaTyped /\ Verified /\ BitsExact
      /\ UNCHANGED <<Mat, k, dual, Sat, NbBid, NbRay, NbMaxRays, jx, bx, pair>>
  BY DEF ChernikovaInv
<1>1. k \in 0 .. NbConstraints - 1 /\ Mat[k] \in IntRow
  BY <1>0 DEF ChernikovaTyped
<1>2. ASSUME NEW x \in 0 .. NbRay - 1
      PROVE  /\ Ray[x] \in IntRow /\ Ray'[x] \in IntRow /\ SameCoordinates(Ray[x], Ray'[x])
             /\ Ray'[x][0] = InnerProduct(Ray'[x], Mat[k])
  <2>1. Ray[x] \in IntRow /\ Ray'[x] = [Ray[x] EXCEPT ![0] = InnerProduct(Ray[x], Mat[k])]
    BY <1>0 DEF ChernikovaTyped
  <2>2. InnerProduct(Ray[x], Mat[k]) \in Int
    BY <1>1, <2>1, InnerProductInt
  <2>3. Ray'[x] \in IntRow /\ SameCoordinates(Ray[x], Ray'[x]) /\ Ray'[x][0] = InnerProduct(Ray[x], Mat[k])
    BY <2>1, <2>2, DimensionAssumption DEF IntRow, SameCoordinates, Coordinates
  <2>4. InnerProduct(Ray'[x], Mat[k]) = InnerProduct(Ray[x], Mat[k])
    <3>1. Ray[x] \in IntRow /\ Ray'[x] \in IntRow /\ Mat[k] \in IntRow
      BY <1>1, <2>1, <2>3
    <3>2. \A c \in Coordinates : Ray'[x][c] = Ray[x][c]
      BY <2>3 DEF SameCoordinates
    <3> QED BY <3>1, <3>2, InnerProductSame
  <2> QED BY <2>1, <2>3, <2>4
<1>3. ASSUME NEW x \in 0 .. NbRay - 1
      PROVE  /\ InCone(Ray'[x], Mat, Before, dual) <=> InCone(Ray[x], Mat, Before, dual)
             /\ InLineality(Ray'[x], Mat, Before, dual) <=> InLineality(Ray[x], Mat, Before, dual)
             /\ Unsaturated(Ray'[x], Mat, Before) = Unsaturated(Ray[x], Mat, Before)
  BY <1>0, <1>2, RowsKnown, StatusIrrelevant
<1>4. ChernikovaTyped'
  <2>1. Ray' \in [0 .. NbRay - 1 -> IntRow]
    BY <1>2
  <2>2. equal_bound' \in Int /\ sup_bound' \in Int /\ inf_bound' \in Int
    BY <1>0 DEF ChernikovaTyped, StartSort, bounds
  <2>3. pc' \in {"line", "sort"}
    OBVIOUS
  <2> QED BY <1>0, <1>1, <2>1, <2>2, <2>3 DEF ChernikovaTyped, NbConstraints, pair
<1>5. Verified'
  BY <1>0, <1>3 DEF Verified, Before, ChernikovaTyped
<1>6. StatusExact'
  BY <1>0, <1>2 DEF StatusExact
<1>cases. \/ pc' = "line" /\ \E x \in 0 .. NbBid - 1 : Ray'[x][0] # 0
          \/ pc' = "sort" /\ StartSort /\ \A x \in 0 .. NbBid - 1 : Ray'[x][0] = 0
  OBVIOUS
<1>head. pc = "head"
  OBVIOUS
<1> HIDE DEF Evaluate
<1>7. ASSUME NEW x \in 0 .. NbRay - 1 PROVE Marks(x)' = {} /\ Marks(x) = {}
  <2>1. pc = "head" /\ NbBid \in Int /\ NbRay \in Int
    BY <1>0, <1>head DEF ChernikovaTyped
  <2>2. CASE pc' = "line"
    BY <2>1, <2>2 DEF Marks
  <2>3. CASE pc' = "sort" /\ StartSort /\ \A y \in 0 .. NbBid - 1 : Ray'[y][0] = 0
    <3>1. Ray'[x][0] # 0 => x >= NbBid
      BY <2>1, <2>3
    <3>2. sup_bound' = NbBid /\ inf_bound' = NbRay
      BY <2>3 DEF StartSort
    <3> QED BY <2>1, <2>3, <3>1, <3>2 DEF Marks
  <2> QED BY <1>cases, <2>2, <2>3
<1>8. BitsExact'
  BY <1>0, <1>3, <1>7 DEF BitsExact, Before
<1>9. InPhase'
  <2>1. NbBid \in Int /\ NbRay \in Int /\ NbBid <= NbRay /\ 0 <= NbBid
    BY <1>0 DEF ChernikovaTyped
  <2>2. CASE pc' = "line" /\ \E x \in 0 .. NbBid - 1 : Ray'[x][0] # 0
    BY <1>0, <2>2 DEF InPhase
  <2>3. CASE pc' = "sort" /\ StartSort /\ \A x \in 0 .. NbBid - 1 : Ray'[x][0] = 0
    <3>1. equal_bound' = NbBid /\ sup_bound' = NbBid /\ inf_bound' = NbRay
      BY <2>3 DEF StartSort
    <3> QED BY <1>0, <2>1, <2>3, <3>1 DEF InPhase
  <2> QED BY <1>cases, <2>2, <2>3
<1> QED BY <1>4, <1>5, <1>6, <1>8, <1>9 DEF ChernikovaInv

-----------------------------------------------------------------------------
\* Negating all the elements of a line, its status word included, as the code
\* does when the line that leaves is outside the half-space.
Negated(p) == [c \in 0..Dimension |-> -p[c]]

\* It is as much a line, and its status word turns with it.
LEMMA TurnedRow ==
  ASSUME NEW p \in IntRow, NEW M, NEW K, HasRows(M, K), NEW d \in BOOLEAN,
         NEW m \in IntRow, p[0] = InnerProduct(p, m), InLineality(p, M, K, d)
  PROVE  /\ Negated(p) \in IntRow /\ Negated(p)[0] = -p[0]
         /\ Negated(p)[0] = InnerProduct(Negated(p), m)
         /\ InLineality(Negated(p), M, K, d)
<1> DEFINE r == Negated(p)
<1>0. r = [c \in 0..Dimension |-> -p[c]]
  BY DEF Negated
<1> HIDE DEF r
<1>1. r \in IntRow /\ r[0] = -p[0]
  BY <1>0, DimensionAssumption DEF IntRow
<1>2. ASSUME NEW q \in IntRow PROVE /\ InnerProduct(r, q) = -InnerProduct(p, q)
                                    /\ InnerProduct(r, q) + InnerProduct(p, q) = 0
                                    /\ InnerProduct(r, q) \in Int
  <2>1. ASSUME NEW c \in Coordinates PROVE 1 * r[c] = (-1) * p[c] + 0 * p[c]
    <3>1. p[c] \in Int /\ r[c] = -p[c]
      BY <1>0, DimensionAssumption DEF IntRow, Coordinates
    <3>2. PICK v \in Int : v = p[c]
      BY <3>1
    <3>3. 1 * (-v) = (-1) * v + 0 * v
      OBVIOUS
    <3> QED BY <3>1, <3>2, <3>3
  <2>2. 1 * InnerProduct(r, q) = (-1) * InnerProduct(p, q) + 0 * InnerProduct(p, q)
    <3>1. PICK a \in Int : a = -1
      OBVIOUS
    <3>2. \A c \in Coordinates : 1 * r[c] = a * p[c] + 0 * p[c]
      BY <2>1, <3>1
    <3>3. 1 * InnerProduct(r, q) = a * InnerProduct(p, q) + 0 * InnerProduct(p, q)
      BY <1>1, <3>2, InnerProductLinear
    <3> QED BY <3>1, <3>3
  <2>3. InnerProduct(r, q) \in Int /\ InnerProduct(p, q) \in Int
    BY <1>1, InnerProductInt
  <2> QED BY <2>2, <2>3
<1>3. r[Dimension] = -p[Dimension] /\ p[Dimension] \in Int
  BY <1>0, DimensionAssumption DEF IntRow
<1>4. InnerProduct(r, m) = r[0]
  BY <1>1, <1>2
<1>5. \A c \in K : InnerProduct(r, M[c]) = 0
  <2>1. ASSUME NEW c \in K PROVE InnerProduct(r, M[c]) = 0
    <3>1. M[c] \in IntRow /\ InnerProduct(p, M[c]) = 0
      BY DEF HasRows, InLineality
    <3>2. InnerProduct(r, M[c]) + InnerProduct(p, M[c]) = 0 /\ InnerProduct(r, M[c]) \in Int
      BY <1>2, <3>1
    <3> QED BY <3>1, <3>2
  <2> QED BY <2>1
<1>6. d \/ r[Dimension] = 0
  BY <1>3 DEF InLineality
<1> QED BY <1>1, <1>4, <1>5, <1>6 DEF InLineality, r

\* What is orthogonal to the negated line is orthogonal to the line.
LEMMA NegatedProduct ==
  ASSUME NEW p \in IntRow, NEW u \in IntRow, InnerProduct(u, Negated(p)) = 0
  PROVE  InnerProduct(u, p) = 0
<1>1. Negated(p) = Reversed(p)
  <2>1. ASSUME NEW c \in 0..Dimension PROVE -p[c] = (-1) * p[c] + 0 * p[c]
    <3>1. PICK v \in Int : v = p[c]
      BY DEF IntRow
    <3>2. -v = (-1) * v + 0 * v
      OBVIOUS
    <3> QED BY <3>1, <3>2
  <2> QED BY <2>1, Zenon DEF Negated, Reversed, Mix
<1>2. InnerProduct(u, Reversed(p)) = -InnerProduct(u, p)
  BY ReversedProduct
<1>3. PICK x \in Int : x = InnerProduct(u, p)
  BY InnerProductInt
<1>4. -x = 0
  BY <1>1, <1>2, <1>3
<1> QED BY <1>3, <1>4

\* The line that leaves exists and does not saturate the constraint.
LEMMA IndexNonZeroIs ==
  ASSUME ChernikovaInv, pc = "line"
  PROVE  IndexNonZero \in 0 .. NbBid - 1 /\ Ray[IndexNonZero][0] # 0
<1> DEFINE S == {x \in 0 .. NbBid - 1 : Ray[x][0] # 0}
<1>1. NbBid \in Nat /\ S # {} /\ S \subseteq Nat
  BY DEF ChernikovaInv, ChernikovaTyped, InPhase
<1>2. PICK x \in S : \A y \in S : x <= y
  <2> HIDE DEF S
  <2> QED BY <1>1, LeastElement
<1>3. Ray[x][0] # 0 /\ \A y \in 0 .. x - 1 : Ray[y][0] = 0
  BY <1>1, <1>2
<1>4. x \in 0 .. NbBid - 1
  BY <1>1, <1>2
<1> QED BY <1>3, <1>4 DEF IndexNonZero

\* Once straightened, every row but the line z saturates the constraint, and
\* none has left the cone of those before.  The lines generate what they did.
LEMMA StraightenedRows ==
  ASSUME ChernikovaInv, pc = "line"
  PROVE  LET z == NbBid - 1  S == Straightened
         IN  /\ z \in 0 .. NbRay - 1
             /\ S \in [0 .. NbRay - 1 -> IntRow]
             /\ \A x \in 0 .. z - 1 : /\ InLineality(S[x], Mat, Before, dual)
                                      /\ InnerProduct(S[x], Mat[k]) = 0
             /\ InLineality(S[z], Mat, Before, dual) /\ InnerProduct(S[z], Mat[k]) > 0
             /\ \A x \in NbBid .. NbRay - 1 :
                  /\ InCone(S[x], Mat, Before, dual) /\ InnerProduct(S[x], Mat[k]) = 0
                  /\ Unsaturated(S[x], Mat, Before) = Unsaturated(Ray[x], Mat, Before)
                  /\ dual \/ (AtInfinity(S[x]) <=> AtInfinity(Ray[x]))
             /\ \A u \in IntRow : (\A x \in 0..z : InnerProduct(u, S[x]) = 0) =>
                                    \A x \in 0..z : InnerProduct(u, Ray[x]) = 0
<1> DEFINE z == NbBid - 1
           n == IndexNonZero
           moved == Exchange(Ray, n, z)
           lines == Projected(moved, z, 0, z)
           opposite == Negated(lines[z])
           turned == [lines EXCEPT ![z] = IF @[0] < 0 THEN [c \in 0..Dimension |-> -@[c]] ELSE @]
           all == Projected(turned, z, NbBid, NbRay)
<1>0. /\ NbBid \in Nat /\ NbRay \in Nat /\ NbBid <= NbRay /\ dual \in BOOLEAN
      /\ Ray \in [0 .. NbRay - 1 -> IntRow]
  BY DEF ChernikovaInv, ChernikovaTyped
<1>1. n \in 0 .. z /\ Ray[n][0] # 0 /\ z \in 0 .. NbRay - 1
  BY <1>0, IndexNonZeroIs
<1>2. HasRows(Mat, Before) /\ Mat[k] \in IntRow
  BY RowsKnown DEF ChernikovaInv
<1>3. \A x \in 0..z : Ray[x] \in IntRow /\ Ray[x][0] = InnerProduct(Ray[x], Mat[k])
                       /\ InLineality(Ray[x], Mat, Before, dual)
  BY <1>0 DEF ChernikovaInv, StatusExact, Verified
<1>4. \A x \in NbBid .. NbRay - 1 : Ray[x] \in IntRow /\ Ray[x][0] = InnerProduct(Ray[x], Mat[k])
                       /\ InCone(Ray[x], Mat, Before, dual)
  BY <1>0 DEF ChernikovaInv, StatusExact, Verified
<1>5. /\ moved \in [0 .. NbRay - 1 -> IntRow] /\ moved[z][0] # 0
      /\ \A x \in 0..z : moved[x][0] = InnerProduct(moved[x], Mat[k])
                          /\ InLineality(moved[x], Mat, Before, dual)
      /\ \A x \in NbBid .. NbRay - 1 : moved[x] = Ray[x]
  <2>1. \A x \in 0 .. NbRay - 1 : x \notin {n, z} => moved[x] = Ray[x]
    BY <1>0, <1>1 DEF Exchange
  <2>2. moved[z] = Ray[n] /\ moved[n] = Ray[z]
    BY <1>0, <1>1 DEF Exchange
  <2>3. n \in 0 .. NbRay - 1
    BY <1>0, <1>1
  <2>4. moved \in [0 .. NbRay - 1 -> IntRow]
    BY <1>0, <1>1, <2>3 DEF Exchange
  <2>5. \A x \in 0..z : \E y \in 0..z : moved[x] = Ray[y]
    BY <1>0, <1>1, <2>1, <2>2
  <2> HIDE DEF moved, n
  <2> QED BY <1>0, <1>1, <1>3, <2>1, <2>2, <2>4, <2>5
<1>m. \A x \in 0..z : \E y \in 0..z : Ray[x] = moved[y]
  <2>1. \A x \in 0 .. NbRay - 1 : x \notin {n, z} => moved[x] = Ray[x]
    BY <1>0, <1>1 DEF Exchange
  <2>2. moved[z] = Ray[n] /\ moved[n] = Ray[z] /\ z \in 0..z
    BY <1>0, <1>1 DEF Exchange
  <2> HIDE DEF moved, n
  <2> QED BY <1>0, <1>1, <2>1, <2>2
<1> HIDE DEF n, moved
<1>6. /\ lines \in [0 .. NbRay - 1 -> IntRow] /\ lines[z] = moved[z]
      /\ \A x \in 0 .. z - 1 : /\ InLineality(lines[x], Mat, Before, dual)
                               /\ InnerProduct(lines[x], Mat[k]) = 0
      /\ \A x \in NbBid .. NbRay - 1 : lines[x] = Ray[x]
  <2>1. DOMAIN moved = 0 .. NbRay - 1 /\ \A x \in 0 .. NbRay - 1 : moved[x] \in IntRow
    BY <1>5
  <2>2. lines = [x \in 0 .. NbRay - 1 |->
                   IF x \in 0 .. z - 1 /\ moved[x][0] # 0
                     THEN Combine(moved[x], moved[z], moved[x], 0) ELSE moved[x]]
    BY <2>1 DEF Projected
  <2>3. ASSUME NEW x \in 0 .. z - 1
        PROVE  lines[x] \in IntRow /\ InLineality(lines[x], Mat, Before, dual)
               /\ InnerProduct(lines[x], Mat[k]) = 0
    <3>0. x \in 0..z /\ x \in 0 .. NbRay - 1
      BY <1>0, <1>1
    <3>1. CASE moved[x][0] = 0
      <4>1. lines[x] = moved[x]
        BY <2>2, <3>0, <3>1
      <4> HIDE DEF lines
      <4> QED BY <1>5, <2>1, <3>0, <3>1, <4>1
    <3>2. CASE moved[x][0] # 0
      <4>1. lines[x] = Combine(moved[x], moved[z], moved[x], 0)
        BY <2>2, <3>0, <3>2
      <4>2. z \in 0..z
        BY <1>1
      <4> HIDE DEF lines
      <4>3. lines[x] \in IntRow
        BY <1>1, <1>5, <2>1, <3>0, <4>1, CombineWeighs
      <4>4. InLineality(lines[x], Mat, Before, dual)
        BY <1>0, <1>1, <1>2, <1>5, <2>1, <3>0, <4>1, <4>2, LinesCombined
      <4>5. InnerProduct(lines[x], Mat[k]) = 0
        BY <1>1, <1>2, <1>5, <2>1, <3>0, <4>1, <4>2, CombinedOnHyperplane
      <4> QED BY <4>3, <4>4, <4>5
    <3> QED BY <3>1, <3>2
  <2>4. ASSUME NEW x \in 0 .. NbRay - 1, x >= z PROVE lines[x] = moved[x]
    BY <1>0, <2>2, <2>4
  <2>5. \A x \in 0 .. NbRay - 1 : x \in 0 .. z - 1 \/ x >= z
    BY <1>1
  <2>6. DOMAIN lines = 0 .. NbRay - 1 /\ lines = [x \in 0 .. NbRay - 1 |-> lines[x]]
    BY <2>2
  <2> HIDE DEF lines
  <2>7. \A x \in 0 .. NbRay - 1 : lines[x] \in IntRow
    BY <2>1, <2>3, <2>4, <2>5
  <2>8. lines \in [0 .. NbRay - 1 -> IntRow]
    BY <2>6, <2>7
  <2>9. lines[z] = moved[z]
    BY <1>1, <2>4
  <2>10. \A x \in NbBid .. NbRay - 1 : x \in 0 .. NbRay - 1 /\ x >= z
    BY <1>0
  <2> QED BY <1>5, <2>3, <2>4, <2>8, <2>9, <2>10
<1>l. \A x \in 0..z : lines[x] = moved[x] \/ lines[x] = Combine(moved[x], moved[z], moved[x], 0)
  <2>1. DOMAIN moved = 0 .. NbRay - 1
    BY <1>5
  <2>2. \A x \in 0..z : x \in 0 .. NbRay - 1
    BY <1>0, <1>1
  <2> QED BY <2>1, <2>2 DEF Projected
<1> HIDE DEF lines
<1>7. /\ turned \in [0 .. NbRay - 1 -> IntRow]
      /\ turned[z][0] > 0 /\ turned[z][0] = InnerProduct(turned[z], Mat[k])
      /\ InLineality(turned[z], Mat, Before, dual)
      /\ \A x \in 0 .. NbRay - 1 : x # z => turned[x] = lines[x]
  <2>1. lines[z] \in IntRow /\ lines[z][0] \in Int /\ lines[z][0] # 0
    BY <1>1, <1>5, <1>6, LastInt
  <2>2. z \in 0..z
    BY <1>1
  <2>3. lines[z][0] = InnerProduct(lines[z], Mat[k]) /\ InLineality(lines[z], Mat, Before, dual)
    BY <1>5, <1>6, <2>2
  <2>4. /\ opposite \in IntRow /\ opposite[0] = -lines[z][0]
        /\ opposite[0] = InnerProduct(opposite, Mat[k])
        /\ InLineality(opposite, Mat, Before, dual)
    BY <1>0, <1>2, <2>1, <2>3, TurnedRow
  <2>5. turned = [lines EXCEPT ![z] = IF lines[z][0] < 0 THEN opposite ELSE lines[z]]
    BY DEF Negated
  <2> HIDE DEF opposite, turned
  <2>6. turned[z] = IF lines[z][0] < 0 THEN opposite ELSE lines[z]
    BY <1>1, <1>6, <2>5
  <2> QED BY <1>1, <1>6, <2>1, <2>3, <2>4, <2>5, <2>6
<1>t. turned[z] = lines[z] \/ turned[z] = Negated(lines[z])
  BY <1>1, <1>6 DEF Negated
<1> HIDE DEF turned
<1>8. /\ all \in [0 .. NbRay - 1 -> IntRow]
      /\ \A x \in 0..z : all[x] = turned[x]
      /\ \A x \in NbBid .. NbRay - 1 :
           /\ InCone(all[x], Mat, Before, dual) /\ InnerProduct(all[x], Mat[k]) = 0
           /\ Unsaturated(all[x], Mat, Before) = Unsaturated(Ray[x], Mat, Before)
           /\ dual \/ (AtInfinity(all[x]) <=> AtInfinity(Ray[x]))
  <2>1. DOMAIN turned = 0 .. NbRay - 1 /\ \A x \in 0 .. NbRay - 1 : turned[x] \in IntRow
    BY <1>7
  <2>2. all = [x \in 0 .. NbRay - 1 |->
                   IF x \in NbBid .. NbRay - 1 /\ turned[x][0] # 0
                     THEN Combine(turned[x], turned[z], turned[x], 0) ELSE turned[x]]
    BY <2>1 DEF Projected
  <2>3. ASSUME NEW x \in NbBid .. NbRay - 1
        PROVE  /\ all[x] \in IntRow
               /\ InCone(all[x], Mat, Before, dual) /\ InnerProduct(all[x], Mat[k]) = 0
               /\ Unsaturated(all[x], Mat, Before) = Unsaturated(Ray[x], Mat, Before)
               /\ dual \/ (AtInfinity(all[x]) <=> AtInfinity(Ray[x]))
    <3>0. x \in 0 .. NbRay - 1 /\ x # z
      BY <1>0
    <3>1. turned[x] = Ray[x] /\ turned[x] \in IntRow
      BY <1>6, <1>7, <2>1, <3>0
    <3>2. CASE turned[x][0] = 0
      <4>1. all[x] = turned[x]
        BY <2>2, <3>0, <3>2
      <4> HIDE DEF all
      <4> QED BY <1>4, <3>1, <3>2, <4>1
    <3>3. CASE turned[x][0] # 0
      <4>1. all[x] = Combine(turned[x], turned[z], turned[x], 0)
        BY <2>2, <3>0, <3>3
      <4>2. turned[z] \in IntRow /\ turned[z][0] # 0
        BY <1>1, <1>7, <2>1
      <4> HIDE DEF all
      <4>3. all[x] \in IntRow
        BY <3>1, <4>1, <4>2, CombineWeighs
      <4>4. InCone(turned[x], Mat, Before, dual) /\ turned[x][0] = InnerProduct(turned[x], Mat[k])
        BY <1>4, <3>1
      <4>5. /\ InCone(all[x], Mat, Before, dual)
            /\ Unsaturated(all[x], Mat, Before)
                 = Unsaturated(turned[x], Mat, Before) \cup Unsaturated(turned[z], Mat, Before)
            /\ dual \/ (AtInfinity(all[x]) <=> AtInfinity(turned[x]) /\ AtInfinity(turned[z]))
        BY <1>0, <1>2, <1>7, <3>1, <4>1, <4>2, <4>4, RaysCombined
      <4>6. Unsaturated(turned[z], Mat, Before) = {} /\ (dual \/ AtInfinity(turned[z]))
        BY <1>7 DEF InLineality, Unsaturated, AtInfinity
      <4>7. InnerProduct(all[x], Mat[k]) = 0
        BY <1>2, <1>7, <3>1, <4>1, <4>2, <4>4, CombinedOnHyperplane
      <4> QED BY <3>1, <4>3, <4>5, <4>6, <4>7
    <3> QED BY <3>2, <3>3
  <2>4. \A x \in 0 .. NbRay - 1 : x \in 0..z => all[x] = turned[x]
    BY <1>0, <2>2
  <2>5. \A x \in 0 .. NbRay - 1 : x \in 0..z \/ x \in NbBid .. NbRay - 1
    BY <1>0
  <2>6. all = [x \in 0 .. NbRay - 1 |-> all[x]]
    BY <2>2
  <2>7. \A x \in 0..z : x \in 0 .. NbRay - 1
    BY <1>0, <1>1
  <2> HIDE DEF all
  <2>8. \A x \in 0 .. NbRay - 1 : all[x] \in IntRow
    BY <2>1, <2>3, <2>4, <2>5
  <2>9. all \in [0 .. NbRay - 1 -> IntRow]
    BY <2>6, <2>8
  <2> QED BY <2>3, <2>4, <2>7, <2>9
<1>9. Straightened = all
  BY DEF Straightened, all, turned, lines, moved, n
<1> HIDE DEF all
<1>10. \A x \in 0 .. z - 1 : x \in 0..z /\ x \in 0 .. NbRay - 1 /\ x # z
  BY <1>0, <1>1
<1>11. z \in 0..z
  BY <1>1
<1>12. InnerProduct(all[z], Mat[k]) > 0 /\ InLineality(all[z], Mat, Before, dual)
  BY <1>7, <1>8, <1>11
<1>13. \A x \in 0 .. z - 1 : /\ InLineality(all[x], Mat, Before, dual)
                             /\ InnerProduct(all[x], Mat[k]) = 0
  BY <1>6, <1>7, <1>8, <1>10
<1>14. ASSUME NEW u \in IntRow, \A x \in 0..z : InnerProduct(u, all[x]) = 0, NEW x0 \in 0..z
       PROVE  InnerProduct(u, Ray[x0]) = 0
  <2>1. lines[z] \in IntRow /\ lines[z] = moved[z] /\ moved[z][0] # 0
    BY <1>1, <1>5, <1>6
  <2>2. InnerProduct(u, lines[z]) = 0
    <3>1. InnerProduct(u, turned[z]) = 0
      BY <1>8, <1>11, <1>14
    <3> QED BY <1>t, <2>1, <3>1, NegatedProduct
  <2>3. ASSUME NEW x \in 0..z PROVE InnerProduct(u, moved[x]) = 0
    <3>1. moved[x] \in IntRow
      <4>1. x \in 0 .. NbRay - 1
        BY <1>0, <1>1
      <4> QED BY <1>5, <4>1
    <3>2. CASE x = z
      BY <2>1, <2>2, <3>2
    <3>3. CASE x # z
      <4>1. x \in 0 .. z - 1
        BY <1>1, <3>3
      <4>2. all[x] = lines[x]
        BY <1>7, <1>8, <1>10, <4>1
      <4>3. InnerProduct(u, lines[x]) = 0
        BY <1>14, <4>2
      <4> QED BY <1>l, <2>1, <2>2, <3>1, <4>3, LineRecovered
    <3> QED BY <3>2, <3>3
  <2>4. PICK y \in 0..z : Ray[x0] = moved[y]
    BY <1>m
  <2> QED BY <2>3, <2>4
<1>15. \A u \in IntRow : (\A x \in 0..z : InnerProduct(u, all[x]) = 0) =>
                           \A x \in 0..z : InnerProduct(u, Ray[x]) = 0
  BY <1>14
<1> QED BY <1>1, <1>8, <1>9, <1>12, <1>13, <1>15
-----------------------------------------------------------------------------

\* The bit of the constraint that the turn ends with.
NewMark(r) == IF InnerProduct(r, Mat[k]) # 0 THEN {k} ELSE {}

\* What the last step of constraint k establishes for the next turn.
LEMMA TurnEnds ==
  ASSUME ChernikovaInv, pc # "head", NextConstraint,
         UNCHANGED <<Mat, dual, NbMaxRays, bounds, pair>>,
         NbRay' \in Nat, NbBid' \in 0..NbRay', NbRay' <= NbMaxRays,
         Ray' \in [0 .. NbRay' - 1 -> IntRow], DOMAIN Sat' = 0 .. NbRay' - 1,
         \A x \in 0 .. NbBid' - 1 : InLineality(Ray'[x], Mat, Before, dual)
                                      /\ InnerProduct(Ray'[x], Mat[k]) = 0,
         \A x \in NbBid' .. NbRay' - 1 : InCone(Ray'[x], Mat, Before, dual)
                                      /\ Verifies(Ray'[x], Mat[k]),
         \A x \in 0 .. NbRay' - 1 :
           Sat'[x] = BitsOf(Unsaturated(Ray'[x], Mat, Before) \cup NewMark(Ray'[x]))
  PROVE  ChernikovaInv'
<1>1. ChernikovaTyped /\ k \in Nat /\ k < NbConstraints /\ NbConstraints \in Nat
  BY DEF ChernikovaInv, ChernikovaTyped
<1>2. pc' = "head" /\ k' = k + 1 /\ k' \in 0..NbConstraints
  BY <1>1 DEF NextConstraint
<1>3. jx' \in Nat /\ bx' \in 0 .. WSIZE - 1 /\ k' = jx' * WSIZE + bx'
  <2>1. jx \in Nat /\ bx \in 0 .. WSIZE - 1 /\ k = jx * WSIZE + bx /\ WSIZE \in Nat \ {0}
    BY <1>1, WSIZEAssumption DEF ChernikovaTyped
  <2>2. CASE bx = WSIZE - 1
    <3>1. jx' = jx + 1 /\ bx' = 0
      BY <2>2 DEF NextConstraint
    <3>2. (jx + 1) * WSIZE + 0 = jx * WSIZE + (WSIZE - 1) + 1
      BY <2>1
    <3> QED BY <1>2, <2>1, <2>2, <3>1, <3>2
  <2>3. CASE bx # WSIZE - 1
    <3>1. jx' = jx /\ bx' = bx + 1
      BY <2>3 DEF NextConstraint
    <3>2. jx * WSIZE + (bx + 1) = jx * WSIZE + bx + 1
      BY <2>1
    <3> QED BY <1>2, <2>1, <2>3, <3>1, <3>2
  <2> QED BY <2>2, <2>3
<1>4. ChernikovaTyped'
  <2>1. NbConstraints' = NbConstraints
    BY DEF NbConstraints
  <2>2. UNCHANGED <<equal_bound, sup_bound, inf_bound, i, j, bound, Mat, dual, NbMaxRays>>
    BY DEF bounds, pair
  <2> QED BY <1>1, <1>2, <1>3, <2>1, <2>2 DEF ChernikovaTyped
<1>5. Before' = 0..k /\ Before = 0 .. k - 1
  BY <1>1, <1>2 DEF Before
<1>6. Mat' = Mat /\ dual' = dual
  OBVIOUS
<1>7. \A r : /\ InCone(r, Mat, 0..k, dual) <=> InCone(r, Mat, Before, dual) /\ Verifies(r, Mat[k])
             /\ InLineality(r, Mat, 0..k, dual)
                  <=> InLineality(r, Mat, Before, dual) /\ InnerProduct(r, Mat[k]) = 0
             /\ Unsaturated(r, Mat, 0..k) = Unsaturated(r, Mat, Before) \cup NewMark(r)
  BY <1>1, <1>5, OneMore DEF NewMark
<1>8. Verified'
  BY <1>5, <1>6, <1>7 DEF Verified
<1>9. StatusExact' /\ InPhase'
  BY <1>2 DEF StatusExact, InPhase
<1>10. BitsExact'
  <2>1. \A x : Marks(x)' = {}
    BY <1>2 DEF Marks
  <2> QED BY <1>5, <1>6, <1>7, <2>1 DEF BitsExact
<1> QED BY <1>4, <1>8, <1>9, <1>10 DEF ChernikovaInv

\* In the line phase no bit of the constraint is set yet.
LEMMA LineBits ==
  ASSUME ChernikovaInv, pc = "line"
  PROVE  /\ \A x \in 0 .. NbRay - 1 : Sat[x] = BitsOf(Unsaturated(Ray[x], Mat, Before))
         /\ \A x \in 0 .. NbBid - 1 : Unsaturated(Ray[x], Mat, Before) = {}
         /\ pc # "head" /\ Mat[k] \in IntRow
<1>1. \A x \in 0 .. NbRay - 1 : Marks(x) = {}
  BY DEF Marks
<1>2. \A x \in 0 .. NbBid - 1 : InLineality(Ray[x], Mat, Before, dual)
  BY DEF ChernikovaInv, Verified
<1>3. Mat[k] \in IntRow
  BY RowsKnown DEF ChernikovaInv
<1> QED BY <1>1, <1>2, <1>3 DEF ChernikovaInv, BitsExact, InLineality, Unsaturated

\* An inequality: the line becomes a ray.
LEMMA LineToRayStep ==
  ASSUME ChernikovaInv, LineToRay
  PROVE  ChernikovaInv'
<1> DEFINE z == NbBid - 1
           S == Straightened
<1>1. /\ pc = "line" /\ NbBid' = z /\ Ray' = S /\ Sat' = [Sat EXCEPT ![z] = {Bit}]
      /\ NextConstraint /\ UNCHANGED <<Mat, dual, NbRay, NbMaxRays, bounds, pair>> /\ Mat[k][0] # 0
  BY DEF LineToRay, Equality
<1>2. /\ z \in 0 .. NbRay - 1
      /\ S \in [0 .. NbRay - 1 -> IntRow]
      /\ \A x \in 0 .. z - 1 : InLineality(S[x], Mat, Before, dual) /\ InnerProduct(S[x], Mat[k]) = 0
      /\ InLineality(S[z], Mat, Before, dual) /\ InnerProduct(S[z], Mat[k]) > 0
      /\ \A x \in NbBid .. NbRay - 1 :
           /\ InCone(S[x], Mat, Before, dual) /\ InnerProduct(S[x], Mat[k]) = 0
           /\ Unsaturated(S[x], Mat, Before) = Unsaturated(Ray[x], Mat, Before)
  BY <1>1, StraightenedRows
<1>3. /\ \A x \in 0 .. NbRay - 1 : Sat[x] = BitsOf(Unsaturated(Ray[x], Mat, Before))
      /\ \A x \in 0..z : Unsaturated(Ray[x], Mat, Before) = {}
      /\ Mat[k] \in IntRow
  BY <1>1, LineBits
<1>4. /\ NbRay \in Nat /\ NbRay <= NbMaxRays /\ DOMAIN Sat = 0 .. NbRay - 1 /\ NbBid \in Nat
      /\ Bit = BitAt(k) /\ NbBid <= NbRay
  BY RowsKnown DEF ChernikovaInv, ChernikovaTyped
<1> HIDE DEF S
<1>5. InCone(S[z], Mat, Before, dual) /\ Verifies(S[z], Mat[k]) /\ InnerProduct(S[z], Mat[k]) # 0
  <2>1. InnerProduct(S[z], Mat[k]) \in Int
    BY <1>2, <1>3, InnerProductInt
  <2>2. S[z] \in IntRow /\ S[z][Dimension] \in Int
    BY <1>2, LastInt
  <2> QED BY <1>1, <1>2, <2>1, <2>2 DEF InCone, InLineality, Verifies
<1>6. \A x \in NbBid .. NbRay - 1 : Verifies(S[x], Mat[k])
  BY <1>2 DEF Verifies
<1>7. \A x \in z .. NbRay - 1 : InCone(S[x], Mat, Before, dual) /\ Verifies(S[x], Mat[k])
  <2>1. \A x \in z .. NbRay - 1 : x = z \/ x \in NbBid .. NbRay - 1
    BY <1>4
  <2> QED BY <1>2, <1>5, <1>6, <2>1
<1>8. ASSUME NEW x \in 0 .. NbRay - 1
      PROVE  Sat'[x] = BitsOf(Unsaturated(S[x], Mat, Before) \cup NewMark(S[x]))
  <2>1. CASE x \in 0 .. z - 1
    <3>1. Unsaturated(S[x], Mat, Before) = {} /\ NewMark(S[x]) = {}
      BY <1>2, <2>1 DEF InLineality, Unsaturated, NewMark
    <3>2. Sat'[x] = Sat[x] /\ x \in 0..z
      BY <1>1, <1>4, <2>1
    <3> QED BY <1>3, <3>1, <3>2
  <2>2. CASE x = z
    <3>1. Unsaturated(S[x], Mat, Before) = {} /\ NewMark(S[x]) = {k}
      BY <1>2, <1>5, <2>2 DEF InLineality, Unsaturated, NewMark
    <3>2. Sat'[x] = {BitAt(k)}
      BY <1>1, <1>4, <2>2
    <3> QED BY <3>1, <3>2 DEF BitsOf
  <2>3. CASE x \in NbBid .. NbRay - 1
    <3>1. Unsaturated(S[x], Mat, Before) = Unsaturated(Ray[x], Mat, Before) /\ NewMark(S[x]) = {}
      BY <1>2, <2>3 DEF NewMark
    <3>2. Sat'[x] = Sat[x]
      BY <1>1, <1>4, <2>3
    <3> QED BY <1>3, <3>1, <3>2
  <2> QED BY <1>4, <2>1, <2>2, <2>3
<1>9. z \in 0..NbRay /\ DOMAIN Sat' = 0 .. NbRay - 1
  BY <1>1, <1>2, <1>4
<1> HIDE DEF z
<1>10. NbRay' = NbRay /\ UNCHANGED <<Mat, dual, NbMaxRays, bounds, pair>>
  BY <1>1
<1> QED BY <1>1, <1>2, <1>4, <1>7, <1>8, <1>9, <1>10, TurnEnds

\* An equality: the line goes, and the last row takes its place.
LEMMA DiscardLineStep ==
  ASSUME ChernikovaInv, DiscardLine
  PROVE  ChernikovaInv'
<1> DEFINE z == NbBid - 1
           S == Straightened
           n == NbRay - 1
<1>1. /\ pc = "line" /\ NbBid' = z /\ NbRay' = n
      /\ Ray' = Rows(WithRow(S, z, S[n]), n) /\ Sat' = Rows(WithRow(Sat, z, Sat[n]), n)
      /\ NextConstraint /\ UNCHANGED <<Mat, dual, NbMaxRays, bounds, pair>> /\ Mat[k][0] = 0
  BY DEF DiscardLine, Equality
<1>2. /\ z \in 0 .. NbRay - 1
      /\ S \in [0 .. NbRay - 1 -> IntRow]
      /\ \A x \in 0 .. z - 1 : InLineality(S[x], Mat, Before, dual) /\ InnerProduct(S[x], Mat[k]) = 0
      /\ \A x \in NbBid .. NbRay - 1 :
           /\ InCone(S[x], Mat, Before, dual) /\ InnerProduct(S[x], Mat[k]) = 0
           /\ Unsaturated(S[x], Mat, Before) = Unsaturated(Ray[x], Mat, Before)
  BY <1>1, StraightenedRows
<1>3. /\ \A x \in 0 .. NbRay - 1 : Sat[x] = BitsOf(Unsaturated(Ray[x], Mat, Before))
      /\ \A x \in 0..z : Unsaturated(Ray[x], Mat, Before) = {}
      /\ Mat[k] \in IntRow
  BY <1>1, LineBits
<1>4. /\ NbRay \in Nat /\ NbRay <= NbMaxRays /\ DOMAIN Sat = 0 .. NbRay - 1 /\ NbBid \in Nat
      /\ NbBid <= NbRay /\ NbMaxRays \in Nat
  BY DEF ChernikovaInv, ChernikovaTyped
<1> HIDE DEF S
<1>5. n \in Nat /\ z \in 0..n /\ n <= NbMaxRays
  BY <1>2, <1>4
<1>6. /\ DOMAIN Ray' = 0 .. n - 1 /\ DOMAIN Sat' = 0 .. n - 1
      /\ Ray' = [x \in 0 .. n - 1 |-> Ray'[x]]
      /\ \A x \in 0 .. n - 1 : \E y \in 0 .. NbRay - 1 :
           /\ Ray'[x] = S[y] /\ Sat'[x] = Sat[y]
           /\ x \in 0 .. z - 1 => y \in 0 .. z - 1
           /\ x \in z .. n - 1 => y \in NbBid .. NbRay - 1
  <2>1. DOMAIN WithRow(S, z, S[n]) = 0 .. NbRay - 1 /\ DOMAIN WithRow(Sat, z, Sat[n]) = 0 .. NbRay - 1
    BY <1>2, <1>4 DEF WithRow
  <2>2. \A x \in 0 .. NbRay - 1 : /\ WithRow(S, z, S[n])[x] = IF x = z THEN S[n] ELSE S[x]
                                  /\ WithRow(Sat, z, Sat[n])[x] = IF x = z THEN Sat[n] ELSE Sat[x]
    BY <1>2, <1>4 DEF WithRow
  <2>3. /\ Ray' = [x \in 0 .. n - 1 |-> WithRow(S, z, S[n])[x]]
        /\ Sat' = [x \in 0 .. n - 1 |-> WithRow(Sat, z, Sat[n])[x]]
    BY <1>1 DEF Rows
  <2>4. ASSUME NEW x \in 0 .. n - 1
        PROVE  \E y \in 0 .. NbRay - 1 :
                 /\ Ray'[x] = S[y] /\ Sat'[x] = Sat[y]
                 /\ x \in 0 .. z - 1 => y \in 0 .. z - 1
                 /\ x \in z .. n - 1 => y \in NbBid .. NbRay - 1
    <3>1. x \in 0 .. NbRay - 1
      BY <1>4
    <3>2. CASE x = z
      <4>1. Ray'[x] = S[n] /\ Sat'[x] = Sat[n]
        BY <2>2, <2>3, <3>1, <3>2
      <4>2. n \in 0 .. NbRay - 1 /\ n \in NbBid .. NbRay - 1 /\ x \notin 0 .. z - 1
        BY <1>2, <1>4, <1>5, <3>2
      <4> QED BY <4>1, <4>2
    <3>3. CASE x # z
      <4>1. Ray'[x] = S[x] /\ Sat'[x] = Sat[x]
        BY <2>2, <2>3, <3>1, <3>3
      <4>2. x \in z .. n - 1 => x \in NbBid .. NbRay - 1
        BY <1>4, <1>5, <3>3
      <4> QED BY <3>1, <4>1, <4>2
    <3> QED BY <3>2, <3>3
  <2> QED BY <2>3, <2>4
<1>7. Ray' \in [0 .. n - 1 -> IntRow]
  BY <1>2, <1>6
<1>8. \A x \in 0 .. z - 1 : InLineality(Ray'[x], Mat, Before, dual) /\ InnerProduct(Ray'[x], Mat[k]) = 0
  <2>1. \A x \in 0 .. z - 1 : x \in 0 .. n - 1
    BY <1>5
  <2> QED BY <1>2, <1>6, <2>1
<1>9. \A x \in z .. n - 1 : InCone(Ray'[x], Mat, Before, dual) /\ Verifies(Ray'[x], Mat[k])
  <2>1. \A x \in z .. n - 1 : x \in 0 .. n - 1
    BY <1>5
  <2>2. \A x \in NbBid .. NbRay - 1 : Verifies(S[x], Mat[k])
    BY <1>2 DEF Verifies
  <2> QED BY <1>2, <1>6, <2>1, <2>2
<1>10. ASSUME NEW x \in 0 .. n - 1
       PROVE  Sat'[x] = BitsOf(Unsaturated(Ray'[x], Mat, Before) \cup NewMark(Ray'[x]))
  <2>1. PICK y \in 0 .. NbRay - 1 : /\ Ray'[x] = S[y] /\ Sat'[x] = Sat[y]
                                    /\ y \in 0 .. z - 1 \/ y \in NbBid .. NbRay - 1
    <3>1. x \in 0 .. z - 1 \/ x \in z .. n - 1
      BY <1>5
    <3> QED BY <1>6, <3>1
  <2>2. NewMark(S[y]) = {}
    BY <1>2, <2>1 DEF NewMark
  <2>3. Unsaturated(S[y], Mat, Before) = Unsaturated(Ray[y], Mat, Before)
    <3>1. CASE y \in 0 .. z - 1
      <4>1. Unsaturated(S[y], Mat, Before) = {}
        BY <1>2, <3>1 DEF InLineality, Unsaturated
      <4>2. y \in 0..z
        BY <1>5, <3>1
      <4> QED BY <1>3, <4>1, <4>2
    <3>2. CASE y \in NbBid .. NbRay - 1
      BY <1>2, <3>2
    <3> QED BY <2>1, <3>1, <3>2
  <2> QED BY <1>3, <2>1, <2>2, <2>3
<1>11. UNCHANGED <<Mat, dual, NbMaxRays, bounds, pair>> /\ pc # "head"
  BY <1>1
<1> HIDE DEF z, n
<1> QED BY <1>1, <1>5, <1>6, <1>7, <1>8, <1>9, <1>10, <1>11, TurnEnds
-----------------------------------------------------------------------------

\* Where row x comes from when a and b are exchanged.
Swapped(x, a, b) == IF x = a THEN b ELSE IF x = b THEN a ELSE x

\* Exchange row by row.
LEMMA ExchangedRows ==
  ASSUME NEW N, NEW M, DOMAIN M = N, NEW a \in N, NEW b \in N, NEW z \in N
  PROVE  DOMAIN Exchange(M, a, b) = N /\ Exchange(M, a, b)[z] = M[Swapped(z, a, b)]
BY DEF Exchange, Swapped

\* It keeps the type of the matrix.
LEMMA ExchangedType ==
  ASSUME NEW N, NEW T, NEW M \in [N -> T], NEW a \in N, NEW b \in N
  PROVE  Exchange(M, a, b) \in [N -> T]
BY DEF Exchange

\* The parts of the invariant that hold whatever the tiers are, when two rays
\* are exchanged.
LEMMA RowsExchanged ==
  ASSUME ChernikovaInv, pc = "sort", pc' = "sort",
         UNCHANGED <<Mat, k, dual, NbBid, NbRay, NbMaxRays, jx, bx, pair>>,
         NEW a \in NbBid .. NbRay - 1, NEW b \in NbBid .. NbRay - 1,
         Ray' \in [0 .. NbRay - 1 -> IntRow],
         \A x \in 0 .. NbRay - 1 : Ray'[x] = Ray[Swapped(x, a, b)],
         DOMAIN Sat' = 0 .. NbRay - 1,
         equal_bound' \in Int, sup_bound' \in Int, inf_bound' \in Int
  PROVE  /\ ChernikovaTyped' /\ Verified' /\ StatusExact'
         /\ \A x \in 0 .. NbRay - 1 : /\ Swapped(x, a, b) \in 0 .. NbRay - 1
                                      /\ Ray'[x] = Ray[Swapped(x, a, b)]
                                      /\ x < NbBid => Ray'[x] = Ray[x]
<1>1. ChernikovaTyped /\ NbBid \in Nat /\ NbRay \in Nat /\ NbBid <= NbRay
  BY DEF ChernikovaInv, ChernikovaTyped
<1>2. ASSUME NEW x \in 0 .. NbRay - 1
      PROVE  /\ Swapped(x, a, b) \in 0 .. NbRay - 1 /\ Ray'[x] = Ray[Swapped(x, a, b)]
             /\ x < NbBid => Swapped(x, a, b) = x
             /\ x >= NbBid => Swapped(x, a, b) \in NbBid .. NbRay - 1
  BY <1>1 DEF Swapped
<1>4. ChernikovaTyped'
  <2>1. NbConstraints' = NbConstraints
    BY DEF NbConstraints
  <2>2. UNCHANGED <<i, j, bound>>
    BY DEF pair
  <2> QED BY <1>1, <2>1, <2>2 DEF ChernikovaTyped
<1>5. Verified'
  <2>1. Before' = Before
    BY DEF Before
  <2>2. \A x \in 0 .. NbBid - 1 : x \in 0 .. NbRay - 1 /\ x < NbBid
    BY <1>1
  <2>3. \A x \in NbBid .. NbRay - 1 : x \in 0 .. NbRay - 1 /\ x >= NbBid
    BY <1>1
  <2> QED BY <1>2, <2>1, <2>2, <2>3 DEF Verified, ChernikovaInv
<1>6. StatusExact'
  <2>1. \A x \in 0 .. NbRay - 1 : Ray[x][0] = InnerProduct(Ray[x], Mat[k])
    BY DEF ChernikovaInv, StatusExact
  <2>2. \A x \in 0 .. NbRay - 1 : Ray'[x][0] = InnerProduct(Ray'[x], Mat[k])
    BY <1>2, <2>1
  <2> QED BY <2>2 DEF StatusExact
<1> QED BY <1>2, <1>4, <1>5, <1>6

\* What the invariant gives a step of the sort.
LEMMA InSort ==
  ASSUME ChernikovaInv, pc = "sort"
  PROVE  /\ NbBid \in Nat /\ NbRay \in Nat /\ equal_bound \in Int /\ sup_bound \in Int
         /\ inf_bound \in Int /\ NbBid <= equal_bound /\ equal_bound <= sup_bound
         /\ sup_bound <= inf_bound /\ inf_bound <= NbRay
         /\ DOMAIN Ray = 0 .. NbRay - 1 /\ Ray = [x \in 0 .. NbRay - 1 |-> Ray[x]]
         /\ DOMAIN Sat = 0 .. NbRay - 1
         /\ \A x \in 0 .. NbRay - 1 : Ray[x][0] \in Int
         /\ \A x \in 0 .. equal_bound - 1 : Ray[x][0] = 0
         /\ \A x \in equal_bound .. sup_bound - 1 : Ray[x][0] > 0
         /\ \A x \in inf_bound .. NbRay - 1 : Ray[x][0] < 0
         /\ \A x \in 0 .. NbRay - 1 :
              /\ Sat[x] = BitsOf(Unsaturated(Ray[x], Mat, Before) \cup Marks(x))
              /\ Marks(x) = IF Ray[x][0] # 0 /\ (x < sup_bound \/ x >= inf_bound) THEN {k} ELSE {}
<1>1. ChernikovaTyped /\ InPhase /\ BitsExact
  BY DEF ChernikovaInv
<1>2. \A x \in 0 .. NbRay - 1 : Ray[x][0] \in Int
  BY <1>1, LastInt DEF ChernikovaTyped
<1>3. \A x \in 0 .. NbRay - 1 :
         Marks(x) = IF Ray[x][0] # 0 /\ (x < sup_bound \/ x >= inf_bound) THEN {k} ELSE {}
  BY DEF Marks
<1>4. \A x \in 0 .. NbRay - 1 : Sat[x] = BitsOf(Unsaturated(Ray[x], Mat, Before) \cup Marks(x))
  BY <1>1 DEF BitsExact
<1>5. /\ NbBid \in Nat /\ NbRay \in Nat /\ equal_bound \in Int /\ sup_bound \in Int
      /\ inf_bound \in Int
      /\ DOMAIN Ray = 0 .. NbRay - 1 /\ Ray = [x \in 0 .. NbRay - 1 |-> Ray[x]]
      /\ DOMAIN Sat = 0 .. NbRay - 1
  BY <1>1 DEF ChernikovaTyped
<1>6. /\ NbBid <= equal_bound /\ equal_bound <= sup_bound
      /\ sup_bound <= inf_bound /\ inf_bound <= NbRay
      /\ \A x \in 0 .. equal_bound - 1 : Ray[x][0] = 0
      /\ \A x \in equal_bound .. sup_bound - 1 : Ray[x][0] > 0
      /\ \A x \in inf_bound .. NbRay - 1 : Ray[x][0] < 0
  BY <1>1 DEF InPhase
<1> QED BY <1>2, <1>3, <1>4, <1>5, <1>6

\* Setting the bit of constraint k in the saturation row of a ray.
LEMMA BitSet ==
  ASSUME ChernikovaInv, NEW r
  PROVE  BitsOf(Unsaturated(r, Mat, Before) \cup {}) \cup {Bit}
           = BitsOf(Unsaturated(r, Mat, Before) \cup {k})
<1>1. Bit = BitAt(k)
  BY RowsKnown DEF ChernikovaInv
<1> QED BY <1>1 DEF BitsOf

\* Every step of RaySort: a row sent to its tier has its bit set, once.
LEMMA SortingStep ==
  ASSUME ChernikovaInv, Sort
  PROVE  ChernikovaInv'
<1>0. /\ pc = "sort" /\ pc' = "sort" /\ Scanning
      /\ UNCHANGED <<Mat, k, dual, NbBid, NbRay, NbMaxRays, jx, bx, pair>>
  BY DEF Sort, SortStep, Satisfy, Verify, Violate
<1>1. /\ NbBid \in Nat /\ NbRay \in Nat /\ equal_bound \in Int /\ sup_bound \in Int
      /\ inf_bound \in Int /\ NbBid <= equal_bound /\ equal_bound <= sup_bound
      /\ sup_bound < inf_bound /\ inf_bound <= NbRay
      /\ DOMAIN Ray = 0 .. NbRay - 1 /\ Ray = [x \in 0 .. NbRay - 1 |-> Ray[x]]
      /\ DOMAIN Sat = 0 .. NbRay - 1
  BY <1>0, InSort DEF Scanning
<1>2. /\ \A x \in 0 .. NbRay - 1 : Ray[x][0] \in Int
      /\ \A x \in 0 .. equal_bound - 1 : Ray[x][0] = 0
      /\ \A x \in equal_bound .. sup_bound - 1 : Ray[x][0] > 0
      /\ \A x \in inf_bound .. NbRay - 1 : Ray[x][0] < 0
  BY <1>0, InSort
<1>3. \A x \in 0 .. NbRay - 1 :
        /\ Sat[x] = BitsOf(Unsaturated(Ray[x], Mat, Before) \cup Marks(x))
        /\ Marks(x) = IF Ray[x][0] # 0 /\ (x < sup_bound \/ x >= inf_bound) THEN {k} ELSE {}
  BY <1>0, InSort
<1>4. \A x : Marks(x)' = IF Ray'[x][0] # 0 /\ (x < sup_bound' \/ x >= inf_bound') THEN {k} ELSE {}
  BY <1>0 DEF Marks
<1>5. /\ BitsExact' <=> \A x \in 0 .. NbRay - 1 :
                          Sat'[x] = BitsOf(Unsaturated(Ray'[x], Mat, Before) \cup Marks(x)')
      /\ InPhase' <=> /\ NbBid <= equal_bound' /\ equal_bound' <= sup_bound' /\ sup_bound' <= inf_bound'
                      /\ \A x \in 0 .. equal_bound' - 1 : Ray'[x][0] = 0
                      /\ \A x \in equal_bound' .. sup_bound' - 1 : Ray'[x][0] > 0
                      /\ inf_bound' <= NbRay
                      /\ \A x \in inf_bound' .. NbRay - 1 : Ray'[x][0] < 0
  BY <1>0 DEF BitsExact, InPhase, Before
<1>6. /\ equal_bound \in NbBid .. NbRay - 1 /\ sup_bound \in NbBid .. NbRay - 1
      /\ inf_bound - 1 \in NbBid .. NbRay - 1
      /\ equal_bound \in 0 .. NbRay - 1 /\ sup_bound \in 0 .. NbRay - 1
      /\ inf_bound - 1 \in 0 .. NbRay - 1
      /\ equal_bound + 1 \in Int /\ sup_bound + 1 \in Int /\ inf_bound - 1 \in Int
  BY <1>1
<1>7. Ray \in [0 .. NbRay - 1 -> IntRow] /\ NbRay \in Int
  BY DEF ChernikovaInv, ChernikovaTyped
<1>8. CASE Satisfy
  <2> DEFINE from(x) == Swapped(x, equal_bound, sup_bound)
  <2>1. /\ Ray[sup_bound][0] = 0
        /\ equal_bound' = equal_bound + 1 /\ sup_bound' = sup_bound + 1 /\ inf_bound' = inf_bound
        /\ Ray' = Exchange(Ray, equal_bound, sup_bound)
        /\ Sat' = BExchange(Sat, equal_bound, sup_bound)
    BY <1>8 DEF Satisfy
  <2>2. /\ Ray' \in [0 .. NbRay - 1 -> IntRow] /\ DOMAIN Sat' = 0 .. NbRay - 1
        /\ \A x \in 0 .. NbRay - 1 : Ray'[x] = Ray[from(x)] /\ Sat'[x] = Sat[from(x)]
    <3> DEFINE N == 0 .. NbRay - 1
    <3>1. DOMAIN Ray = N /\ Ray \in [N -> IntRow] /\ DOMAIN Sat = N /\ equal_bound \in N /\ sup_bound \in N
      BY <1>1, <1>6, <1>7
    <3> HIDE DEF N
    <3>2. Ray' \in [N -> IntRow]
      BY <2>1, <3>1, ExchangedType
    <3>4. ASSUME NEW x \in N PROVE Ray'[x] = Ray[from(x)]
      BY <2>1, <3>1, ExchangedRows
    <3>3. ASSUME NEW x \in N PROVE DOMAIN Sat' = N /\ Sat'[x] = Sat[from(x)]
      <4>1. DOMAIN Exchange(Sat, equal_bound, sup_bound) = N /\ Exchange(Sat, equal_bound, sup_bound)[x] = Sat[from(x)]
        BY <3>1, ExchangedRows
      <4>2. Sat' = Exchange(Sat, equal_bound, sup_bound)
        BY <2>1 DEF Exchange, BExchange
      <4> QED BY <4>1, <4>2
    <3> QED BY <3>1, <3>2, <3>3, <3>4 DEF N
  <2>3. ChernikovaTyped' /\ Verified' /\ StatusExact'
    BY <1>0, <1>1, <1>6, <2>1, <2>2, RowsExchanged
  <2>4. ASSUME NEW x \in 0 .. NbRay - 1
        PROVE  Sat'[x] = BitsOf(Unsaturated(Ray'[x], Mat, Before) \cup Marks(x)')
    <3>1. CASE x = equal_bound
      <4>1. from(x) = sup_bound
        BY <3>1 DEF Swapped
      <4>2. Ray'[x] = Ray[sup_bound] /\ Sat'[x] = Sat[sup_bound]
        BY <2>2, <4>1
      <4>3. Marks(x)' = {} /\ Marks(sup_bound) = {}
        BY <1>3, <1>4, <1>6, <2>1, <4>2
      <4> QED BY <1>3, <1>6, <4>2, <4>3
    <3>2. CASE x # equal_bound /\ x = sup_bound
      <4>1. from(x) = equal_bound
        BY <3>2 DEF Swapped
      <4>2. Ray'[x] = Ray[equal_bound] /\ Sat'[x] = Sat[equal_bound]
        BY <2>2, <4>1
      <4>3. x < sup_bound' /\ equal_bound < sup_bound
        BY <1>1, <2>1, <3>2
      <4>4. Marks(x)' = Marks(equal_bound)
        BY <1>3, <1>4, <1>6, <4>2, <4>3
      <4> QED BY <1>3, <1>6, <4>2, <4>4
    <3>3. CASE x # equal_bound /\ x # sup_bound
      <4>1. from(x) = x
        BY <3>3 DEF Swapped
      <4>2. Ray'[x] = Ray[x] /\ Sat'[x] = Sat[x]
        BY <2>2, <4>1
      <4>3. x < sup_bound' <=> x < sup_bound
        BY <1>1, <2>1, <3>3
      <4>4. Marks(x)' = Marks(x)
        BY <1>3, <1>4, <2>1, <4>2, <4>3
      <4> QED BY <1>3, <4>2, <4>4
    <3> QED BY <3>1, <3>2, <3>3
  <2>5. \A x \in 0 .. equal_bound' - 1 : Ray'[x][0] = 0
    <3>1. ASSUME NEW x \in 0 .. equal_bound PROVE Ray'[x][0] = 0
      <4>1. x \in 0 .. NbRay - 1 /\ (x = equal_bound \/ x \in 0 .. equal_bound - 1)
        BY <1>1
      <4>2. from(x) = sup_bound \/ (from(x) = x /\ x \in 0 .. equal_bound - 1)
        BY <1>1, <4>1 DEF Swapped
      <4> QED BY <1>2, <2>1, <2>2, <4>1, <4>2
    <3>2. \A x \in 0 .. equal_bound' - 1 : x \in 0 .. equal_bound
      BY <1>1, <2>1
    <3> QED BY <3>1, <3>2
  <2>6. \A x \in equal_bound' .. sup_bound' - 1 : Ray'[x][0] > 0
    <3>1. ASSUME NEW x \in equal_bound + 1 .. sup_bound PROVE Ray'[x][0] > 0
      <4>1. x \in 0 .. NbRay - 1
        BY <1>1
      <4>2. from(x) \in equal_bound .. sup_bound - 1
        BY <1>1 DEF Swapped
      <4> QED BY <1>2, <2>2, <4>1, <4>2
    <3>2. \A x \in equal_bound' .. sup_bound' - 1 : x \in equal_bound + 1 .. sup_bound
      BY <1>1, <2>1
    <3> QED BY <3>1, <3>2
  <2>7. \A x \in inf_bound' .. NbRay - 1 : Ray'[x][0] < 0
    <3>1. ASSUME NEW x \in inf_bound .. NbRay - 1 PROVE Ray'[x][0] < 0
      <4>1. x \in 0 .. NbRay - 1 /\ from(x) = x
        BY <1>1 DEF Swapped
      <4> QED BY <1>2, <2>2, <4>1
    <3> QED BY <2>1, <3>1
  <2>8. NbBid <= equal_bound' /\ equal_bound' <= sup_bound' /\ sup_bound' <= inf_bound' /\ inf_bound' <= NbRay
    BY <1>1, <2>1
  <2> QED BY <1>5, <2>3, <2>4, <2>5, <2>6, <2>7, <2>8 DEF ChernikovaInv
<1>9. CASE Verify
  <2>1. /\ Ray[sup_bound][0] > 0 /\ Ray' = Ray
        /\ equal_bound' = equal_bound /\ sup_bound' = sup_bound + 1 /\ inf_bound' = inf_bound
        /\ Sat' = [Sat EXCEPT ![sup_bound] = @ \cup {Bit}]
    BY <1>9 DEF Verify, Marked
  <2>2. /\ \A x \in 0 .. NbRay - 1 : Ray'[x] = Ray[Swapped(x, sup_bound, sup_bound)]
        /\ DOMAIN Sat' = 0 .. NbRay - 1
    BY <1>1, <2>1 DEF Swapped
  <2>3. ChernikovaTyped' /\ Verified' /\ StatusExact'
    BY <1>0, <1>1, <1>6, <1>7, <2>1, <2>2, RowsExchanged
  <2>4. ASSUME NEW x \in 0 .. NbRay - 1
        PROVE  Sat'[x] = BitsOf(Unsaturated(Ray'[x], Mat, Before) \cup Marks(x)')
    <3>1. CASE x = sup_bound
      <4>1. Sat'[x] = Sat[x] \cup {Bit}
        BY <1>1, <1>6, <2>1, <3>1
      <4>2. Ray'[x][0] # 0 /\ x < sup_bound' /\ ~(x < sup_bound \/ x >= inf_bound)
        BY <1>1, <1>2, <1>6, <2>1, <3>1
      <4>3. Marks(x) = {} /\ Marks(x)' = {k}
        BY <1>3, <1>4, <4>2
      <4> QED BY <1>3, <2>1, <4>1, <4>3, BitSet
    <3>2. CASE x # sup_bound
      <4>1. Sat'[x] = Sat[x]
        BY <1>1, <2>1, <3>2
      <4>2. x < sup_bound' <=> x < sup_bound
        BY <1>1, <2>1, <3>2
      <4>3. Marks(x) = Marks(x)'
        BY <1>3, <1>4, <2>1, <4>2
      <4> QED BY <1>3, <2>1, <4>1, <4>3
    <3> QED BY <3>1, <3>2
  <2>5. \A x \in equal_bound' .. sup_bound' - 1 : Ray'[x][0] > 0
    <3>1. \A x \in equal_bound' .. sup_bound' - 1 : x = sup_bound \/ x \in equal_bound .. sup_bound - 1
      BY <1>1, <2>1
    <3> QED BY <1>2, <2>1, <3>1
  <2>6. NbBid <= equal_bound' /\ equal_bound' <= sup_bound' /\ sup_bound' <= inf_bound' /\ inf_bound' <= NbRay
    BY <1>1, <2>1
  <2>7. InPhase'
    BY <1>2, <1>5, <2>1, <2>5, <2>6
  <2> QED BY <1>5, <2>3, <2>4, <2>7 DEF ChernikovaInv
<1>10. CASE Violate
  <2> DEFINE last == inf_bound - 1
             from(x) == Swapped(x, last, sup_bound)
             marked == [Sat EXCEPT ![sup_bound] = @ \cup {Bit}]
  <2>0. /\ DOMAIN marked = 0 .. NbRay - 1
        /\ \A x \in 0 .. NbRay - 1 : marked[x] = IF x = sup_bound THEN Sat[x] \cup {Bit} ELSE Sat[x]
    BY <1>1
  <2>1. /\ Ray[sup_bound][0] < 0
        /\ equal_bound' = equal_bound /\ sup_bound' = sup_bound /\ inf_bound' = last
        /\ Ray' = Exchange(Ray, last, sup_bound) /\ Sat' = BExchange(marked, last, sup_bound)
    BY <1>10 DEF Violate, Marked
  <2> HIDE DEF marked
  <2>2. /\ Ray' \in [0 .. NbRay - 1 -> IntRow] /\ DOMAIN Sat' = 0 .. NbRay - 1
        /\ \A x \in 0 .. NbRay - 1 : Ray'[x] = Ray[from(x)] /\ Sat'[x] = marked[from(x)]
    <3> DEFINE N == 0 .. NbRay - 1
    <3>1. DOMAIN Ray = N /\ Ray \in [N -> IntRow] /\ DOMAIN marked = N /\ last \in N /\ sup_bound \in N
      BY <1>1, <1>6, <1>7, <2>0
    <3> HIDE DEF N
    <3>2. Ray' \in [N -> IntRow]
      BY <2>1, <3>1, ExchangedType
    <3>4. ASSUME NEW x \in N PROVE Ray'[x] = Ray[from(x)]
      BY <2>1, <3>1, ExchangedRows
    <3>3. ASSUME NEW x \in N PROVE DOMAIN Sat' = N /\ Sat'[x] = marked[from(x)]
      <4>1. DOMAIN Exchange(marked, last, sup_bound) = N /\ Exchange(marked, last, sup_bound)[x] = marked[from(x)]
        BY <3>1, ExchangedRows
      <4>2. Sat' = Exchange(marked, last, sup_bound)
        BY <2>1 DEF Exchange, BExchange
      <4> QED BY <4>1, <4>2
    <3> QED BY <3>1, <3>2, <3>3, <3>4 DEF N
  <2>3. ChernikovaTyped' /\ Verified' /\ StatusExact'
    BY <1>0, <1>1, <1>6, <2>1, <2>2, RowsExchanged
  <2>4. last \in Int /\ sup_bound <= last /\ last < inf_bound /\ last \in 0 .. NbRay - 1
    BY <1>1
  <2> HIDE DEF last
  <2>5. ASSUME NEW x \in 0 .. NbRay - 1
        PROVE  Sat'[x] = BitsOf(Unsaturated(Ray'[x], Mat, Before) \cup Marks(x)')
    <3>1. CASE x = last
      <4>1. from(x) = sup_bound
        BY <3>1 DEF Swapped
      <4>2. Ray'[x] = Ray[sup_bound] /\ Sat'[x] = Sat[sup_bound] \cup {Bit}
        BY <1>6, <2>0, <2>2, <4>1
      <4>3. Ray'[x][0] # 0 /\ x >= inf_bound' /\ ~(sup_bound < sup_bound \/ sup_bound >= inf_bound)
        <5>1. Ray'[x][0] # 0
          <6>1. Ray[sup_bound] \in IntRow /\ 0 \in 0..Dimension
            BY <1>6, <1>7, DimensionAssumption
          <6>2. Ray[sup_bound][0] \in Int
            BY <6>1 DEF IntRow
          <6> QED BY <2>1, <4>2, <6>2
        <5>2. x >= inf_bound'
          BY <2>1, <2>4, <3>1
        <5>3. ~(sup_bound < sup_bound \/ sup_bound >= inf_bound)
          BY <1>1, <2>4
        <5> QED BY <5>1, <5>2, <5>3
      <4>4. Marks(sup_bound) = {} /\ Marks(x)' = {k}
        BY <1>3, <1>4, <1>6, <4>3
      <4> QED BY <1>3, <1>6, <4>2, <4>4, BitSet
    <3>2. CASE x # last /\ x = sup_bound
      <4>1. from(x) = last
        BY <3>2 DEF Swapped
      <4>2. Ray'[x] = Ray[last] /\ Sat'[x] = Sat[last]
        BY <2>0, <2>2, <2>4, <3>2, <4>1
      <4>3. ~(last < sup_bound \/ last >= inf_bound) /\ ~(x < sup_bound' \/ x >= inf_bound')
        BY <1>1, <2>1, <2>4, <3>2
      <4>4. Marks(last) = {} /\ Marks(x)' = {}
        BY <1>3, <1>4, <2>4, <4>3
      <4> QED BY <1>3, <2>4, <4>2, <4>4
    <3>3. CASE x # last /\ x # sup_bound
      <4>1. from(x) = x
        BY <3>3 DEF Swapped
      <4>2. Ray'[x] = Ray[x] /\ Sat'[x] = Sat[x]
        BY <2>0, <2>2, <3>3, <4>1
      <4>3. x >= inf_bound' <=> x >= inf_bound
        BY <1>1, <2>1, <3>3 DEF last
      <4>4. Marks(x)' = Marks(x)
        BY <1>3, <1>4, <2>1, <4>2, <4>3
      <4> QED BY <1>3, <4>2, <4>4
    <3> QED BY <3>1, <3>2, <3>3
  <2>6. \A x \in 0 .. sup_bound - 1 : x \in 0 .. NbRay - 1 /\ Ray'[x] = Ray[x]
    <3>1. ASSUME NEW x \in 0 .. sup_bound - 1 PROVE x \in 0 .. NbRay - 1 /\ from(x) = x
      BY <1>1, <2>4 DEF Swapped
    <3> QED BY <2>2, <3>1
  <2>7. \A x \in inf_bound' .. NbRay - 1 : Ray'[x][0] < 0
    <3>1. ASSUME NEW x \in last .. NbRay - 1 PROVE Ray'[x][0] < 0
      <4>1. x \in 0 .. NbRay - 1 /\ (from(x) = sup_bound \/ (from(x) = x /\ x \in inf_bound .. NbRay - 1))
        <5>1. x = last \/ x \in inf_bound .. NbRay - 1
          BY <1>1, <2>4 DEF last
        <5>2. x \in inf_bound .. NbRay - 1 => x # last /\ x # sup_bound
          BY <1>1, <2>4
        <5>3. x \in 0 .. NbRay - 1
          BY <1>1, <2>4
        <5> QED BY <5>1, <5>2, <5>3 DEF Swapped
      <4> QED BY <1>2, <2>1, <2>2, <4>1
    <3> QED BY <2>1, <3>1
  <2>8. \A x \in 0 .. equal_bound - 1 : x \in 0 .. sup_bound - 1
    BY <1>1
  <2>9. \A x \in equal_bound .. sup_bound - 1 : x \in 0 .. sup_bound - 1
    BY <1>1
  <2>10. NbBid <= equal_bound' /\ equal_bound' <= sup_bound' /\ sup_bound' <= inf_bound' /\ inf_bound' <= NbRay
    BY <1>1, <2>1, <2>4
  <2>11. InPhase'
    BY <1>2, <1>5, <2>1, <2>6, <2>7, <2>8, <2>9, <2>10
  <2> QED BY <1>5, <2>3, <2>5, <2>11 DEF ChernikovaInv
<1> QED BY <1>8, <1>9, <1>10 DEF Sort, SortStep
-----------------------------------------------------------------------------

\* The sort has ended: the three tiers cover the rays.
LEMMA StartPairsStep ==
  ASSUME ChernikovaInv, StartPairs
  PROVE  ChernikovaInv'
<1>1. /\ pc = "sort" /\ pc' = "pairs" /\ ~(sup_bound < inf_bound)
      /\ i' = equal_bound /\ j' = sup_bound /\ bound' = NbRay
      /\ UNCHANGED <<Mat, k, dual, Ray, Sat, NbBid, NbRay, NbMaxRays, jx, bx,
                     equal_bound, sup_bound, inf_bound>>
  BY DEF StartPairs, Scanning, bounds
<1>2. /\ NbBid \in Nat /\ NbRay \in Nat /\ equal_bound \in Int /\ sup_bound \in Int
      /\ inf_bound = sup_bound /\ NbBid <= equal_bound /\ equal_bound <= sup_bound
      /\ sup_bound <= NbRay
  BY <1>1, InSort
<1>3. /\ \A x \in 0 .. equal_bound - 1 : Ray[x][0] = 0
      /\ \A x \in equal_bound .. sup_bound - 1 : Ray[x][0] > 0
      /\ \A x \in sup_bound .. NbRay - 1 : Ray[x][0] < 0
      /\ \A x \in 0 .. NbRay - 1 :
           /\ Sat[x] = BitsOf(Unsaturated(Ray[x], Mat, Before) \cup Marks(x))
           /\ Marks(x) = IF Ray[x][0] # 0 /\ (x < sup_bound \/ x >= inf_bound) THEN {k} ELSE {}
  BY <1>1, <1>2, InSort
<1>4. ChernikovaTyped'
  <2>1. NbConstraints' = NbConstraints
    BY <1>1 DEF NbConstraints
  <2> QED BY <1>1, <1>2, <2>1 DEF ChernikovaInv, ChernikovaTyped
<1>5. Before' = Before
  BY <1>1 DEF Before
<1>6. Verified' /\ StatusExact'
  BY <1>1, <1>5 DEF ChernikovaInv, Verified, StatusExact
<1>7. ASSUME NEW x \in 0 .. NbRay - 1 PROVE Marks(x)' = Marks(x)
  <2>1. x < sup_bound \/ x >= inf_bound
    BY <1>2
  <2>2. Marks(x)' = IF Ray[x][0] # 0 THEN {k} ELSE {}
    BY <1>1 DEF Marks
  <2> QED BY <1>3, <2>1, <2>2
<1>8. BitsExact'
  BY <1>1, <1>3, <1>5, <1>7 DEF BitsExact
<1>9. InPhase'
  <2>1. \A x \in bound' .. NbRay - 1 : FALSE
    BY <1>1, <1>2
  <2>2. sup_bound <= bound' /\ bound' <= NbRay /\ equal_bound <= i' /\ sup_bound <= j'
    BY <1>1, <1>2
  <2>3. \A x \in sup_bound .. bound' - 1 : Ray[x][0] < 0
    BY <1>1, <1>3
  <2>4. sup_bound <= inf_bound
    BY <1>2
  <2> QED BY <1>1, <1>2, <1>3, <2>1, <2>2, <2>3, <2>4 DEF InPhase
<1> QED BY <1>4, <1>6, <1>8, <1>9 DEF ChernikovaInv

\* What holds while the pairs are examined.
LEMMA InPairsFacts ==
  ASSUME ChernikovaInv, pc = "pairs"
  PROVE  /\ NbBid \in Nat /\ NbRay \in Nat /\ equal_bound \in Int /\ sup_bound \in Int
         /\ inf_bound \in Int /\ i \in Int /\ j \in Int /\ bound \in Int /\ dual \in BOOLEAN
         /\ NbMaxRays \in Nat /\ NbRay <= NbMaxRays
         /\ NbBid <= equal_bound /\ equal_bound <= sup_bound /\ sup_bound <= bound
         /\ bound <= NbRay /\ equal_bound <= i /\ sup_bound <= j
         /\ DOMAIN Ray = 0 .. NbRay - 1 /\ DOMAIN Sat = 0 .. NbRay - 1
         /\ \A x \in 0 .. NbRay - 1 :
              /\ Ray[x] \in IntRow /\ Ray[x][0] = InnerProduct(Ray[x], Mat[k])
              /\ Sat[x] = BitsOf(Unsaturated(Ray[x], Mat, Before) \cup NewMark(Ray[x]))
              /\ NewMark(Ray[x]) = Marks(x)
         /\ \A x \in 0 .. equal_bound - 1 : Ray[x][0] = 0
         /\ \A x \in equal_bound .. sup_bound - 1 : Ray[x][0] > 0
         /\ \A x \in sup_bound .. bound - 1 : Ray[x][0] < 0
         /\ \A x \in bound .. NbRay - 1 : Ray[x][0] = 0
<1>1. /\ NbBid \in Nat /\ NbRay \in Nat /\ equal_bound \in Int /\ sup_bound \in Int
      /\ inf_bound \in Int /\ i \in Int /\ j \in Int /\ bound \in Int /\ dual \in BOOLEAN
      /\ NbMaxRays \in Nat /\ NbRay <= NbMaxRays
      /\ DOMAIN Ray = 0 .. NbRay - 1 /\ DOMAIN Sat = 0 .. NbRay - 1
      /\ \A x \in 0 .. NbRay - 1 : Ray[x] \in IntRow
  BY DEF ChernikovaInv, ChernikovaTyped
<1>2. \A x \in 0 .. NbRay - 1 :
        /\ Ray[x][0] = InnerProduct(Ray[x], Mat[k])
        /\ Sat[x] = BitsOf(Unsaturated(Ray[x], Mat, Before) \cup Marks(x))
        /\ NewMark(Ray[x]) = Marks(x)
  BY DEF ChernikovaInv, StatusExact, BitsExact, Marks, NewMark
<1>3. /\ NbBid <= equal_bound /\ equal_bound <= sup_bound /\ sup_bound <= bound
      /\ bound <= NbRay /\ equal_bound <= i /\ sup_bound <= j
      /\ \A x \in 0 .. equal_bound - 1 : Ray[x][0] = 0
      /\ \A x \in equal_bound .. sup_bound - 1 : Ray[x][0] > 0
      /\ \A x \in sup_bound .. bound - 1 : Ray[x][0] < 0
      /\ \A x \in bound .. NbRay - 1 : Ray[x][0] = 0
  BY DEF ChernikovaInv, InPhase
<1> QED BY <1>1, <1>2, <1>3

\* The next pair is still in R+ and beyond.
LEMMA NextPairKeeps ==
  ASSUME ChernikovaInv, pc = "pairs", NextPair
  PROVE  i' \in Int /\ j' \in Int /\ equal_bound <= i' /\ sup_bound <= j' /\ bound' = bound
<1>1. /\ equal_bound \in Int /\ sup_bound \in Int /\ i \in Int /\ j \in Int
      /\ equal_bound <= i /\ sup_bound <= j
  BY InPairsFacts
<1>2. (i' = i \/ i' = i + 1) /\ (j' = j + 1 \/ j' = sup_bound) /\ bound' = bound
  BY DEF NextPair
<1> QED BY <1>1, <1>2

\* A pair that is not adjacent changes nothing.
LEMMA SkipPairStep ==
  ASSUME ChernikovaInv, SkipPair
  PROVE  ChernikovaInv'
<1>1. /\ pc = "pairs" /\ NextPair
      /\ UNCHANGED <<pc, Mat, k, dual, Ray, Sat, NbBid, NbRay, NbMaxRays, jx, bx,
                     equal_bound, sup_bound, inf_bound>>
  BY DEF SkipPair, InPairs, bounds
<1>2. i' \in Int /\ j' \in Int /\ equal_bound <= i' /\ sup_bound <= j' /\ bound' = bound
  BY <1>1, NextPairKeeps
<1>3. NbConstraints' = NbConstraints /\ Before' = Before /\ \A x : Marks(x)' = Marks(x)
  BY <1>1 DEF NbConstraints, Before, Marks
<1>4. ChernikovaTyped'
  BY <1>1, <1>2, <1>3 DEF ChernikovaInv, ChernikovaTyped
<1>5. Verified' /\ StatusExact' /\ BitsExact'
  BY <1>1, <1>3 DEF ChernikovaInv, Verified, StatusExact, BitsExact
<1>6. InPhase'
  BY <1>1, <1>2 DEF ChernikovaInv, InPhase
<1> QED BY <1>4, <1>5, <1>6 DEF ChernikovaInv

\* An adjacent pair: the new ray saturates the constraint, verifies the others,
\* and the union of the bits without that of k is exact; there is room for it.
LEMMA AddRayStep ==
  ASSUME ChernikovaInv, AddRay
  PROVE  ChernikovaInv'
<1> DEFINE zero == [c \in 0..Dimension |-> 0]
           r == Combine(Ray[j], Ray[i], zero, 0)
<1>1. /\ pc = "pairs" /\ i < sup_bound /\ j < bound /\ NextPair /\ Enlarge
      /\ Ray' = WithRow(Ray, NbRay, r) /\ Sat' = WithRow(Sat, NbRay, CombinedSat(j, i))
      /\ NbRay' = NbRay + 1
      /\ UNCHANGED <<pc, Mat, k, dual, NbBid, jx, bx, equal_bound, sup_bound, inf_bound>>
  BY DEF AddRay, InPairs, bounds
<1>2. i' \in Int /\ j' \in Int /\ equal_bound <= i' /\ sup_bound <= j' /\ bound' = bound
  BY <1>1, NextPairKeeps
<1>3. /\ NbBid \in Nat /\ NbRay \in Nat /\ equal_bound \in Int /\ sup_bound \in Int
      /\ i \in Int /\ j \in Int /\ bound \in Int /\ dual \in BOOLEAN
      /\ NbMaxRays \in Nat /\ NbRay <= NbMaxRays
      /\ NbBid <= equal_bound /\ equal_bound <= sup_bound /\ sup_bound <= bound
      /\ bound <= NbRay /\ equal_bound <= i /\ sup_bound <= j
      /\ DOMAIN Ray = 0 .. NbRay - 1 /\ DOMAIN Sat = 0 .. NbRay - 1
  BY <1>1, InPairsFacts
<1>4. /\ \A x \in 0 .. NbRay - 1 :
           /\ Ray[x] \in IntRow /\ Ray[x][0] = InnerProduct(Ray[x], Mat[k])
           /\ Sat[x] = BitsOf(Unsaturated(Ray[x], Mat, Before) \cup NewMark(Ray[x]))
           /\ NewMark(Ray[x]) = Marks(x)
      /\ \A x \in equal_bound .. sup_bound - 1 : Ray[x][0] > 0
      /\ \A x \in sup_bound .. bound - 1 : Ray[x][0] < 0
      /\ \A x \in bound .. NbRay - 1 : Ray[x][0] = 0
  BY <1>1, InPairsFacts
<1>5. /\ i \in 0 .. NbRay - 1 /\ j \in 0 .. NbRay - 1 /\ Ray[i][0] > 0 /\ Ray[j][0] < 0
      /\ i \in NbBid .. NbRay - 1 /\ j \in NbBid .. NbRay - 1
  <2>1. i \in equal_bound .. sup_bound - 1 /\ j \in sup_bound .. bound - 1
    BY <1>1, <1>3
  <2>2. /\ i \in 0 .. NbRay - 1 /\ j \in 0 .. NbRay - 1
        /\ i \in NbBid .. NbRay - 1 /\ j \in NbBid .. NbRay - 1
    BY <1>1, <1>3
  <2> QED BY <1>4, <2>1, <2>2
<1>6. /\ HasRows(Mat, Before) /\ Before \subseteq Int /\ k \notin Before /\ k \in Nat
      /\ Mat[k] \in IntRow /\ Bit = BitAt(k)
  BY <1>1, RowsKnown DEF ChernikovaInv
<1>7. zero \in IntRow /\ zero[0] = 0
  BY DimensionAssumption DEF IntRow
<1> HIDE DEF zero
<1>8. /\ InCone(Ray[i], Mat, Before, dual) /\ InCone(Ray[j], Mat, Before, dual)
      /\ Ray[i] \in IntRow /\ Ray[j] \in IntRow /\ Ray[i][0] # 0
      /\ Ray[i][0] = InnerProduct(Ray[i], Mat[k]) /\ Ray[j][0] = InnerProduct(Ray[j], Mat[k])
  <2>1. Ray[i][0] \in Int /\ Ray[i] \in IntRow /\ Ray[j] \in IntRow
    BY <1>4, <1>5, LastInt
  <2>2. Ray[i][0] # 0
    BY <1>5, <2>1
  <2> QED BY <1>4, <1>5, <2>1, <2>2 DEF ChernikovaInv, Verified
<1>9. r \in IntRow /\ r[0] = 0
  BY <1>7, <1>8, CombineWeighs
<1>10. /\ InCone(r, Mat, Before, dual)
       /\ Unsaturated(r, Mat, Before) = Unsaturated(Ray[j], Mat, Before) \cup Unsaturated(Ray[i], Mat, Before)
  BY <1>3, <1>5, <1>6, <1>7, <1>8, RaysCombined
<1>11. InnerProduct(r, Mat[k]) = 0 /\ NewMark(r) = {}
  <2>1. InnerProduct(r, Mat[k]) = 0
    BY <1>6, <1>7, <1>8, CombinedOnHyperplane
  <2> QED BY <2>1 DEF NewMark
<1> HIDE DEF r
<1>12. CombinedSat(j, i) = BitsOf(Unsaturated(r, Mat, Before) \cup NewMark(r))
  <2> DEFINE U == Unsaturated(Ray[j], Mat, Before)
             V == Unsaturated(Ray[i], Mat, Before)
  <2>1. U \subseteq Int /\ V \subseteq Int /\ k \notin U \cup V /\ U \cup V \subseteq Int
    BY <1>6 DEF Unsaturated
  <2>2. NewMark(Ray[i]) = {k} /\ NewMark(Ray[j]) = {k}
    <3>1. Ray[j][0] \in Int
      BY <1>8, LastInt
    <3> QED BY <1>5, <1>8, <3>1 DEF NewMark
  <2> HIDE DEF U, V
  <2>3. Sat[j] = BitsOf(U \cup {k}) /\ Sat[i] = BitsOf(V \cup {k})
    BY <1>4, <1>5, <2>2 DEF U, V
  <2>4. Sat[j] \cup Sat[i] = BitsOf((U \cup V) \cup {k})
    BY <2>3 DEF BitsOf
  <2>5. k \in Int
    BY <1>6
  <2>6. BitsOf((U \cup V) \cup {k}) \ {BitAt(k)} = BitsOf(U \cup V)
    BY <2>1, <2>5, BitsOfLess
  <2>7. Unsaturated(r, Mat, Before) \cup NewMark(r) = U \cup V
    BY <1>10, <1>11 DEF U, V
  <2> QED BY <1>6, <2>4, <2>6, <2>7 DEF CombinedSat
<1>13. /\ Ray' \in [0 .. NbRay -> IntRow] /\ DOMAIN Sat' = 0 .. NbRay
       /\ Ray'[NbRay] = r /\ Sat'[NbRay] = CombinedSat(j, i)
       /\ \A x \in 0 .. NbRay - 1 : Ray'[x] = Ray[x] /\ Sat'[x] = Sat[x]
  <2>1. 0 .. NbRay = (0 .. NbRay - 1) \cup {NbRay}
    BY <1>3
  <2>2. /\ Ray' = [x \in 0 .. NbRay |-> IF x = NbRay THEN r ELSE Ray[x]]
        /\ Sat' = [x \in 0 .. NbRay |-> IF x = NbRay THEN CombinedSat(j, i) ELSE Sat[x]]
    BY <1>1, <1>3, <2>1 DEF WithRow
  <2>3. \A x \in 0 .. NbRay - 1 : x \in 0 .. NbRay /\ x # NbRay
    BY <1>3
  <2>4. NbRay \in 0 .. NbRay
    BY <1>3
  <2>5. Ray' \in [0 .. NbRay -> IntRow]
    BY <1>4, <1>9, <2>1, <2>2
  <2> QED BY <2>2, <2>3, <2>4, <2>5
<1>14. /\ NbRay' - 1 = NbRay /\ NbRay' \in Nat /\ NbBid \in 0 .. NbRay'
       /\ \A x \in 0 .. NbRay : x = NbRay \/ x \in 0 .. NbRay - 1
  BY <1>1, <1>3
<1>15. NbMaxRays' \in Nat /\ NbRay' <= NbMaxRays'
  <2>1. NbMaxRays' = IF NbRay = NbMaxRays THEN 2 * NbMaxRays ELSE NbMaxRays
    BY <1>1 DEF Enlarge
  <2>2. NbRay >= 1
    BY <1>3, <1>5
  <2> QED BY <1>1, <1>3, <2>1, <2>2
<1>16. NbConstraints' = NbConstraints /\ Before' = Before
  BY <1>1 DEF NbConstraints, Before
<1>17. ChernikovaTyped'
  BY <1>1, <1>2, <1>3, <1>13, <1>14, <1>15, <1>16 DEF ChernikovaInv, ChernikovaTyped
<1>18. Verified'
  <2>1. \A x \in 0 .. NbBid - 1 : x \in 0 .. NbRay - 1
    BY <1>3
  <2>2. \A x \in NbBid .. NbRay : x = NbRay \/ (x \in NbBid .. NbRay - 1 /\ x \in 0 .. NbRay - 1)
    BY <1>3
  <2> QED BY <1>1, <1>10, <1>13, <1>14, <1>16, <2>1, <2>2 DEF ChernikovaInv, Verified
<1>19. ASSUME NEW x \in 0 .. NbRay
       PROVE  /\ Ray'[x][0] = InnerProduct(Ray'[x], Mat[k])
              /\ Sat'[x] = BitsOf(Unsaturated(Ray'[x], Mat, Before) \cup NewMark(Ray'[x]))
              /\ Marks(x)' = NewMark(Ray'[x])
  <2>1. CASE x = NbRay
    <3>1. Ray'[x] = r /\ Sat'[x] = BitsOf(Unsaturated(r, Mat, Before) \cup NewMark(r))
      BY <1>12, <1>13, <2>1
    <3>2. Marks(x)' = {}
      BY <1>1, <1>9, <3>1 DEF Marks
    <3> QED BY <1>9, <1>11, <3>1, <3>2
  <2>2. CASE x \in 0 .. NbRay - 1
    <3>1. Ray'[x] = Ray[x] /\ Sat'[x] = Sat[x]
      BY <1>13, <2>2
    <3>2. Marks(x)' = IF Ray[x][0] # 0 THEN {k} ELSE {}
      BY <1>1, <3>1 DEF Marks
    <3>3. Ray[x][0] = InnerProduct(Ray[x], Mat[k])
          /\ Sat[x] = BitsOf(Unsaturated(Ray[x], Mat, Before) \cup NewMark(Ray[x]))
      BY <1>4, <2>2
    <3> QED BY <3>1, <3>2, <3>3 DEF NewMark
  <2> QED BY <1>14, <2>1, <2>2
<1>20. StatusExact' /\ BitsExact'
  <2>1. NbRay' - 1 = NbRay /\ Mat' = Mat /\ k' = k
    BY <1>1, <1>14
  <2> QED BY <1>16, <1>19, <2>1 DEF StatusExact, BitsExact
<1>21. InPhase'
  <2>1. /\ \A x \in 0 .. equal_bound - 1 : Ray[x][0] = 0 /\ x \in 0 .. NbRay - 1
        /\ sup_bound <= inf_bound
    <3>1. \A x \in 0 .. equal_bound - 1 : Ray[x][0] = 0
      BY <1>1, InPairsFacts
    <3>2. \A x \in 0 .. equal_bound - 1 : x \in 0 .. NbRay - 1
      BY <1>3
    <3> QED BY <1>1, <3>1, <3>2 DEF ChernikovaInv, InPhase
  <2>2. \A x \in equal_bound .. sup_bound - 1 : x \in 0 .. NbRay - 1
    BY <1>3
  <2>3. \A x \in sup_bound .. bound - 1 : x \in 0 .. NbRay - 1
    BY <1>3
  <2>4. \A x \in bound .. NbRay : x = NbRay \/ (x \in 0 .. NbRay - 1 /\ x \in bound .. NbRay - 1)
    BY <1>3
  <2>5. bound <= NbRay'
    BY <1>1, <1>3
  <2>6. \A x \in bound .. NbRay : Ray'[x][0] = 0
    BY <1>4, <1>9, <1>13, <2>4
  <2>7. /\ \A x \in 0 .. equal_bound - 1 : Ray'[x][0] = 0
        /\ \A x \in equal_bound .. sup_bound - 1 : Ray'[x][0] > 0
        /\ \A x \in sup_bound .. bound - 1 : Ray'[x][0] < 0
    BY <1>4, <1>13, <2>1, <2>2, <2>3
  <2> QED BY <1>1, <1>2, <1>3, <1>14, <2>1, <2>5, <2>6, <2>7 DEF InPhase
<1> QED BY <1>17, <1>18, <1>20, <1>21 DEF ChernikovaInv

\* The row of M that Compacted leaves in row x.
KeptFrom(x, first) ==
  IF x >= first /\ x < first + (IF bound - first < NbRay - bound THEN bound - first ELSE NbRay - bound)
    THEN NbRay - 1 - (x - first) ELSE x

\* The rows of Compacted, and their type.
LEMMA CompactedDomain ==
  ASSUME NbRay \in Int, bound \in Int, NEW M, NEW first \in Int
  PROVE  DOMAIN Compacted(M, first) = 0 .. first + NbRay - bound - 1
BY DEF Compacted

\* The row that takes the place of a ray removed is one of the rays, so that
\* types are kept.
LEMMA CompactedType ==
  ASSUME NEW T, NbRay \in Int, bound \in Int, NEW M, NEW first \in Int,
         \A x \in 0 .. first + NbRay - bound - 1 : Compacted(M, first)[x] \in T
  PROVE  Compacted(M, first) \in [0 .. first + NbRay - bound - 1 -> T]
<1> DEFINE moved == IF bound - first < NbRay - bound THEN bound - first ELSE NbRay - bound
           row(x) == IF x \in first .. first + moved - 1 THEN M[NbRay - 1 - (x - first)] ELSE M[x]
           D == 0 .. first + NbRay - bound - 1
<1>1. Compacted(M, first) = [x \in D |-> row(x)]
  BY DEF Compacted
<1> HIDE DEF row, D
<1>2. (\A x \in D : Compacted(M, first)[x] \in T) => Compacted(M, first) \in [D -> T]
  BY <1>1
<1> QED BY <1>2 DEF D

\* Every row that is left is one of those that stay.
LEMMA CompactedRows ==
  ASSUME NbRay \in Nat, bound \in 0..NbRay, NEW first \in 0..bound, NEW M,
         NEW x \in 0 .. first + NbRay - bound - 1
  PROVE  /\ Compacted(M, first)[x] = M[KeptFrom(x, first)]
         /\ KeptFrom(x, first) \in 0 .. NbRay - 1
         /\ x < first => KeptFrom(x, first) = x
         /\ x >= first => KeptFrom(x, first) \in bound .. NbRay - 1
<1> DEFINE moved == IF bound - first < NbRay - bound THEN bound - first ELSE NbRay - bound
<1>1. /\ moved \in Int /\ moved <= bound - first /\ moved <= NbRay - bound
      /\ moved = bound - first \/ moved = NbRay - bound
      /\ first \in Int /\ x \in Int /\ bound \in Int /\ NbRay \in Int
  OBVIOUS
<1>2. Compacted(M, first)[x] = IF x \in first .. first + moved - 1 THEN M[NbRay - 1 - (x - first)] ELSE M[x]
  BY DEF Compacted
<1>3. KeptFrom(x, first) = IF x >= first /\ x < first + moved THEN NbRay - 1 - (x - first) ELSE x
  BY DEF KeptFrom
<1> HIDE DEF moved
<1>4. x \in first .. first + moved - 1 <=> x >= first /\ x < first + moved
  BY <1>1
<1>5. Compacted(M, first)[x] = M[KeptFrom(x, first)]
  BY <1>2, <1>3, <1>4
<1>6. x < first => KeptFrom(x, first) = x
  BY <1>1, <1>3
<1>7. x >= first => KeptFrom(x, first) \in bound .. NbRay - 1
  BY <1>1, <1>3
<1>8. KeptFrom(x, first) \in 0 .. NbRay - 1
  BY <1>1, <1>6, <1>7
<1> QED BY <1>5, <1>6, <1>7, <1>8

\* The end of the turn for rays: those that do not verify the constraint go.
LEMMA EliminateStep ==
  ASSUME ChernikovaInv, Eliminate
  PROVE  ChernikovaInv'
<1> DEFINE first == FirstDropped
           n == first + NbRay - bound
           from(x) == KeptFrom(x, first)
<1>1. /\ pc = "pairs" /\ pc # "head" /\ Ray' = Compacted(Ray, first) /\ Sat' = Compacted(Sat, first)
      /\ NbRay' = n /\ NextConstraint /\ UNCHANGED <<Mat, dual, NbBid, NbMaxRays, bounds, pair>>
  BY DEF Eliminate
<1>2. /\ NbBid \in Nat /\ NbRay \in Nat /\ equal_bound \in Int /\ sup_bound \in Int
      /\ bound \in Int /\ NbMaxRays \in Nat /\ NbRay <= NbMaxRays
      /\ NbBid <= equal_bound /\ equal_bound <= sup_bound /\ sup_bound <= bound /\ bound <= NbRay
  BY <1>1, InPairsFacts
<1>3. /\ \A x \in 0 .. NbRay - 1 :
           /\ Ray[x] \in IntRow /\ Ray[x][0] = InnerProduct(Ray[x], Mat[k])
           /\ Sat[x] = BitsOf(Unsaturated(Ray[x], Mat, Before) \cup NewMark(Ray[x]))
      /\ \A x \in 0 .. equal_bound - 1 : Ray[x][0] = 0
      /\ \A x \in equal_bound .. sup_bound - 1 : Ray[x][0] > 0
      /\ \A x \in bound .. NbRay - 1 : Ray[x][0] = 0
  BY <1>1, InPairsFacts
<1>4. /\ first \in 0..bound /\ NbBid <= first
      /\ first = equal_bound \/ (first = sup_bound /\ Mat[k][0] # 0)
  BY <1>2 DEF FirstDropped, Equality
<1> HIDE DEF first
<1>5. n \in Nat /\ NbBid \in 0..n /\ n <= NbMaxRays
  BY <1>2, <1>4
<1>6. DOMAIN Ray' = 0 .. n - 1 /\ DOMAIN Sat' = 0 .. n - 1
  <2>1. \A M : DOMAIN Compacted(M, first) = 0 .. n - 1
    <3>1. first \in Int /\ NbRay \in Int /\ bound \in Int
      BY <1>2, <1>4
    <3> QED BY <3>1, CompactedDomain
  <2> QED BY <1>1, <2>1
<1>7. ASSUME NEW x \in 0 .. n - 1
      PROVE  /\ Ray'[x] = Ray[from(x)] /\ Sat'[x] = Sat[from(x)] /\ from(x) \in 0 .. NbRay - 1
             /\ x < first => from(x) = x
             /\ x >= first => from(x) \in bound .. NbRay - 1
  <2>1. bound \in 0..NbRay
    BY <1>2
  <2> QED BY <1>1, <1>2, <1>4, <2>1, CompactedRows
<1>8. Ray' \in [0 .. n - 1 -> IntRow]
  <2>1. \A x \in 0 .. n - 1 : Ray'[x] \in IntRow
    BY <1>3, <1>7
  <2>2. Compacted(Ray, first) \in [0 .. n - 1 -> IntRow]
    <3>1. first \in Int /\ NbRay \in Int /\ bound \in Int
      BY <1>2, <1>4
    <3>2. \A x \in 0 .. n - 1 : Compacted(Ray, first)[x] \in IntRow
      BY <1>1, <2>1
    <3> QED BY <3>1, <3>2, CompactedType
  <2> QED BY <1>1, <2>2
<1>9. ASSUME NEW x \in 0 .. NbBid - 1
      PROVE  InLineality(Ray'[x], Mat, Before, dual) /\ InnerProduct(Ray'[x], Mat[k]) = 0
  <2>1. x \in 0 .. n - 1 /\ x < first /\ x \in 0 .. NbRay - 1 /\ x \in 0 .. equal_bound - 1
    BY <1>2, <1>4, <1>5
  <2>2. Ray'[x] = Ray[x]
    BY <1>7, <2>1
  <2>3. InLineality(Ray[x], Mat, Before, dual)
    BY DEF ChernikovaInv, Verified
  <2> QED BY <1>3, <2>1, <2>2, <2>3
<1>10. ASSUME NEW x \in NbBid .. n - 1
       PROVE  InCone(Ray'[x], Mat, Before, dual) /\ Verifies(Ray'[x], Mat[k])
  <2> DEFINE y == from(x)
  <2>1. x \in 0 .. n - 1 /\ x \in Int
    BY <1>2
  <2>2. /\ Ray'[x] = Ray[y] /\ y \in 0 .. NbRay - 1
        /\ x < first => y = x
        /\ x >= first => y \in bound .. NbRay - 1
    BY <1>7, <2>1
  <2> HIDE DEF y
  <2>3. y \in NbBid .. NbRay - 1
    <3>1. first \in Int
      BY <1>2, <1>4
    <3>2. CASE x < first
      BY <1>2, <2>1, <2>2, <3>2
    <3>3. CASE x >= first
      BY <1>2, <1>4, <2>2, <3>3
    <3> QED BY <2>1, <3>1, <3>2, <3>3
  <2>4. \/ y \in 0 .. equal_bound - 1 \/ y \in bound .. NbRay - 1
        \/ (y \in equal_bound .. sup_bound - 1 /\ Mat[k][0] # 0)
    <3>1. first \in Int
      BY <1>2, <1>4
    <3>2. CASE x < first
      BY <1>2, <1>4, <2>1, <2>2, <3>2
    <3> QED BY <2>1, <2>2, <3>1, <3>2
  <2>5. Ray[y][0] = 0 \/ (Ray[y][0] > 0 /\ Mat[k][0] # 0)
    BY <1>3, <2>4
  <2>6. Ray[y][0] = InnerProduct(Ray[y], Mat[k]) /\ Ray[y][0] \in Int
    BY <1>3, <2>2, LastInt
  <2>7. Verifies(Ray[y], Mat[k])
    BY <2>5, <2>6 DEF Verifies
  <2>8. InCone(Ray[y], Mat, Before, dual)
    BY <2>3 DEF ChernikovaInv, Verified
  <2> QED BY <2>2, <2>7, <2>8
<1>11. \A x \in 0 .. n - 1 : Sat'[x] = BitsOf(Unsaturated(Ray'[x], Mat, Before) \cup NewMark(Ray'[x]))
  BY <1>3, <1>7
<1>12. UNCHANGED <<Mat, dual, NbMaxRays, bounds, pair>> /\ NbBid' = NbBid
  BY <1>1
<1> HIDE DEF n
<1> QED BY <1>1, <1>5, <1>6, <1>8, <1>9, <1>10, <1>11, <1>12, TurnEnds

\* Every step of Chernikova keeps the invariant.
LEMMA ProcessConstraintStep ==
  ASSUME ChernikovaInv, ProcessConstraint
  PROVE  ChernikovaInv'
BY EvaluateStep, LineToRayStep, DiscardLineStep, SortingStep, StartPairsStep,
   AddRayStep, SkipPairStep, EliminateStep DEF ProcessConstraint
-----------------------------------------------------------------------------
(* The constraints processed so far as a family, the positivity constraint *)
(* of the primal case as number -1.                                        *)

\* The last coordinate is not negative.
PositivityRow == [x \in 0..Dimension |-> IF x = 0 \/ x = Dimension THEN 1 ELSE 0]

\* The first n rows of M, and positivity unless d.
Family(M, n, d) ==
  [c \in 0 .. n - 1 \cup (IF d THEN {} ELSE {-1}) |-> IF c = -1 THEN PositivityRow ELSE M[c]]

\* The last coordinate is the product with the positivity constraint.
LEMMA PositivityProduct ==
  ASSUME NEW r \in IntRow
  PROVE  PositivityRow \in IntRow /\ PositivityRow[0] # 0 /\ InnerProduct(r, PositivityRow) = r[Dimension]
<1>1. Dimension \in Coordinates /\ 0 \in 0..Dimension /\ Dimension \in 0..Dimension
  BY DimensionAssumption DEF Coordinates
<1>2. PositivityRow \in IntRow /\ PositivityRow[0] # 0
  BY <1>1 DEF PositivityRow, IntRow
<1>3. Axis(Dimension) \in IntRow /\ InnerProduct(r, Axis(Dimension)) = r[Dimension]
  BY <1>1, AxisProduct
<1>4. \A c \in Coordinates : PositivityRow[c] = Axis(Dimension)[c]
  BY DimensionAssumption DEF PositivityRow, Axis, Coordinates
<1>5. InnerProduct(PositivityRow, r) = InnerProduct(Axis(Dimension), r)
  BY <1>2, <1>3, <1>4, InnerProductSame
<1>6. InnerProduct(r, PositivityRow) = InnerProduct(r, Axis(Dimension))
  BY <1>2, <1>3, <1>5, InnerProductSymmetric
<1> QED BY <1>2, <1>3, <1>6

\* The constraints K of M that r saturates, positivity included unless d.
SaturatedBy(r, M, K, d) ==
  (K \ Unsaturated(r, M, K)) \cup (IF ~d /\ r[Dimension] = 0 THEN {-1} ELSE {})

\* A row against the family is that row against the constraints, bit by bit.
LEMMA FamilyIs ==
  ASSUME NEW n \in Nat, NEW M, HasRows(M, 0 .. n - 1), NEW d \in BOOLEAN
  PROVE  /\ IsFamily(Family(M, n, d))
         /\ n \notin DOMAIN Family(M, n, d)
         /\ \A r \in IntRow :
              /\ Within(r, Family(M, n, d)) <=> InCone(r, M, 0 .. n - 1, d)
              /\ Zeros(r, Family(M, n, d)) = SaturatedBy(r, M, 0 .. n - 1, d)
              /\ Zeros(r, Family(M, n, d)) = DOMAIN Family(M, n, d) <=> InLineality(r, M, 0 .. n - 1, d)
<1> DEFINE F == Family(M, n, d)
           K == 0 .. n - 1
<1>1. /\ DOMAIN F = K \cup (IF d THEN {} ELSE {-1}) /\ -1 \notin K /\ n \notin K /\ n # -1
      /\ \A c \in K : F[c] = M[c]
      /\ ~d => F[-1] = PositivityRow
  <2>1. -1 \notin K /\ n \notin K /\ n # -1
    OBVIOUS
  <2>2. \A c \in K : c # -1
    OBVIOUS
  <2> HIDE DEF K
  <2> QED BY <2>1, <2>2 DEF Family, K
<1> HIDE DEF F
<1>2. IsFamily(F)
  <2>1. IsFiniteSet(K) /\ IsFiniteSet({-1}) /\ IsFiniteSet(K \cup {-1})
    <3>1. 0 \in Int /\ n - 1 \in Int
      OBVIOUS
    <3>2. IsFiniteSet(K) /\ IsFiniteSet({-1})
      BY <3>1, FS_Interval, FS_Singleton
    <3> QED BY <3>2, UnionSize
  <2>2. DOMAIN F \subseteq K \cup {-1}
    BY <1>1
  <2>3. IsFiniteSet(DOMAIN F)
    BY <2>1, <2>2, FS_Subset
  <2>4. PositivityRow \in IntRow
    BY <1>1 , DimensionAssumption DEF PositivityRow, IntRow
  <2>5. \A c \in K : M[c] \in IntRow
    BY DEF HasRows
  <2> HIDE DEF K
  <2> QED BY <1>1, <2>3, <2>4, <2>5 DEF IsFamily
<1>3. ASSUME NEW r \in IntRow
      PROVE  /\ Within(r, F) <=> InCone(r, M, K, d)
             /\ Zeros(r, F) = SaturatedBy(r, M, K, d)
             /\ Zeros(r, F) = DOMAIN F <=> InLineality(r, M, K, d)
  <2>1. PositivityRow[0] # 0 /\ InnerProduct(r, PositivityRow) = r[Dimension]
    BY PositivityProduct
  <2>2. ~d => (Verifies(r, F[-1]) <=> r[Dimension] >= 0) /\ (InnerProduct(r, F[-1]) = 0 <=> r[Dimension] = 0)
    BY <1>1, <2>1 DEF Verifies
  <2> HIDE DEF K
  <2>3. Within(r, F) <=> (\A c \in K : Verifies(r, M[c])) /\ (d \/ r[Dimension] >= 0)
    BY <1>1, <2>2 DEF Within
  <2>4. Zeros(r, F) = {c \in K : InnerProduct(r, M[c]) = 0} \cup (IF ~d /\ r[Dimension] = 0 THEN {-1} ELSE {})
    BY <1>1, <2>2 DEF Zeros
  <2>5. Zeros(r, F) = DOMAIN F <=> (\A c \in K : InnerProduct(r, M[c]) = 0) /\ (d \/ r[Dimension] = 0)
    BY <1>1, <2>4
  <2> QED BY <2>3, <2>4, <2>5 DEF InCone, InLineality, Unsaturated, SaturatedBy
<1>4. n \notin DOMAIN F
  BY <1>1
<1> QED BY <1>1, <1>2, <1>3, <1>4 DEF F, K

\* The next row of the matrix is one more constraint of the family.
LEMMA FamilyNext ==
  ASSUME NEW n \in Nat, NEW M, NEW d \in BOOLEAN
  PROVE  Family(M, n + 1, d) = Extended(Family(M, n, d), n, M[n])
<1>1. 0 .. (n + 1) - 1 = 0 .. n - 1 \cup {n} /\ n # -1
  OBVIOUS
<1> DEFINE K == 0 .. n - 1
<1>2. DOMAIN Family(M, n, d) = K \cup (IF d THEN {} ELSE {-1})
  BY DEF Family
<1>3. \A c \in K \cup (IF d THEN {} ELSE {-1}) : Family(M, n, d)[c] = IF c = -1 THEN PositivityRow ELSE M[c]
  BY DEF Family
<1>4. Family(M, n + 1, d) = [c \in (K \cup {n}) \cup (IF d THEN {} ELSE {-1}) |-> IF c = -1 THEN PositivityRow ELSE M[c]]
  BY <1>1 DEF Family
<1>5. Extended(Family(M, n, d), n, M[n]) =
        [c \in (K \cup (IF d THEN {} ELSE {-1})) \cup {n} |-> IF c = n THEN M[n] ELSE Family(M, n, d)[c]]
  BY <1>2 DEF Extended
<1> HIDE DEF K
<1> QED BY <1>1, <1>3, <1>4, <1>5


-----------------------------------------------------------------------------
(* The adjacency test.                                                     *)

\* A set of constraints has as many bits.
LEMMA BitsOfSize ==
  ASSUME NEW C, C \subseteq Int, IsFiniteSet(C)
  PROVE  Cardinality(BitsOf(C)) = Cardinality(C)
<1> DEFINE f == [c \in C |-> BitAt(c)]
<1>1. \A x \in C, y \in C : f[x] = f[y] => x = y
  BY BitAtInjective
<1>2. f \in Bijection(C, BitsOf(C))
  <2>1. f \in [C -> BitsOf(C)] /\ \A b \in BitsOf(C) : \E c \in C : f[c] = b
    BY DEF BitsOf
  <2>2. DOMAIN f = C
    OBVIOUS
  <2> HIDE DEF f
  <2> QED BY <1>1, <2>1, <2>2 DEF Bijection, Injection, Surjection, IsInjective
<1>3. ExistsBijection(C, BitsOf(C))
  BY <1>2 DEF ExistsBijection
<1> QED BY <1>3, FS_Bijection

\* The positions before that of constraint n in words of WSIZE bits.
LEMMA PositionsBefore ==
  ASSUME NEW w \in Nat, NEW b \in 0 .. WSIZE - 1, NEW x \in Nat, NEW y \in 0 .. WSIZE - 1
  PROVE  /\ x * WSIZE + y < w * WSIZE + b <=> x < w \/ (x = w /\ y < b)
         /\ x * WSIZE + y <= w * WSIZE + b => x <= w
         /\ x * WSIZE + y \in Nat
<1> DEFINE W == WSIZE
<1>1. W \in Nat \ {0} /\ b \in Int /\ y \in Int /\ 0 <= b /\ b < W /\ 0 <= y /\ y < W
  BY WSIZEAssumption
<1> HIDE DEF W
<1>2. x * W \in Nat /\ w * W \in Nat
  BY <1>1
<1>3. ASSUME x < w PROVE x * W + W <= w * W
  <2>1. (x + 1) * W = x * W + W
    BY <1>1
  <2>2. (w - (x + 1)) * W = w * W - (x + 1) * W /\ (w - (x + 1)) * W >= 0
    BY <1>1, <1>3
  <2>3. (x + 1) * W \in Int
    BY <1>1
  <2> QED BY <1>2, <2>1, <2>2, <2>3, <1>1
<1>4. ASSUME w < x PROVE w * W + W <= x * W
  <2>1. (w + 1) * W = w * W + W
    BY <1>1
  <2>2. (x - (w + 1)) * W = x * W - (w + 1) * W /\ (x - (w + 1)) * W >= 0
    BY <1>1, <1>4
  <2>3. (w + 1) * W \in Int
    BY <1>1
  <2> QED BY <1>2, <2>1, <2>2, <2>3, <1>1
<1>5. x < w \/ x = w \/ w < x
  OBVIOUS
<1>6. x * W + y < w * W + b <=> x < w \/ (x = w /\ y < b)
  <2>1. CASE x < w
    BY <1>1, <1>2, <1>3, <2>1
  <2>2. CASE x = w
    BY <1>1, <1>2, <2>2
  <2>3. CASE w < x
    BY <1>1, <1>2, <1>4, <2>3
  <2> QED BY <1>5, <2>1, <2>2, <2>3
<1>7. x * W + y <= w * W + b => x <= w
  <2>1. CASE w < x
    BY <1>1, <1>2, <1>4, <2>1
  <2> QED BY <1>5, <2>1
<1> QED BY <1>1, <1>2, <1>6, <1>7 DEF W

\* The bits the test counts are those of the constraints before k, and all the
\* bits up to k are compared.
LEMMA BitsBeforeIs ==
  ASSUME ChernikovaTyped
  PROVE  BitsBefore = BitsOf(Before) /\ BitsOf(Before \cup {k}) \subseteq ComparedBits
<1>1. /\ k \in Nat /\ jx \in Nat /\ bx \in 0 .. WSIZE - 1 /\ k = jx * WSIZE + bx
      /\ WSIZE \in Nat \ {0}
  BY WSIZEAssumption DEF ChernikovaTyped
<1>2. ASSUME NEW c \in 0..k
      PROVE  /\ BitAt(c) = <<c \div WSIZE, c % WSIZE>> /\ c \div WSIZE \in 0..jx /\ c % WSIZE \in 0 .. WSIZE - 1
             /\ c < k => c \div WSIZE < jx \/ c % WSIZE < bx
  <2>1. PICK x \in Int, y \in Int : x = c \div WSIZE /\ y = c % WSIZE /\ c = WSIZE * x + y /\ y \in 0 .. WSIZE - 1
    <3>1. c \in Int /\ c = WSIZE * (c \div WSIZE) + (c % WSIZE) /\ c \div WSIZE \in Int
      BY <1>1, Quotient
    <3>2. c % WSIZE \in 0 .. WSIZE - 1
      BY <1>1
    <3> QED BY <3>1, <3>2
  <2>2. x >= 0
    <3>1. x <= -1 => WSIZE * x <= -WSIZE
      BY <1>1
    <3>2. WSIZE * x \in Int
      BY <1>1
    <3> QED BY <1>1, <2>1, <3>1, <3>2
  <2>3. WSIZE * x = x * WSIZE /\ x \in Nat
    BY <1>1, <2>2
  <2>4. /\ x * WSIZE + y < jx * WSIZE + bx <=> x < jx \/ (x = jx /\ y < bx)
        /\ x * WSIZE + y <= jx * WSIZE + bx => x <= jx
    BY <1>1, <2>1, <2>3, PositionsBefore
  <2>5. x <= jx /\ (c < k => x < jx \/ y < bx)
    BY <1>1, <2>1, <2>3, <2>4
  <2> QED BY <1>1, <2>1, <2>3, <2>5 DEF BitAt
<1>3. BitsOf(Before) \subseteq BitsBefore
  <2>1. \A c \in Before : c \in 0..k /\ c < k
    BY <1>1 DEF Before
  <2> QED BY <1>2, <2>1 DEF BitsOf, BitsBefore
<1>4. ASSUME NEW b \in BitsBefore PROVE b \in BitsOf(Before)
  <2>1. PICK x \in 0..jx, y \in 0 .. WSIZE - 1 : b = <<x, y>> /\ (x < jx \/ y < bx)
    BY DEF BitsBefore
  <2> DEFINE c == x * WSIZE + y
  <2>2. c \in Nat /\ c < k
    <3>1. x \in Nat /\ x <= jx
      BY <1>1
    <3>2. x < jx \/ (x = jx /\ y < bx)
      BY <1>1, <2>1, <3>1
    <3> QED BY <1>1, <3>1, <3>2, PositionsBefore
  <2>3. BitAt(c) = b
    <3>1. x \in Nat /\ c \in Int
      BY <1>1, <2>2
    <3> QED BY <2>1, <3>1, BitAtIs
  <2> HIDE DEF c
  <2>4. c \in Before
    BY <1>1, <2>2 DEF Before
  <2> QED BY <2>3, <2>4 DEF BitsOf
<1>5. BitsOf(Before \cup {k}) \subseteq ComparedBits
  <2>1. \A c \in Before \cup {k} : c \in 0..k
    BY <1>1 DEF Before
  <2> QED BY <1>2, <2>1 DEF BitsOf, ComparedBits
<1> QED BY <1>3, <1>4, <1>5
\* Sets of constraints and their bits.
LEMMA BitsOfSubset ==
  ASSUME NEW A, NEW B, A \subseteq Int, B \subseteq Int
  PROVE  /\ BitsOf(A) \subseteq BitsOf(B) <=> A \subseteq B
         /\ BitsOf(A) \ BitsOf(B) = BitsOf(A \ B)
<1>1. \A c \in Int, e \in Int : BitAt(c) = BitAt(e) => c = e
  BY BitAtInjective
<1> QED BY <1>1 DEF BitsOf

\* The constraints before k as a family.
Known == Family(Mat, k, dual)

\* Which of them a row saturates, and the bits of the row.
LEMMA KnownIs ==
  ASSUME ChernikovaInv
  PROVE  /\ IsFamily(Known) /\ k \notin DOMAIN Known
         /\ \A r \in IntRow :
              /\ Within(r, Known) <=> InCone(r, Mat, Before, dual)
              /\ Zeros(r, Known) = SaturatedBy(r, Mat, Before, dual)
              /\ Zeros(r, Known) = DOMAIN Known <=> InLineality(r, Mat, Before, dual)
<1>1. k \in Nat /\ HasRows(Mat, 0 .. k - 1) /\ dual \in BOOLEAN
  BY RowsKnown DEF ChernikovaInv, ChernikovaTyped, Before
<1>b. Before = 0 .. k - 1
  BY DEF Before
<1>2. /\ IsFamily(Family(Mat, k, dual)) /\ k \notin DOMAIN Family(Mat, k, dual)
      /\ \A r \in IntRow :
           /\ Within(r, Family(Mat, k, dual)) <=> InCone(r, Mat, 0 .. k - 1, dual)
           /\ Zeros(r, Family(Mat, k, dual)) = SaturatedBy(r, Mat, 0 .. k - 1, dual)
           /\ Zeros(r, Family(Mat, k, dual)) = DOMAIN Family(Mat, k, dual) <=> InLineality(r, Mat, 0 .. k - 1, dual)
  BY <1>1, FamilyIs
<1> QED BY <1>b, <1>2 DEF Known

\* The rows of a pair, and what both saturate.
LEMMA CommonIs ==
  ASSUME ChernikovaInv, pc = "pairs", NEW p \in 0 .. NbRay - 1, NEW q \in 0 .. NbRay - 1,
         Ray[p][0] # 0, Ray[q][0] # 0
  PROVE  LET U == Unsaturated(Ray[p], Mat, Before) \cup Unsaturated(Ray[q], Mat, Before)
             C == Zeros(Ray[p], Known) \cap Zeros(Ray[q], Known)
         IN  /\ U \subseteq Before
             /\ C = (Before \ U) \cup (IF RayOnly(p, q) THEN {-1} ELSE {})
             /\ Sat[p] \cup Sat[q] = BitsOf(U \cup {k})
             /\ Cardinality(C) = NbCommonConstraints(p, q)
             /\ Cardinality(C) \in Nat
<1> DEFINE A == Unsaturated(Ray[p], Mat, Before)
           B == Unsaturated(Ray[q], Mat, Before)
           U == A \cup B
           C == Zeros(Ray[p], Known) \cap Zeros(Ray[q], Known)
           extra == IF RayOnly(p, q) THEN {-1} ELSE {}
<1>1. /\ Before \subseteq Int /\ k \notin Before /\ k \in Nat /\ Ray[p] \in IntRow /\ Ray[q] \in IntRow
      /\ ChernikovaTyped /\ -1 \notin Before /\ -1 \in Int
  BY RowsKnown DEF ChernikovaInv, Before
<1>2. A \subseteq Before /\ B \subseteq Before
  BY DEF Unsaturated
<1>3. NewMark(Ray[p]) = {k} /\ NewMark(Ray[q]) = {k}
  BY InPairsFacts DEF NewMark
<1>4. Sat[p] = BitsOf(A \cup {k}) /\ Sat[q] = BitsOf(B \cup {k})
  BY <1>3, InPairsFacts
<1>5. C = (Before \ U) \cup extra
  <2>1. /\ Zeros(Ray[p], Known) = (Before \ A) \cup (IF ~dual /\ AtInfinity(Ray[p]) THEN {-1} ELSE {})
        /\ Zeros(Ray[q], Known) = (Before \ B) \cup (IF ~dual /\ AtInfinity(Ray[q]) THEN {-1} ELSE {})
    BY <1>1, KnownIs DEF SaturatedBy, AtInfinity
  <2> HIDE DEF A, B
  <2> QED BY <1>1, <2>1 DEF RayOnly
<1> HIDE DEF A, B, C
<1>6. Sat[p] \cup Sat[q] = BitsOf(U \cup {k})
  BY <1>4 DEF BitsOf
<1>7. BitsBefore = BitsOf(Before)
  BY <1>1, BitsBeforeIs
<1>8. BitsBefore \ (Sat[p] \cup Sat[q]) = BitsOf(Before \ U)
  <2> DEFINE V == U \cup {k}
  <2>1. Before \subseteq Int /\ V \subseteq Int /\ Before \ V = Before \ U
    BY <1>1, <1>2
  <2>2. Sat[p] \cup Sat[q] = BitsOf(V)
    BY <1>6
  <2> HIDE DEF V
  <2>3. BitsOf(Before) \ BitsOf(V) = BitsOf(Before \ V)
    BY <2>1, BitsOfSubset
  <2> QED BY <1>7, <2>1, <2>2, <2>3
<1>9. IsFiniteSet(Before \ U) /\ Before \ U \subseteq Int
  <2>1. IsFiniteSet(Before)
    <3>1. 0 \in Int /\ k - 1 \in Int
      BY <1>1
    <3> QED BY <3>1, FS_Interval DEF Before
  <2> QED BY <1>1, <2>1, FS_Subset
<1>10. Cardinality(BitsBefore \ (Sat[p] \cup Sat[q])) = Cardinality(Before \ U)
  BY <1>8, <1>9, BitsOfSize
<1>11. Cardinality(Before \ U) \in Nat
  BY <1>9, FS_CardinalityType
<1>12. Cardinality(C) = Cardinality(Before \ U) + (IF RayOnly(p, q) THEN 1 ELSE 0)
  <2>1. CASE RayOnly(p, q)
    <3>1. -1 \notin Before \ U /\ C = (Before \ U) \cup {-1}
      BY <1>1, <1>5, <2>1
    <3>2. Cardinality(C) = Cardinality(Before \ U) + 1
      BY <1>9, <3>1, FS_AddElement
    <3> QED BY <2>1, <3>2
  <2>2. CASE ~RayOnly(p, q)
    BY <1>5, <1>11, <2>2
  <2> QED BY <2>1, <2>2
<1>13. Cardinality(C) = NbCommonConstraints(p, q) /\ Cardinality(C) \in Nat
  BY <1>10, <1>11, <1>12 DEF NbCommonConstraints
<1> QED BY <1>2, <1>5, <1>6, <1>13 DEF A, B, C

(***************************************************************************)
(* The adjacency test of the code, on bits, is the one of the geometry:    *)
(* the positivity constraint is counted through RayOnly, and the bit of k, *)
(* set in both rows, hides no third one.                                   *)
(***************************************************************************)
LEMMA AdjacentIs ==
  ASSUME ChernikovaInv, pc = "pairs", NEW p \in equal_bound .. sup_bound - 1, NEW q \in sup_bound .. bound - 1
  PROVE  Adjacent(p, q) <=> Neighbours(p, q, Known, Ray, 0 .. NbBid - 1, NbBid .. bound - 1)
<1> DEFINE A == Unsaturated(Ray[p], Mat, Before)
           B == Unsaturated(Ray[q], Mat, Before)
           C == Zeros(Ray[p], Known) \cap Zeros(Ray[q], Known)
<1>1. /\ NbBid \in Nat /\ NbRay \in Nat /\ equal_bound \in Int /\ sup_bound \in Int /\ bound \in Int
      /\ NbBid <= equal_bound /\ equal_bound <= sup_bound /\ sup_bound <= bound /\ bound <= NbRay
  BY InPairsFacts
<1>2. p \in 0 .. NbRay - 1 /\ q \in 0 .. NbRay - 1
  BY <1>1
<1>3. Ray[p][0] # 0 /\ Ray[q][0] # 0
  <2>1. Ray[p][0] > 0 /\ Ray[q][0] < 0
    BY InPairsFacts
  <2>2. Ray[p][0] \in Int /\ Ray[q][0] \in Int
    <3>1. Ray[p] \in IntRow /\ Ray[q] \in IntRow
      BY <1>2, InPairsFacts
    <3> QED BY <3>1, DimensionAssumption DEF IntRow
  <2> QED BY <2>1, <2>2
<1>4. /\ A \cup B \subseteq Before
      /\ C = (Before \ (A \cup B)) \cup (IF RayOnly(p, q) THEN {-1} ELSE {})
      /\ Sat[p] \cup Sat[q] = BitsOf((A \cup B) \cup {k})
      /\ Cardinality(C) = NbCommonConstraints(p, q)
  BY <1>2, <1>3, CommonIs
<1>5. Cardinality(0 .. NbBid - 1) = NbBid
  <2>1. CASE NbBid = 0
    <3>1. 0 .. NbBid - 1 = {}
      BY <2>1
    <3> QED BY <2>1, <3>1, FS_EmptySet
  <2>2. CASE NbBid # 0
    <3>1. 0 \in Int /\ NbBid - 1 \in Int /\ ~(0 > NbBid - 1)
      BY <1>1, <2>2
    <3>2. Cardinality(0 .. NbBid - 1) = (NbBid - 1) - 0 + 1
      BY <3>1, FS_Interval
    <3> QED BY <1>1, <3>2
  <2> QED BY <2>1, <2>2
<1>6. /\ Before \subseteq Int /\ k \notin Before /\ k \in Int /\ ChernikovaTyped /\ -1 \notin Before
  BY RowsKnown DEF ChernikovaInv, Before
<1> HIDE DEF A, B, C
<1>7. ASSUME NEW m \in NbBid .. bound - 1
      PROVE  MakesRedundant(m, p, q) <=> m # p /\ m # q /\ C \subseteq Zeros(Ray[m], Known)
  <2> DEFINE D == Unsaturated(Ray[m], Mat, Before)
             mark == NewMark(Ray[m])
  <2>1. m \in 0 .. NbRay - 1
    BY <1>1
  <2>2. Ray[m] \in IntRow /\ Sat[m] = BitsOf(D \cup mark)
    BY <2>1, InPairsFacts
  <2>3. D \subseteq Before /\ mark \subseteq {k}
    BY DEF Unsaturated, NewMark
  <2>4. Zeros(Ray[m], Known) = (Before \ D) \cup (IF ~dual /\ AtInfinity(Ray[m]) THEN {-1} ELSE {})
    BY <2>2, KnownIs DEF SaturatedBy, AtInfinity
  <2> HIDE DEF D, mark
  <2>5. Sat[m] \subseteq ComparedBits
    <3>1. BitsOf(Before \cup {k}) \subseteq ComparedBits
      BY <1>6, BitsBeforeIs
    <3> QED BY <2>2, <2>3, <3>1 DEF BitsOf
  <2>6. Sat[m] \subseteq Sat[p] \cup Sat[q] <=> D \subseteq A \cup B
    <3> DEFINE V == (A \cup B) \cup {k}
               X == D \cup mark
    <3>1. X \subseteq Int /\ V \subseteq Int /\ (X \subseteq V <=> D \subseteq A \cup B)
      BY <1>4, <1>6, <2>3
    <3>2. Sat[m] = BitsOf(X) /\ Sat[p] \cup Sat[q] = BitsOf(V)
      BY <1>4, <2>2
    <3> HIDE DEF X, V
    <3>3. BitsOf(X) \subseteq BitsOf(V) <=> X \subseteq V
      BY <3>1, BitsOfSubset
    <3> QED BY <3>1, <3>2, <3>3
  <2>7. Sat[m] \cap ComparedBits = Sat[m]
    BY <2>5
  <2>8. C \subseteq Zeros(Ray[m], Known) <=> D \subseteq A \cup B /\ (RayOnly(p, q) => AtInfinity(Ray[m]))
    BY <1>4, <1>6, <2>3, <2>4 DEF RayOnly
  <2> QED BY <2>6, <2>7, <2>8 DEF MakesRedundant
<1>8. Adjacent(p, q) <=> /\ Cardinality(C) + NbBid >= Dimension - 2
                         /\ \A m \in NbBid .. bound - 1 : C \subseteq Zeros(Ray[m], Known) => m = p \/ m = q
  BY <1>4, <1>7 DEF Adjacent
<1> QED BY <1>5, <1>8 DEF Neighbours, C
-----------------------------------------------------------------------------
(* The rows are the rays and lines of the cone, at every step.             *)

\* The rays of the constraints before k; the rows after bound are new.
OldRays == NbBid .. (IF pc = "pairs" THEN bound ELSE NbRay) - 1

\* The lines span the lineality space, the rays cover the cone, and each of them
\* is the only one on the constraints it saturates.
Described == Describes(Known, Ray, 0 .. NbBid - 1, OldRays)

\* An adjacent pair on either side of constraint k,
Crosses(p, q) == Crossing(p, q, Known, Ray, 0 .. NbBid - 1, OldRays, Mat[k])

\* one that the double loop has come to,
Reached(p, q) == p < i \/ (p = i /\ q < j)
Visited == {v \in OldRays \X OldRays : Crosses(v[1], v[2]) /\ Reached(v[1], v[2])}

\* and the new rows, which join these pairs one by one.
PairsMade ==
  pc = "pairs" => /\ j < bound \/ bound <= sup_bound
                  /\ JoinsOf(bound .. NbRay - 1, Visited, Known, Ray, Mat[k])

\* Only the rows of the rays count.
LEMMA CrossingSame ==
  ASSUME NEW A, NEW R, NEW S, NEW P, NEW N, NEW h, \A n \in N : S[n] = R[n], NEW p, NEW q
  PROVE  Crossing(p, q, A, S, P, N, h) <=> Crossing(p, q, A, R, P, N, h)
<1>1. CASE p \in N /\ q \in N
  <2>1. S[p] = R[p] /\ S[q] = R[q]
    BY <1>1
  <2>2. Neighbours(p, q, A, S, P, N) <=> Neighbours(p, q, A, R, P, N)
    BY <2>1 DEF Neighbours
  <2> QED BY <2>1, <2>2 DEF Crossing
<1>2. CASE ~(p \in N /\ q \in N)
  BY <1>2 DEF Crossing
<1> QED BY <1>1, <1>2

\* What describes a cone in R does so in S, which has the same rows.
LEMMA DescribesSame ==
  ASSUME NEW A, NEW R, NEW P, NEW N, Describes(A, R, P, N), NEW S,
         \A n \in P \cup N : S[n] \in IntRow /\ SameCoordinates(R[n], S[n])
  PROVE  Describes(A, S, P, N)
<1> DEFINE f == [n \in N |-> n]
<1>1. \A n \in N : f[n] = n
  OBVIOUS
<1> HIDE DEF f
<1>2. \A n \in N : f[n] \in N /\ SameAt(S, n, R, f[n])
  BY <1>1 DEF SameAt
<1>3. \A n \in P : SameAt(S, n, R, n)
  BY DEF SameAt
<1>4. (\A n \in N, m \in N : f[n] = f[m] => n = m) /\ (\A m \in N : \E n \in N : f[n] = m)
  BY <1>1
<1> QED BY <1>2, <1>3, <1>4, Reindexed

\* The same rows have the same coordinates.
LEMMA SelfSame == \A p : SameCoordinates(p, p)
  BY DEF SameCoordinates

\* A pair on either side of the constraint is one of the double loop.
LEMMA CrossesInTiers ==
  ASSUME ChernikovaInv, pc = "pairs", NEW p, NEW q, Crosses(p, q)
  PROVE  p \in equal_bound .. sup_bound - 1 /\ q \in sup_bound .. bound - 1
<1>1. /\ p \in OldRays /\ q \in OldRays /\ InnerProduct(Ray[p], Mat[k]) > 0 /\ InnerProduct(Ray[q], Mat[k]) < 0
      /\ OldRays = NbBid .. bound - 1
  BY DEF Crosses, Crossing, OldRays
<1>2. /\ NbBid \in Nat /\ NbRay \in Nat /\ equal_bound \in Int /\ sup_bound \in Int /\ bound \in Int
      /\ NbBid <= equal_bound /\ equal_bound <= sup_bound /\ sup_bound <= bound /\ bound <= NbRay
      /\ \A x \in 0 .. NbRay - 1 : Ray[x] \in IntRow /\ Ray[x][0] = InnerProduct(Ray[x], Mat[k])
      /\ \A x \in 0 .. equal_bound - 1 : Ray[x][0] = 0
      /\ \A x \in equal_bound .. sup_bound - 1 : Ray[x][0] > 0
      /\ \A x \in sup_bound .. bound - 1 : Ray[x][0] < 0
  BY InPairsFacts
<1>3. p \in 0 .. NbRay - 1 /\ q \in 0 .. NbRay - 1 /\ p < bound /\ q < bound /\ p \in Nat /\ q \in Nat
  BY <1>1, <1>2
<1>4. Ray[p][0] > 0 /\ Ray[q][0] < 0 /\ Ray[p][0] \in Int /\ Ray[q][0] \in Int
  BY <1>1, <1>2, <1>3, LastInt
<1>5. ~(p < equal_bound) /\ ~(p >= sup_bound)
  BY <1>2, <1>3, <1>4
<1>6. ~(q < equal_bound) /\ ~(q >= equal_bound /\ q < sup_bound)
  BY <1>2, <1>3, <1>4
<1> QED BY <1>2, <1>3, <1>5, <1>6

\* Conversely the pair of the double loop is adjacent if it crosses.
LEMMA AdjacentCrosses ==
  ASSUME ChernikovaInv, InPairs
  PROVE  /\ Adjacent(i, j) <=> Crosses(i, j)
         /\ i \in OldRays /\ j \in OldRays
<1>1. pc = "pairs" /\ i < sup_bound /\ j < bound
  BY DEF InPairs
<1>2. /\ NbBid \in Nat /\ NbRay \in Nat /\ equal_bound \in Int /\ sup_bound \in Int /\ bound \in Int
      /\ NbBid <= equal_bound /\ equal_bound <= sup_bound /\ sup_bound <= bound /\ bound <= NbRay
      /\ i \in Int /\ j \in Int /\ equal_bound <= i /\ sup_bound <= j
      /\ \A x \in 0 .. NbRay - 1 : Ray[x][0] = InnerProduct(Ray[x], Mat[k])
      /\ \A x \in equal_bound .. sup_bound - 1 : Ray[x][0] > 0
      /\ \A x \in sup_bound .. bound - 1 : Ray[x][0] < 0
  BY <1>1, InPairsFacts
<1>3. i \in equal_bound .. sup_bound - 1 /\ j \in sup_bound .. bound - 1
  BY <1>1, <1>2
<1>4. i \in NbBid .. bound - 1 /\ j \in NbBid .. bound - 1 /\ i \in 0 .. NbRay - 1 /\ j \in 0 .. NbRay - 1
  BY <1>2, <1>3
<1>5. InnerProduct(Ray[i], Mat[k]) > 0 /\ InnerProduct(Ray[j], Mat[k]) < 0
  BY <1>2, <1>3, <1>4
<1>6. OldRays = NbBid .. bound - 1
  BY <1>1 DEF OldRays
<1>7. Adjacent(i, j) <=> Neighbours(i, j, Known, Ray, 0 .. NbBid - 1, OldRays)
  BY <1>1, <1>3, <1>6, AdjacentIs
<1> QED BY <1>4, <1>5, <1>6, <1>7 DEF Crosses, Crossing

\* The double loop reaches the pairs one by one.
LEMMA ReachedNext ==
  ASSUME ChernikovaInv, InPairs, NextPair,
         NEW p \in equal_bound .. sup_bound - 1, NEW q \in sup_bound .. bound - 1
  PROVE  /\ (p < i' \/ (p = i' /\ q < j')) <=> (Reached(p, q) \/ (p = i /\ q = j))
         /\ j' < bound
<1>1. pc = "pairs" /\ i < sup_bound /\ j < bound
  BY DEF InPairs
<1>2. /\ equal_bound \in Int /\ sup_bound \in Int /\ bound \in Int /\ i \in Int /\ j \in Int /\ sup_bound <= j
  BY <1>1, InPairsFacts
<1>3. p \in Int /\ q \in Int /\ sup_bound <= q /\ q < bound
  BY <1>2
<1>4. CASE j + 1 < bound
  <2>1. i' = i /\ j' = j + 1
    BY <1>4 DEF NextPair
  <2> QED BY <1>2, <1>3, <1>4, <2>1 DEF Reached
<1>5. CASE ~(j + 1 < bound)
  <2>1. i' = i + 1 /\ j' = sup_bound
    BY <1>5 DEF NextPair
  <2> QED BY <1>1, <1>2, <1>3, <1>5, <2>1 DEF Reached
<1> QED BY <1>4, <1>5

\* What one more pair does to them.
LEMMA NextPairVisits ==
  ASSUME ChernikovaInv, InPairs, NextPair, UNCHANGED <<pc, Mat, k, dual, NbBid>>,
         \A n \in 0 .. NbRay - 1 : Ray'[n] = Ray[n]
  PROVE  /\ Known' = Known /\ OldRays' = OldRays /\ bound' = bound /\ j' < bound'
         /\ \A n \in OldRays : n \in 0 .. NbRay - 1
         /\ Visited' = Visited \cup (IF Adjacent(i, j) THEN {<<i, j>>} ELSE {})
         /\ <<i, j>> \notin Visited
<1>1. pc = "pairs" /\ pc' = "pairs" /\ i < sup_bound /\ j < bound
  BY DEF InPairs
<1>2. /\ NbBid \in Nat /\ NbRay \in Nat /\ bound \in Int /\ bound <= NbRay /\ i \in Int /\ j \in Int
      /\ equal_bound \in Int /\ sup_bound \in Int /\ equal_bound <= i /\ sup_bound <= j
  BY <1>1, InPairsFacts
<1>3. bound' = bound /\ Known' = Known /\ OldRays' = OldRays /\ OldRays = NbBid .. bound - 1
  BY <1>1 DEF NextPair, Known, OldRays
<1>4. \A n \in OldRays : n \in 0 .. NbRay - 1
  BY <1>2, <1>3
<1>5. i \in equal_bound .. sup_bound - 1 /\ j \in sup_bound .. bound - 1
  BY <1>1, <1>2
<1>6. j' < bound
  BY <1>5, ReachedNext
<1>7. ASSUME NEW p, NEW q PROVE Crosses(p, q)' <=> Crosses(p, q)
  <2>1. \A n \in OldRays : Ray'[n] = Ray[n]
    BY <1>4
  <2>2. Crosses(p, q)' <=> Crossing(p, q, Known, Ray', 0 .. NbBid - 1, OldRays, Mat[k])
    BY <1>3 DEF Crosses
  <2> QED BY <2>1, <2>2, CrossingSame DEF Crosses
<1>8. ASSUME NEW v \in OldRays \X OldRays, Crosses(v[1], v[2])
      PROVE  Reached(v[1], v[2])' <=> Reached(v[1], v[2]) \/ v = <<i, j>>
  <2>1. v[1] \in equal_bound .. sup_bound - 1 /\ v[2] \in sup_bound .. bound - 1
    BY <1>1, <1>8, CrossesInTiers
  <2>2. (v[1] < i' \/ (v[1] = i' /\ v[2] < j')) <=> (Reached(v[1], v[2]) \/ (v[1] = i /\ v[2] = j))
    BY <2>1, ReachedNext
  <2>3. v = <<v[1], v[2]>>
    OBVIOUS
  <2> QED BY <2>2, <2>3 DEF Reached
<1>9. Visited' = {v \in OldRays \X OldRays : Crosses(v[1], v[2]) /\ Reached(v[1], v[2])'}
  BY <1>3, <1>7 DEF Visited
<1>10. Visited' = Visited \cup {v \in OldRays \X OldRays : Crosses(v[1], v[2]) /\ v = <<i, j>>}
  BY <1>8, <1>9 DEF Visited
<1>11. Adjacent(i, j) <=> Crosses(i, j)
  BY AdjacentCrosses
<1>12. <<i, j>> \in OldRays \X OldRays
  BY AdjacentCrosses
<1>13. {v \in OldRays \X OldRays : Crosses(v[1], v[2]) /\ v = <<i, j>>} = IF Adjacent(i, j) THEN {<<i, j>>} ELSE {}
  BY <1>11, <1>12
<1>14. <<i, j>> \notin Visited
  BY <1>2 DEF Visited, Reached
<1> QED BY <1>3, <1>4, <1>6, <1>10, <1>13, <1>14

\* A pair that is not adjacent joins nothing.
LEMMA SkipPairDescribes ==
  ASSUME ChernikovaInv, Described, PairsMade, SkipPair
  PROVE  Described' /\ PairsMade'
<1>1. /\ InPairs /\ ~Adjacent(i, j) /\ NextPair /\ pc = "pairs" /\ pc' = "pairs"
      /\ UNCHANGED <<pc, Mat, k, dual, NbBid>> /\ Ray' = Ray /\ NbRay' = NbRay
  BY DEF SkipPair, InPairs
<1>2. Known' = Known /\ OldRays' = OldRays /\ bound' = bound /\ j' < bound' /\ Visited' = Visited
  BY <1>1, NextPairVisits
<1>3. Described'
  BY <1>1, <1>2 DEF Described
<1> QED BY <1>1, <1>2, <1>3 DEF PairsMade

\* The new row is in the cone and on the constraint, and it saturates what both
\* rows of the pair saturate.
LEMMA AddedRow ==
  ASSUME ChernikovaInv, AddRay
  PROVE  /\ \A x \in 0 .. NbRay - 1 : Ray'[x] = Ray[x]
         /\ Ray'[NbRay] \in IntRow
         /\ Joins(NbRay, i, j, Known, Ray', Mat[k])
<1> DEFINE zero == [c \in 0..Dimension |-> 0]
           r == Combine(Ray[j], Ray[i], zero, 0)
<1>1. pc = "pairs" /\ i < sup_bound /\ j < bound /\ Ray' = WithRow(Ray, NbRay, r)
  BY DEF AddRay, InPairs
<1>2. /\ NbBid \in Nat /\ NbRay \in Nat /\ equal_bound \in Int /\ sup_bound \in Int
      /\ i \in Int /\ j \in Int /\ bound \in Int /\ dual \in BOOLEAN
      /\ NbBid <= equal_bound /\ equal_bound <= sup_bound /\ sup_bound <= bound
      /\ bound <= NbRay /\ equal_bound <= i /\ sup_bound <= j
      /\ DOMAIN Ray = 0 .. NbRay - 1
      /\ \A x \in 0 .. NbRay - 1 : Ray[x] \in IntRow /\ Ray[x][0] = InnerProduct(Ray[x], Mat[k])
      /\ \A x \in equal_bound .. sup_bound - 1 : Ray[x][0] > 0
      /\ \A x \in sup_bound .. bound - 1 : Ray[x][0] < 0
  BY <1>1, InPairsFacts
<1>3. HasRows(Mat, Before) /\ Mat[k] \in IntRow /\ -1 \notin Before
  BY <1>1, RowsKnown DEF ChernikovaInv, Before
<1>4. /\ i \in 0 .. NbRay - 1 /\ j \in 0 .. NbRay - 1 /\ i \in NbBid .. NbRay - 1 /\ j \in NbBid .. NbRay - 1
      /\ i \in equal_bound .. sup_bound - 1 /\ j \in sup_bound .. bound - 1
  BY <1>1, <1>2
<1>5. /\ Ray[i] \in IntRow /\ Ray[j] \in IntRow /\ Ray[i][0] > 0 /\ Ray[j][0] < 0 /\ Ray[i][0] # 0
      /\ Ray[i][0] = InnerProduct(Ray[i], Mat[k]) /\ Ray[j][0] = InnerProduct(Ray[j], Mat[k])
      /\ InCone(Ray[i], Mat, Before, dual) /\ InCone(Ray[j], Mat, Before, dual)
  <2>1. InCone(Ray[i], Mat, Before, dual) /\ InCone(Ray[j], Mat, Before, dual)
    BY <1>4 DEF ChernikovaInv, Verified
  <2>2. Ray[i] \in IntRow /\ Ray[i][0] \in Int
    BY <1>2, <1>4, LastInt
  <2> QED BY <1>2, <1>4, <2>1, <2>2
<1>6. zero \in IntRow
  BY DimensionAssumption DEF IntRow
<1> HIDE DEF zero
<1>7. r \in IntRow
  BY <1>5, <1>6, CombineWeighs
<1>8. /\ InCone(r, Mat, Before, dual)
      /\ Unsaturated(r, Mat, Before) = Unsaturated(Ray[j], Mat, Before) \cup Unsaturated(Ray[i], Mat, Before)
      /\ dual \/ (AtInfinity(r) <=> AtInfinity(Ray[j]) /\ AtInfinity(Ray[i]))
  BY <1>2, <1>3, <1>5, <1>6, RaysCombined
<1>9. InnerProduct(r, Mat[k]) = 0
  BY <1>3, <1>5, <1>6, CombinedOnHyperplane
<1> HIDE DEF r
<1>10. Within(r, Known)
  BY <1>7, <1>8, KnownIs
<1>11. Zeros(r, Known) = Zeros(Ray[i], Known) \cap Zeros(Ray[j], Known)
  <2>1. /\ Zeros(r, Known) = SaturatedBy(r, Mat, Before, dual)
        /\ Zeros(Ray[i], Known) = SaturatedBy(Ray[i], Mat, Before, dual)
        /\ Zeros(Ray[j], Known) = SaturatedBy(Ray[j], Mat, Before, dual)
    BY <1>5, <1>7, KnownIs
  <2> QED BY <1>3, <1>8, <2>1 DEF SaturatedBy, AtInfinity
<1>12. Ray'[NbRay] = r /\ \A x \in 0 .. NbRay - 1 : Ray'[x] = Ray[x]
  <2>1. \A x \in 0 .. NbRay - 1 : x # NbRay
    BY <1>2
  <2> QED BY <1>1, <1>2, <2>1 DEF WithRow
<1> QED BY <1>4, <1>7, <1>9, <1>10, <1>11, <1>12 DEF Joins

\* An adjacent pair is joined: the new row is on no face of the others.
LEMMA AddRayDescribes ==
  ASSUME ChernikovaInv, Described, PairsMade, AddRay
  PROVE  Described' /\ PairsMade'
<1> DEFINE W == bound .. NbRay - 1
           V == Visited
           N == OldRays
           R == Ray
           S == Ray'
<1>1. /\ InPairs /\ Adjacent(i, j) /\ NextPair /\ pc = "pairs" /\ pc' = "pairs"
      /\ UNCHANGED <<pc, Mat, k, dual, NbBid>> /\ NbRay' = NbRay + 1
  BY DEF AddRay, InPairs
<1>2. /\ \A x \in 0 .. NbRay - 1 : S[x] = R[x]
      /\ Joins(NbRay, i, j, Known, S, Mat[k])
  BY AddedRow
<1>3. /\ Known' = Known /\ OldRays' = N /\ bound' = bound /\ j' < bound'
      /\ \A n \in N : n \in 0 .. NbRay - 1
      /\ Visited' = V \cup {<<i, j>>} /\ <<i, j>> \notin V
  BY <1>1, <1>2, NextPairVisits
<1>4. /\ NbBid \in Nat /\ NbRay \in Nat /\ NbBid <= NbRay /\ bound \in Int /\ NbBid <= bound /\ bound <= NbRay
      /\ \A x \in 0 .. NbRay - 1 : R[x] \in IntRow
  <2>1. /\ NbBid \in Nat /\ NbRay \in Nat /\ bound \in Int /\ bound <= NbRay /\ equal_bound \in Int /\ sup_bound \in Int
        /\ NbBid <= equal_bound /\ equal_bound <= sup_bound /\ sup_bound <= bound
        /\ \A x \in 0 .. NbRay - 1 : Ray[x] \in IntRow
    BY <1>1, InPairsFacts
  <2> QED BY <2>1
<1>5. bound .. NbRay' - 1 = W \cup {NbRay} /\ NbRay \notin W /\ \A n \in W : n \in 0 .. NbRay - 1
  BY <1>1, <1>4
<1>6. Crosses(i, j)
  BY <1>1, AdjacentCrosses
<1>7. Mat[k] \in IntRow
  BY <1>1, RowsKnown DEF ChernikovaInv
<1>8. Extreme(Known, R, N)
  BY DEF Described, Describes
<1>9. \A v \in V : v \in N \X N /\ Crosses(v[1], v[2])
  BY DEF Visited
<1>10. JoinsOf(W, V, Known, R, Mat[k])
  BY <1>1 DEF PairsMade
<1>11. \A n \in N \cup W : S[n] = R[n]
  BY <1>2, <1>3, <1>5
<1>12. Described'
  <2>1. \A n \in 0 .. NbBid - 1 \cup N : n \in 0 .. NbRay - 1
    BY <1>3, <1>4
  <2>2. \A n \in 0 .. NbBid - 1 \cup N : S[n] \in IntRow /\ SameCoordinates(R[n], S[n])
    BY <1>2, <1>4, <2>1, SelfSame
  <2>3. Describes(Known, S, 0 .. NbBid - 1, N)
    BY <2>2, DescribesSame DEF Described
  <2> QED BY <1>1, <1>3, <2>3 DEF Described
<1> HIDE DEF W, V, N, R, S
<1>13. JoinsOf(W \cup {NbRay}, V \cup {<<i, j>>}, Known, S, Mat[k])
  <2>1. /\ Crossing(i, j, Known, R, 0 .. NbBid - 1, N, Mat[k])
        /\ \A v \in V : v \in N \X N /\ Crossing(v[1], v[2], Known, R, 0 .. NbBid - 1, N, Mat[k])
    BY <1>6, <1>9 DEF Crosses, N, R
  <2> QED BY <1>2, <1>3, <1>5, <1>7, <1>8, <1>10, <1>11, <2>1, OneMoreJoin
<1>14. PairsMade'
  <2>1. JoinsOf(bound' .. NbRay' - 1, Visited', Known', S, Mat[k])
    BY <1>3, <1>5, <1>13
  <2> QED BY <1>1, <1>3, <2>1 DEF PairsMade, S
<1> QED BY <1>12, <1>14

\* The evaluation writes the status words only.
LEMMA EvaluateDescribes ==
  ASSUME ChernikovaInv, Described, Evaluate
  PROVE  Described' /\ PairsMade'
<1>1. /\ pc = "head" /\ pc' \in {"line", "sort"} /\ k < NbConstraints
      /\ UNCHANGED <<Mat, k, dual, NbBid, NbRay>>
      /\ Ray' = [x \in 0 .. NbRay - 1 |-> [Ray[x] EXCEPT ![0] = InnerProduct(Ray[x], Mat[k])]]
  BY DEF Evaluate
<1>2. Mat[k] \in IntRow /\ \A x \in 0 .. NbRay - 1 : Ray[x] \in IntRow
  BY <1>1 DEF ChernikovaInv, ChernikovaTyped
<1>3. ASSUME NEW x \in 0 .. NbRay - 1
      PROVE  Ray'[x] \in IntRow /\ SameCoordinates(Ray[x], Ray'[x])
  <2>1. InnerProduct(Ray[x], Mat[k]) \in Int
    BY <1>2, InnerProductInt
  <2>2. Ray'[x] = [Ray[x] EXCEPT ![0] = InnerProduct(Ray[x], Mat[k])]
    BY <1>1
  <2> QED BY <1>2, <2>1, <2>2, DimensionAssumption DEF IntRow, SameCoordinates, Coordinates
<1>4. OldRays = NbBid .. NbRay - 1 /\ OldRays' = OldRays /\ Known' = Known
  BY <1>1 DEF OldRays, Known
<1>5. \A x \in 0 .. NbBid - 1 \cup OldRays : x \in 0 .. NbRay - 1
  BY <1>4 DEF ChernikovaInv, ChernikovaTyped
<1>6. Describes(Known, Ray', 0 .. NbBid - 1, OldRays)
  BY <1>3, <1>5, DescribesSame DEF Described
<1> QED BY <1>1, <1>4, <1>6 DEF Described, PairsMade

\* The order of the rays does not count.
LEMMA SwappedDescribes ==
  ASSUME NEW A, NEW R, NEW P, NEW N, Describes(A, R, P, N), NEW a \in N, NEW b \in N, a \notin P, b \notin P,
         NEW S, \A x \in P \cup N : S[x] = R[Swapped(x, a, b)]
  PROVE  Describes(A, S, P, N)
<1> DEFINE f == [n \in N |-> Swapped(n, a, b)]
<1>1. \A n \in N : f[n] = Swapped(n, a, b)
  OBVIOUS
<1> HIDE DEF f
<1>2. \A n \in N : f[n] \in N
  BY <1>1 DEF Swapped
<1>3. \A n \in N, m \in N : f[n] = f[m] => n = m
  BY <1>1 DEF Swapped
<1>4. \A m \in N : \E n \in N : f[n] = m
  <2>1. \A m \in N : Swapped(m, a, b) \in N /\ f[Swapped(m, a, b)] = m
    BY <1>1 DEF Swapped
  <2> QED BY <2>1
<1>5. /\ \A n \in P : R[n] \in IntRow
      /\ \A n \in N : R[n] \in IntRow
  BY DEF Describes, Extreme
<1>6. \A n \in N : SameAt(S, n, R, f[n])
  BY <1>1, <1>2, <1>5, SelfSame DEF SameAt
<1>7. \A n \in P : SameAt(S, n, R, n)
  <2>1. \A n \in P : Swapped(n, a, b) = n
    BY DEF Swapped
  <2>2. \A n \in P : S[n] = R[n]
    BY <2>1
  <2> QED BY <1>5, <2>2, SelfSame DEF SameAt
<1> QED BY <1>2, <1>3, <1>4, <1>6, <1>7, Reindexed

\* The sort exchanges two rays at most.
LEMMA SortDescribes ==
  ASSUME ChernikovaInv, Described, Sort
  PROVE  Described' /\ PairsMade'
<1>1. /\ pc = "sort" /\ pc' = "sort" /\ Scanning
      /\ UNCHANGED <<Mat, k, dual, NbBid, NbRay>>
  BY DEF Sort, SortStep, Satisfy, Verify, Violate
<1>2. /\ NbBid \in Nat /\ NbRay \in Nat /\ equal_bound \in Int /\ sup_bound \in Int
      /\ inf_bound \in Int /\ NbBid <= equal_bound /\ equal_bound <= sup_bound
      /\ sup_bound < inf_bound /\ inf_bound <= NbRay /\ DOMAIN Ray = 0 .. NbRay - 1
  BY <1>1, InSort DEF Scanning
<1>3. /\ OldRays = NbBid .. NbRay - 1 /\ OldRays' = OldRays /\ Known' = Known
  BY <1>1 DEF OldRays, Known
<1>4. \A x \in 0 .. NbBid - 1 \cup OldRays : x \in 0 .. NbRay - 1
  BY <1>2, <1>3
<1>5. \E a \in OldRays, b \in OldRays : \A x \in 0 .. NbRay - 1 : Ray'[x] = Ray[Swapped(x, a, b)]
  <2>1. equal_bound \in OldRays /\ sup_bound \in OldRays /\ inf_bound - 1 \in OldRays
    BY <1>2, <1>3
  <2>2. equal_bound \in 0 .. NbRay - 1 /\ sup_bound \in 0 .. NbRay - 1 /\ inf_bound - 1 \in 0 .. NbRay - 1
    BY <1>4, <2>1
  <2>3. CASE Satisfy
    <3>1. Ray' = Exchange(Ray, equal_bound, sup_bound)
      BY <2>3 DEF Satisfy
    <3>2. \A x \in 0 .. NbRay - 1 : Ray'[x] = Ray[Swapped(x, equal_bound, sup_bound)]
      <4> DEFINE I == 0 .. NbRay - 1
      <4>1. DOMAIN Ray = I /\ equal_bound \in I /\ sup_bound \in I
        BY <1>2, <2>2
      <4> HIDE DEF I
      <4>2. ASSUME NEW x \in I PROVE Ray'[x] = Ray[Swapped(x, equal_bound, sup_bound)]
        BY <3>1, <4>1, ExchangedRows
      <4> QED BY <4>2 DEF I
    <3> QED BY <2>1, <3>2
  <2>4. CASE Verify
    <3>1. Ray' = Ray
      BY <2>4 DEF Verify
    <3>2. \A x \in 0 .. NbRay - 1 : Ray'[x] = Ray[Swapped(x, sup_bound, sup_bound)]
      BY <3>1 DEF Swapped
    <3> QED BY <2>1, <3>2
  <2>5. CASE Violate
    <3>1. Ray' = Exchange(Ray, inf_bound - 1, sup_bound)
      BY <2>5 DEF Violate
    <3>2. \A x \in 0 .. NbRay - 1 : Ray'[x] = Ray[Swapped(x, inf_bound - 1, sup_bound)]
      <4> DEFINE I == 0 .. NbRay - 1
      <4>1. DOMAIN Ray = I /\ inf_bound - 1 \in I /\ sup_bound \in I
        BY <1>2, <2>2
      <4> HIDE DEF I
      <4>2. ASSUME NEW x \in I PROVE Ray'[x] = Ray[Swapped(x, inf_bound - 1, sup_bound)]
        BY <3>1, <4>1, ExchangedRows
      <4> QED BY <4>2 DEF I
    <3> QED BY <2>1, <3>2
  <2> QED BY <2>3, <2>4, <2>5 DEF Sort, SortStep
<1>6. PICK a \in OldRays, b \in OldRays : \A x \in 0 .. NbRay - 1 : Ray'[x] = Ray[Swapped(x, a, b)]
  BY <1>5
<1>7. a \notin 0 .. NbBid - 1 /\ b \notin 0 .. NbBid - 1
  BY <1>2, <1>3
<1>8. \A x \in 0 .. NbBid - 1 \cup OldRays : Ray'[x] = Ray[Swapped(x, a, b)]
  BY <1>4, <1>6
<1>9. Describes(Known, Ray', 0 .. NbBid - 1, OldRays)
  BY <1>7, <1>8, SwappedDescribes DEF Described
<1> QED BY <1>1, <1>3, <1>9 DEF Described, PairsMade

\* Before the first pair nothing has been joined.
LEMMA StartPairsDescribes ==
  ASSUME ChernikovaInv, Described, StartPairs
  PROVE  Described' /\ PairsMade'
<1>1. /\ pc = "sort" /\ pc' = "pairs" /\ ~Scanning
      /\ i' = equal_bound /\ j' = sup_bound /\ bound' = NbRay
      /\ UNCHANGED <<Mat, k, dual, Ray, NbBid, NbRay, equal_bound, sup_bound>>
  BY DEF StartPairs, bounds
<1>2. /\ NbBid \in Nat /\ NbRay \in Nat /\ equal_bound \in Int /\ sup_bound \in Int
      /\ NbBid <= equal_bound /\ equal_bound <= sup_bound /\ sup_bound <= NbRay
      /\ \A x \in 0 .. equal_bound - 1 : Ray[x][0] = 0
      /\ \A x \in equal_bound .. sup_bound - 1 : Ray[x][0] > 0
  BY <1>1, InSort
<1>3. \A x \in 0 .. NbRay - 1 : Ray[x][0] = InnerProduct(Ray[x], Mat[k])
  BY <1>1 DEF ChernikovaInv, StatusExact
<1>4. OldRays = NbBid .. NbRay - 1 /\ OldRays' = OldRays /\ Known' = Known
  BY <1>1 DEF OldRays, Known
<1>5. Described'
  BY <1>1, <1>4 DEF Described
<1>6. Visited' = {}
  <2>1. ASSUME NEW v \in Visited' PROVE FALSE
    <3>1. /\ v[1] \in OldRays /\ v[2] \in OldRays
          /\ InnerProduct(Ray[v[1]], Mat[k]) > 0 /\ InnerProduct(Ray[v[2]], Mat[k]) < 0
          /\ v[1] < equal_bound \/ (v[1] = equal_bound /\ v[2] < sup_bound)
      BY <1>1, <1>4 DEF Visited, Crosses, Crossing, Reached
    <3>2. PICK x \in 0 .. NbRay - 1, y \in 0 .. NbRay - 1 : x = v[1] /\ y = v[2]
      BY <1>2, <1>4, <3>1
    <3>3. Ray[x][0] > 0 /\ Ray[y][0] < 0
      BY <1>3, <3>1, <3>2
    <3>4. ~(x \in 0 .. equal_bound - 1)
      BY <1>2, <3>3
    <3>5. ~(y \in 0 .. equal_bound - 1) /\ ~(y \in equal_bound .. sup_bound - 1)
      <4>1. \A z \in 0 .. NbRay - 1 : Ray[z][0] < 0 => ~(Ray[z][0] = 0) /\ ~(Ray[z][0] > 0)
        <5>1. \A z \in 0 .. NbRay - 1 : Ray[z][0] \in Int
          BY <1>1, InSort
        <5> QED BY <5>1
      <4> QED BY <1>2, <3>3, <4>1
    <3> QED BY <1>2, <3>1, <3>2, <3>4, <3>5
  <2> QED BY <2>1
<1>7. bound' .. NbRay' - 1 = {}
  BY <1>1, <1>2
<1>8. JoinsOf({}, {}, Known', Ray', Mat[k])
  BY DEF JoinsOf
<1>9. j' < bound' \/ bound' <= sup_bound'
  BY <1>1, <1>2
<1> QED BY <1>1, <1>5, <1>6, <1>7, <1>8, <1>9 DEF PairsMade

\* The straightened rows are what the geometry expects of them.
LEMMA StraightenedIs ==
  ASSUME ChernikovaInv, pc = "line"
  PROVE  Straight(Straightened, 0 .. (NbBid - 1) - 1, NbBid - 1, Known, Ray, 0 .. NbBid - 1,
                  NbBid .. NbRay - 1, Mat[k])
<1> DEFINE z == NbBid - 1
           S == Straightened
           Q == 0 .. z - 1
           N == NbBid .. NbRay - 1
<1>1. /\ z \in 0 .. NbRay - 1
      /\ S \in [0 .. NbRay - 1 -> IntRow]
      /\ \A x \in Q : InnerProduct(S[x], Mat[k]) = 0
      /\ InLineality(S[z], Mat, Before, dual) /\ InnerProduct(S[z], Mat[k]) > 0
      /\ \A x \in N :
           /\ InCone(S[x], Mat, Before, dual) /\ InnerProduct(S[x], Mat[k]) = 0
           /\ Unsaturated(S[x], Mat, Before) = Unsaturated(Ray[x], Mat, Before)
           /\ dual \/ (AtInfinity(S[x]) <=> AtInfinity(Ray[x]))
      /\ \A u \in IntRow : (\A x \in 0..z : InnerProduct(u, S[x]) = 0) =>
                             \A x \in 0..z : InnerProduct(u, Ray[x]) = 0
  BY StraightenedRows
<1>2. /\ NbBid \in Nat /\ NbRay \in Nat /\ Mat[k] \in IntRow
      /\ \A x \in 0 .. NbRay - 1 : Ray[x] \in IntRow
  BY RowsKnown DEF ChernikovaInv, ChernikovaTyped
<1> HIDE DEF S
<1>3. z \notin N /\ IsFiniteSet(Q) /\ Q \cup {z} = 0..z /\ (\A x \in N : x \in 0 .. NbRay - 1)
      /\ \A x \in Q : x \in 0 .. NbRay - 1
  <2>1. z \notin N /\ Q \cup {z} = 0..z /\ (\A x \in N : x \in 0 .. NbRay - 1)
        /\ \A x \in Q : x \in 0 .. NbRay - 1
    BY <1>1, <1>2
  <2>2. 0 \in Int /\ z - 1 \in Int
    BY <1>2
  <2> QED BY <2>1, <2>2, FS_Interval
<1>4. ASSUME NEW n \in N
      PROVE  /\ S[n] \in IntRow /\ Within(S[n], Known) /\ InnerProduct(S[n], Mat[k]) = 0
             /\ Zeros(S[n], Known) = Zeros(Ray[n], Known)
  <2>1. S[n] \in IntRow /\ Ray[n] \in IntRow
    BY <1>1, <1>2, <1>3
  <2>2. /\ Within(S[n], Known)
        /\ Zeros(S[n], Known) = SaturatedBy(S[n], Mat, Before, dual)
        /\ Zeros(Ray[n], Known) = SaturatedBy(Ray[n], Mat, Before, dual)
    BY <1>1, <2>1, KnownIs
  <2>3. SaturatedBy(S[n], Mat, Before, dual) = SaturatedBy(Ray[n], Mat, Before, dual)
    BY <1>1 DEF SaturatedBy, AtInfinity
  <2> QED BY <1>1, <2>1, <2>2, <2>3
<1>5. ASSUME NEW n \in Q PROVE S[n] \in IntRow /\ InnerProduct(Mat[k], S[n]) = 0
  <2>1. S[n] \in IntRow /\ InnerProduct(S[n], Mat[k]) = 0
    BY <1>1, <1>3
  <2> QED BY <1>2, <2>1, InnerProductSymmetric
<1>6. S[z] \in IntRow /\ Zeros(S[z], Known) = DOMAIN Known /\ InnerProduct(S[z], Mat[k]) > 0
  BY <1>1, KnownIs
<1>7. \A u \in IntRow : (\A n \in Q \cup {z} : InnerProduct(u, S[n]) = 0) =>
                          \A n \in 0..z : InnerProduct(u, Ray[n]) = 0
  BY <1>1, <1>3
<1> HIDE DEF z, Q, N
<1>8. Straight(S, Q, z, Known, Ray, 0..z, N, Mat[k])
  BY <1>3, <1>4, <1>5, <1>6, <1>7 DEF Straight
<1> QED BY <1>8 DEF S, Q, z, N

\* The constraint that a turn ends with joins the others.
LEMMA KnownNext ==
  ASSUME ChernikovaInv, NextConstraint, UNCHANGED <<Mat, dual>>
  PROVE  /\ Known' = Extended(Known, k, Mat[k]) /\ pc' = "head" /\ k \notin DOMAIN Known
         /\ OldRays' = NbBid' .. NbRay' - 1
<1>1. k \in Nat /\ dual \in BOOLEAN /\ k' = k + 1 /\ pc' = "head"
  BY DEF ChernikovaInv, ChernikovaTyped, NextConstraint
<1>2. Known' = Family(Mat, k + 1, dual)
  BY <1>1 DEF Known
<1>3. k \notin DOMAIN Known
  BY KnownIs
<1>4. Family(Mat, k + 1, dual) = Extended(Family(Mat, k, dual), k, Mat[k])
  BY <1>1, FamilyNext
<1>5. OldRays' = NbBid' .. NbRay' - 1
  BY <1>1 DEF OldRays
<1> QED BY <1>1, <1>2, <1>3, <1>4, <1>5 DEF Known

\* The line that left is the new ray.
LEMMA LineToRayDescribes ==
  ASSUME ChernikovaInv, Described, LineToRay
  PROVE  Described' /\ PairsMade'
<1> DEFINE z == NbBid - 1
<1>1. /\ pc = "line" /\ NbBid' = z /\ Ray' = Straightened /\ NbRay' = NbRay
      /\ NextConstraint /\ UNCHANGED <<Mat, dual>> /\ Mat[k][0] # 0
  BY DEF LineToRay, Equality
<1>2. /\ Known' = Extended(Known, k, Mat[k]) /\ pc' = "head" /\ k \notin DOMAIN Known
      /\ OldRays' = z .. NbRay - 1
  BY <1>1, KnownNext
<1>3. OldRays = NbBid .. NbRay - 1
  BY <1>1 DEF OldRays
<1>4. Mat[k] \in IntRow
  BY <1>1, RowsKnown DEF ChernikovaInv
<1>5. z .. NbRay - 1 = OldRays \cup {z}
  <2>1. NbBid \in Nat /\ NbRay \in Nat /\ NbBid <= NbRay
    BY DEF ChernikovaInv, ChernikovaTyped
  <2> QED BY <1>3, <2>1
<1>6. Straight(Straightened, 0 .. z - 1, z, Known, Ray, 0 .. NbBid - 1, OldRays, Mat[k])
  BY <1>1, <1>3, StraightenedIs
<1>7. Describes(Extended(Known, k, Mat[k]), Straightened, 0 .. z - 1,
                IF Mat[k][0] = 0 THEN OldRays ELSE OldRays \cup {z})
  BY <1>2, <1>4, <1>6, LineMet DEF Described
<1>8. Describes(Known', Ray', 0 .. NbBid' - 1, OldRays')
  BY <1>1, <1>2, <1>5, <1>7
<1> QED BY <1>2, <1>8 DEF Described, PairsMade

\* The line that left is gone; the last ray has taken its row.
LEMMA DiscardLineDescribes ==
  ASSUME ChernikovaInv, Described, DiscardLine
  PROVE  Described' /\ PairsMade'
<1> DEFINE z == NbBid - 1
           n == NbRay - 1
           S == Straightened
           N == NbBid .. NbRay - 1
           M == z .. n - 1
           f == [x \in M |-> IF x = z THEN n ELSE x]
<1>1. /\ pc = "line" /\ NbBid' = z /\ NbRay' = n /\ Ray' = Rows(WithRow(S, z, S[n]), n)
      /\ NextConstraint /\ UNCHANGED <<Mat, dual>> /\ Mat[k][0] = 0
  BY DEF DiscardLine, Equality
<1>2. /\ Known' = Extended(Known, k, Mat[k]) /\ pc' = "head" /\ k \notin DOMAIN Known
      /\ OldRays' = M
  BY <1>1, KnownNext
<1>3. OldRays = N
  BY <1>1 DEF OldRays
<1>4. Mat[k] \in IntRow
  BY <1>1, RowsKnown DEF ChernikovaInv
<1>5. /\ NbBid \in Nat /\ NbRay \in Nat /\ NbBid <= NbRay /\ z \in 0 .. NbRay - 1
      /\ S \in [0 .. NbRay - 1 -> IntRow]
  <2>1. NbBid \in Nat /\ NbRay \in Nat /\ NbBid <= NbRay
    BY DEF ChernikovaInv, ChernikovaTyped
  <2> QED BY <1>1, <2>1, StraightenedRows
<1>6. Straight(S, 0 .. z - 1, z, Known, Ray, 0 .. NbBid - 1, N, Mat[k])
  BY <1>1, StraightenedIs
<1>7. Describes(Extended(Known, k, Mat[k]), S, 0 .. z - 1, IF Mat[k][0] = 0 THEN N ELSE N \cup {z})
  BY <1>2, <1>3, <1>4, <1>6, LineMet DEF Described
<1>8. Describes(Extended(Known, k, Mat[k]), S, 0 .. z - 1, N)
  BY <1>1, <1>7
<1>9. \A x \in 0 .. n - 1 : Ray'[x] = IF x = z THEN S[n] ELSE S[x]
  <2>1. DOMAIN S = 0 .. NbRay - 1 /\ \A x \in 0 .. n - 1 : x \in 0 .. NbRay - 1
    BY <1>5
  <2>2. \A x \in 0 .. n - 1 : Ray'[x] = WithRow(S, z, S[n])[x]
    BY <1>1 DEF Rows
  <2> QED BY <2>1, <2>2 DEF WithRow
<1>10. /\ \A x \in M : x \in 0 .. n - 1 /\ f[x] \in N /\ f[x] \in 0 .. NbRay - 1
       /\ \A x \in M, y \in M : f[x] = f[y] => x = y
       /\ \A y \in N : \E x \in M : f[x] = y
       /\ \A x \in 0 .. z - 1 : x \in 0 .. n - 1 /\ x # z /\ x \in 0 .. NbRay - 1
  <2>1. \A x \in M : x \in 0 .. n - 1 /\ f[x] \in N /\ f[x] \in 0 .. NbRay - 1
    BY <1>5
  <2>2. \A x \in M, y \in M : f[x] = f[y] => x = y
    BY <1>5
  <2>3. ASSUME NEW y \in N PROVE \E x \in M : f[x] = y
    <3>1. CASE y = n
      <4>1. z \in M /\ f[z] = y
        BY <1>5, <3>1
      <4> QED BY <4>1
    <3>2. CASE y # n
      <4>1. y \in M /\ f[y] = y
        BY <1>5, <3>2
      <4> QED BY <4>1
    <3> QED BY <3>1, <3>2
  <2> QED BY <1>5, <2>1, <2>2, <2>3
<1>11. \A x \in M : Ray'[x] = S[f[x]] /\ S[f[x]] \in IntRow
  BY <1>5, <1>9, <1>10
<1>12. \A x \in 0 .. z - 1 : Ray'[x] = S[x] /\ S[x] \in IntRow
  BY <1>5, <1>9, <1>10
<1> HIDE DEF f, M, N, S
<1>13. /\ \A x \in M : f[x] \in N /\ SameAt(Ray', x, S, f[x])
       /\ \A x \in 0 .. z - 1 : SameAt(Ray', x, S, x)
  BY <1>10, <1>11, <1>12, SelfSame DEF SameAt
<1>14. Describes(Extended(Known, k, Mat[k]), Ray', 0 .. z - 1, M)
  <2> DEFINE A == Extended(Known, k, Mat[k])
             P == 0 .. z - 1
             R == Ray'
  <2>1. Describes(A, S, P, N)
    BY <1>8
  <2>2. \A x \in M : f[x] \in N /\ SameAt(R, x, S, f[x])
    BY <1>13
  <2>3. \A x \in P : SameAt(R, x, S, x)
    BY <1>13
  <2>4. (\A x \in M, y \in M : f[x] = f[y] => x = y) /\ (\A y \in N : \E x \in M : f[x] = y)
    BY <1>10
  <2> HIDE DEF A, P, R
  <2>5. Describes(A, R, P, M)
    BY ONLY <2>1, <2>2, <2>3, <2>4, Reindexed
  <2> QED BY <2>5 DEF A, P, R
<1>15. Describes(Known', Ray', 0 .. NbBid' - 1, OldRays')
  BY <1>1, <1>2, <1>14
<1> QED BY <1>2, <1>15 DEF Described, PairsMade

\* Every row that stays has one place, and no other row has the same.
LEMMA KeptRows ==
  ASSUME NbRay \in Nat, bound \in 0..NbRay, NEW first \in 0..bound, NEW low \in 0..first
  PROVE  LET M == low .. (first + NbRay - bound) - 1
         IN  /\ \A x \in M : KeptFrom(x, first) \in low .. first - 1 \cup bound .. NbRay - 1
             /\ \A x \in M, y \in M : KeptFrom(x, first) = KeptFrom(y, first) => x = y
             /\ \A y \in low .. first - 1 \cup bound .. NbRay - 1 : \E x \in M : KeptFrom(x, first) = y
<1> DEFINE moved == IF bound - first < NbRay - bound THEN bound - first ELSE NbRay - bound
           n == first + NbRay - bound
           M == low .. n - 1
<1>1. /\ moved \in Int /\ moved <= bound - first /\ moved <= NbRay - bound
      /\ moved = bound - first \/ moved = NbRay - bound
      /\ first \in Nat /\ bound \in Nat /\ NbRay \in Nat /\ low \in Nat /\ low <= first
      /\ first <= bound /\ bound <= NbRay
  OBVIOUS
<1>2. \A x : KeptFrom(x, first) = IF x >= first /\ x < first + moved THEN NbRay - 1 - (x - first) ELSE x
  BY DEF KeptFrom
<1> HIDE DEF moved
<1>3. \A x \in M : KeptFrom(x, first) \in low .. first - 1 \cup bound .. NbRay - 1
  BY <1>1, <1>2
<1>4. \A x \in M, y \in M : KeptFrom(x, first) = KeptFrom(y, first) => x = y
  BY <1>1, <1>2
<1>5. ASSUME NEW y \in low .. first - 1 PROVE \E x \in M : KeptFrom(x, first) = y
  <2>1. y \in M /\ KeptFrom(y, first) = y
    BY <1>1, <1>2
  <2> QED BY <2>1
<1>6. ASSUME NEW y \in bound .. NbRay - 1 PROVE \E x \in M : KeptFrom(x, first) = y
  <2>1. CASE y \in first + moved .. n - 1
    <3>1. y \in M /\ KeptFrom(y, first) = y
      BY <1>1, <1>2, <2>1
    <3> QED BY <3>1
  <2>2. CASE ~(y \in first + moved .. n - 1)
    <3> DEFINE x == first + (NbRay - 1 - y)
    <3>1. x \in Int /\ x >= first /\ x < first + moved /\ NbRay - 1 - (x - first) = y
      BY <1>1, <2>2
    <3>2. x \in M
      BY <1>1, <3>1
    <3> HIDE DEF x
    <3>3. KeptFrom(x, first) = y
      BY <1>2, <3>1
    <3> QED BY <3>2, <3>3
  <2> QED BY <2>1, <2>2
<1> QED BY <1>3, <1>4, <1>5, <1>6

\* The rays that verify the constraint and the new ones are those of the next turn.
LEMMA EliminateDescribes ==
  ASSUME ChernikovaInv, Described, PairsMade, Eliminate
  PROVE  Described' /\ PairsMade'
<1> DEFINE first == FirstDropped
           n == first + NbRay - bound
           N == OldRays
           W == bound .. NbRay - 1
           K == {x \in N : Verifies(Ray[x], Mat[k])}
           P == 0 .. NbBid - 1
           M == NbBid .. n - 1
           f == [x \in M |-> KeptFrom(x, first)]
           A == Extended(Known, k, Mat[k])
<1>1. /\ pc = "pairs" /\ pc # "head" /\ ~InPairs /\ Ray' = Compacted(Ray, first) /\ NbRay' = n
      /\ NextConstraint /\ UNCHANGED <<Mat, dual, NbBid>>
  BY DEF Eliminate
<1>2. /\ NbBid \in Nat /\ NbRay \in Nat /\ equal_bound \in Int /\ sup_bound \in Int /\ i \in Int /\ j \in Int
      /\ bound \in Int /\ NbBid <= equal_bound /\ equal_bound <= sup_bound /\ sup_bound <= bound /\ bound <= NbRay
  BY <1>1, InPairsFacts
<1>3. /\ \A x \in 0 .. NbRay - 1 : Ray[x] \in IntRow /\ Ray[x][0] = InnerProduct(Ray[x], Mat[k])
      /\ \A x \in 0 .. equal_bound - 1 : Ray[x][0] = 0
      /\ \A x \in equal_bound .. sup_bound - 1 : Ray[x][0] > 0
      /\ \A x \in sup_bound .. bound - 1 : Ray[x][0] < 0
  BY <1>1, InPairsFacts
<1>4. /\ Known' = A /\ pc' = "head" /\ k \notin DOMAIN Known /\ OldRays' = M
  BY <1>1, KnownNext
<1>5. N = NbBid .. bound - 1
  BY <1>1 DEF OldRays
<1>6. Mat[k] \in IntRow
  BY <1>1, RowsKnown DEF ChernikovaInv
<1>7. /\ first \in 0..bound /\ NbBid \in 0..first
      /\ Mat[k][0] = 0 => first = equal_bound
      /\ Mat[k][0] # 0 => first = sup_bound
  BY <1>2 DEF FirstDropped, Equality
<1> HIDE DEF first
<1>8. Level(Mat[k], Ray, P)
  <2>1. ASSUME NEW x \in P PROVE InnerProduct(Mat[k], Ray[x]) = 0
    <3>1. x \in 0 .. NbRay - 1 /\ x \in 0 .. equal_bound - 1
      BY <1>2
    <3>2. Ray[x] \in IntRow /\ InnerProduct(Ray[x], Mat[k]) = 0
      BY <1>3, <3>1
    <3> QED BY <1>6, <3>2, InnerProductSymmetric
  <2> QED BY <2>1 DEF Level
<1>9. ASSUME NEW p \in N, NEW q \in N, Crosses(p, q) PROVE <<p, q>> \in Visited
  <2>1. p \in equal_bound .. sup_bound - 1 /\ q \in sup_bound .. bound - 1
    BY <1>1, <1>9, CrossesInTiers
  <2>2. sup_bound < bound
    BY <1>2, <2>1
  <2>3. i >= sup_bound
    BY <1>1, <1>2, <2>2 DEF InPairs, PairsMade
  <2>4. Reached(p, q)
    BY <1>2, <2>1, <2>3 DEF Reached
  <2> QED BY <1>9, <2>4 DEF Visited
<1>10. Describes(A, Ray, P, K \cup W)
  <2>1. \A v \in Visited : Crossing(v[1], v[2], Known, Ray, P, N, Mat[k])
    BY DEF Visited, Crosses
  <2>2. \A p \in N, q \in N : Crossing(p, q, Known, Ray, P, N, Mat[k]) => <<p, q>> \in Visited
    BY <1>9 DEF Crosses
  <2>3. JoinsOf(W, Visited, Known, Ray, Mat[k])
    BY <1>1 DEF PairsMade
  <2>4. Describes(Known, Ray, P, N)
    BY DEF Described
  <2> HIDE DEF P, N, W
  <2> QED BY <1>4, <1>6, <1>8, <2>1, <2>2, <2>3, <2>4, PairsJoined
<1>11. K = NbBid .. first - 1
  <2>1. ASSUME NEW x \in N PROVE Verifies(Ray[x], Mat[k]) <=> x < first
    <3>1. /\ x \in 0 .. NbRay - 1 /\ x \in Nat /\ x < bound
          /\ x \in 0 .. equal_bound - 1 \/ x \in equal_bound .. sup_bound - 1 \/ x \in sup_bound .. bound - 1
      BY <1>2, <1>5
    <3>2. InnerProduct(Ray[x], Mat[k]) = Ray[x][0] /\ Ray[x][0] \in Int
      BY <1>3, <3>1, LastInt
    <3>3. CASE x \in 0 .. equal_bound - 1
      <4>1. x < first
        BY <1>2, <1>7, <3>3
      <4>2. Ray[x][0] = 0
        BY <1>3, <3>3
      <4> QED BY <3>2, <4>1, <4>2 DEF Verifies
    <3>4. CASE x \in equal_bound .. sup_bound - 1
      <4>1. x < first <=> Mat[k][0] # 0
        BY <1>2, <1>7, <3>4
      <4>2. Ray[x][0] > 0
        BY <1>3, <3>4
      <4> QED BY <3>2, <4>1, <4>2 DEF Verifies
    <3>5. CASE x \in sup_bound .. bound - 1
      <4>1. ~(x < first)
        BY <1>2, <1>7, <3>5
      <4>2. Ray[x][0] < 0
        BY <1>3, <3>5
      <4> QED BY <3>2, <4>1, <4>2 DEF Verifies
    <3> QED BY <3>1, <3>3, <3>4, <3>5
  <2>2. K = {x \in N : x < first}
    BY <2>1
  <2> HIDE DEF K, N
  <2> QED BY <1>2, <1>5, <1>7, <2>2
<1>12. /\ \A x \in M : f[x] = KeptFrom(x, first)
       /\ \A x \in M : f[x] \in K \cup W
       /\ \A x \in M, y \in M : f[x] = f[y] => x = y
       /\ \A y \in K \cup W : \E x \in M : f[x] = y
  <2>1. bound \in 0..NbRay
    BY <1>2
  <2>2. \A x \in M : f[x] = KeptFrom(x, first)
    OBVIOUS
  <2>3. /\ \A x \in M : KeptFrom(x, first) \in K \cup W
        /\ \A x \in M, y \in M : KeptFrom(x, first) = KeptFrom(y, first) => x = y
        /\ \A y \in K \cup W : \E x \in M : KeptFrom(x, first) = y
    <3> DEFINE B == NbBid .. first - 1 \cup bound .. NbRay - 1
    <3>1. K \cup W = B
      BY <1>11
    <3>2. /\ \A x \in M : KeptFrom(x, first) \in B
          /\ \A x \in M, y \in M : KeptFrom(x, first) = KeptFrom(y, first) => x = y
          /\ \A y \in B : \E x \in M : KeptFrom(x, first) = y
      BY <1>2, <1>7, <2>1, KeptRows
    <3> HIDE DEF B, K, W
    <3> QED BY <3>1, <3>2
  <2> HIDE DEF f, K, W, M
  <2> QED BY <2>2, <2>3
<1>13. \A x \in 0 .. n - 1 : Ray'[x] = Ray[KeptFrom(x, first)] /\ KeptFrom(x, first) \in 0 .. NbRay - 1
                              /\ (x < first => KeptFrom(x, first) = x)
  <2>1. bound \in 0..NbRay
    BY <1>2
  <2> QED BY <1>1, <1>2, <1>7, <2>1, CompactedRows
<1>14. /\ \A x \in M : x \in 0 .. n - 1
       /\ \A x \in P : x \in 0 .. n - 1 /\ x < first /\ x \in 0 .. NbRay - 1
  BY <1>2, <1>7
<1>15. \A x \in M : f[x] \in K \cup W /\ SameAt(Ray', x, Ray, f[x])
  <2>1. \A x \in M : Ray'[x] = Ray[f[x]] /\ Ray[f[x]] \in IntRow
    BY <1>3, <1>12, <1>13, <1>14
  <2> QED BY <1>12, <2>1, SelfSame DEF SameAt
<1>16. \A x \in P : SameAt(Ray', x, Ray, x)
  <2>1. \A x \in P : Ray'[x] = Ray[x] /\ Ray[x] \in IntRow
    BY <1>3, <1>13, <1>14
  <2> QED BY <2>1, SelfSame DEF SameAt
<1>17. Describes(A, Ray', P, M)
  <2> DEFINE S == Ray'
             B == K \cup W
  <2>1. Describes(A, Ray, P, B) /\ (\A x \in P : SameAt(S, x, Ray, x))
    BY <1>10, <1>16
  <2>2. \A x \in M : f[x] \in B /\ SameAt(S, x, Ray, f[x])
    BY <1>15
  <2>3. (\A x \in M, y \in M : f[x] = f[y] => x = y) /\ (\A y \in B : \E x \in M : f[x] = y)
    BY <1>12
  <2> HIDE DEF S, B, A, P, M, f, K, W
  <2>4. Describes(A, S, P, M)
    BY ONLY <2>1, <2>2, <2>3, Reindexed
  <2> QED BY <2>4 DEF S
<1>18. Describes(Known', Ray', 0 .. NbBid' - 1, OldRays')
  BY <1>1, <1>4, <1>17
<1> QED BY <1>4, <1>18 DEF Described, PairsMade

(***************************************************************************)
(* Every step of Chernikova keeps the rows those of the cone: none is      *)
(* missing, none could be left out, and the lines span the lineality space.*)
(***************************************************************************)
LEMMA ProcessConstraintDescribes ==
  ASSUME ChernikovaInv, Described, PairsMade, ProcessConstraint
  PROVE  Described' /\ PairsMade'
BY EvaluateDescribes, LineToRayDescribes, DiscardLineDescribes, SortDescribes, StartPairsDescribes,
   AddRayDescribes, SkipPairDescribes, EliminateDescribes DEF ProcessConstraint
-----------------------------------------------------------------------------
(* Without constraints.                                                    *)

\* The rows the callers start from, whatever their status words.
AreUnits(R) == \A x \in 0 .. Dimension - 1 :
  R[x] \in IntRow /\ \A c \in Coordinates : R[x][c] = IF c = x + 1 THEN 1 ELSE 0

\* The lines among them, and the ray: the vertex, in the primal case.
FirstLines(d) == 0 .. (IF d THEN Dimension ELSE Dimension - 1) - 1
FirstRays(d) == (IF d THEN Dimension ELSE Dimension - 1) .. Dimension - 1

\* The unit rows describe the whole space, or the half of it where the last
\* coordinate is not negative.
LEMMA UnitsDescribe ==
  ASSUME NEW R, AreUnits(R), NEW M, NEW d \in BOOLEAN
  PROVE  Describes(Family(M, 0, d), R, FirstLines(d), FirstRays(d))
<1> DEFINE A == Family(M, 0, d)
           P == FirstLines(d)
           N == FirstRays(d)
<1>1. /\ IsFamily(A)
      /\ \A r \in IntRow : Within(r, A) <=> InCone(r, M, 0 .. 0 - 1, d)
      /\ \A r \in IntRow : Zeros(r, A) = DOMAIN A <=> InLineality(r, M, 0 .. 0 - 1, d)
  <2>1. HasRows(M, 0 .. 0 - 1) /\ 0 \in Nat
    BY DEF HasRows
  <2> QED BY <2>1, FamilyIs
<1>2. \A r \in IntRow : /\ Within(r, A) <=> d \/ r[Dimension] >= 0
                        /\ Zeros(r, A) = DOMAIN A <=> d \/ r[Dimension] = 0
  BY <1>1 DEF InCone, InLineality
<1>3. DOMAIN A = IF d THEN {} ELSE {-1}
  BY DEF Family
<1> HIDE DEF A
<1>4. \A r : Zeros(r, A) = DOMAIN A \/ Zeros(r, A) = {}
  BY <1>3 DEF Zeros
<1>5. \A x \in 0 .. Dimension - 1 : R[x] \in IntRow /\ x + 1 \in Coordinates
  BY DimensionAssumption DEF AreUnits, Coordinates
<1>6. ASSUME NEW x \in 0 .. Dimension - 1, NEW v \in IntRow
      PROVE  InnerProduct(v, R[x]) = v[x + 1]
  <2>1. Axis(x + 1) \in IntRow /\ InnerProduct(v, Axis(x + 1)) = v[x + 1]
    BY <1>5, AxisProduct
  <2>2. \A c \in Coordinates : R[x][c] = Axis(x + 1)[c]
    BY DimensionAssumption DEF AreUnits, Axis, Coordinates
  <2>3. InnerProduct(R[x], v) = InnerProduct(Axis(x + 1), v)
    BY <1>5, <2>1, <2>2, InnerProductSame
  <2>4. InnerProduct(v, R[x]) = InnerProduct(R[x], v) /\ InnerProduct(v, Axis(x + 1)) = InnerProduct(Axis(x + 1), v)
    BY <1>5, <2>1, InnerProductSymmetric
  <2> QED BY <2>1, <2>3, <2>4
<1>7. /\ Dimension \in Nat /\ Dimension >= 2
      /\ d => P = 0 .. Dimension - 1 /\ N = {}
      /\ ~d => P = 0 .. Dimension - 2 /\ N = {Dimension - 1}
  BY DimensionAssumption DEF FirstLines, FirstRays
<1> HIDE DEF P, N
<1>8. IsFiniteSet(P) /\ (\A n \in P : R[n] \in IntRow) /\ \A n \in P : n \in 0 .. Dimension - 1
  <2>1. \A n \in P : n \in 0 .. Dimension - 1
    BY <1>7
  <2>2. IsFiniteSet(0 .. Dimension - 1)
    <3>1. 0 \in Int /\ Dimension - 1 \in Int
      BY <1>7
    <3> QED BY <3>1, FS_Interval
  <2>3. IsFiniteSet(P)
    BY <2>1, <2>2, FS_Subset
  <2> QED BY <1>5, <2>1, <2>3
<1>9. LinesSpan(A, R, P)
  <2>1. ASSUME NEW z \in IntRow, NEW v \in IntRow, Zeros(z, A) = DOMAIN A,
               \A n \in P : InnerProduct(v, R[n]) = 0
        PROVE  InnerProduct(v, z) = 0
    <3>1. ASSUME NEW c \in Coordinates PROVE v[c] = 0 \/ z[c] = 0
      <4>1. CASE c - 1 \in P
        <5>1. c - 1 \in 0 .. Dimension - 1 /\ (c - 1) + 1 = c
          BY <1>8, <4>1 DEF Coordinates
        <5>2. InnerProduct(v, R[c - 1]) = v[c]
          BY <1>6, <5>1
        <5> QED BY <2>1, <4>1, <5>2
      <4>2. CASE c - 1 \notin P
        <5>1. c = Dimension /\ ~d
          BY <1>7, <4>2 DEF Coordinates
        <5> QED BY <1>2, <2>1, <5>1
      <4> QED BY <4>1, <4>2
    <3> QED BY <3>1, DisjointProduct
  <2> QED BY <2>1 DEF LinesSpan
<1>10. CASE d
  <2>1. Covers(A, R, N)
    BY <1>2, <1>10 DEF Covers
  <2>2. Extreme(A, R, N)
    BY <1>7, <1>10 DEF Extreme
  <2> QED BY <1>1, <1>8, <1>9, <2>1, <2>2 DEF Describes, A, P, N
<1>11. CASE ~d
  <2>1. Dimension - 1 \in 0 .. Dimension - 1 /\ Dimension \in Coordinates /\ N = {Dimension - 1}
    BY <1>7, <1>11 DEF Coordinates
  <2>2. R[Dimension - 1] \in IntRow /\ R[Dimension - 1][Dimension] = 1
    BY <2>1, DimensionAssumption DEF AreUnits, Coordinates
  <2>3. Within(R[Dimension - 1], A) /\ Zeros(R[Dimension - 1], A) # DOMAIN A
    BY <1>2, <1>11, <2>2
  <2>4. Covers(A, R, N)
    <3>1. \A x \in IntRow : Zeros(x, A) = DOMAIN A \/ Zeros(x, A) \subseteq Zeros(R[Dimension - 1], A)
      BY <1>4
    <3> QED BY <2>1, <3>1 DEF Covers
  <2>5. Extreme(A, R, N)
    BY <2>1, <2>2, <2>3 DEF Extreme
  <2> QED BY <1>1, <1>8, <1>9, <2>4, <2>5 DEF Describes, A, P, N
<1> QED BY <1>10, <1>11
============================================================================
