------------------------ MODULE ChernikovaSpec_proof ------------------------
(***************************************************************************)
(* Theorems about Chernikova run as its callers run it, for every          *)
(* Dimension, WSIZE, InitMaxRays and choice of Constraints and Matrices.   *)
(* What is assumed: the constraints, and the vectors the cone is sampled   *)
(* on, are rows of integers, and so are the coefficients of combinations.  *)
(***************************************************************************)
EXTENDS ChernikovaSpec, Chernikova_proof

\* What the callers give Chernikova: unit lines and no constraint.
LEMMA InitInv == Init => ChernikovaInv
<1> SUFFICES ASSUME Init PROVE ChernikovaInv
  OBVIOUS
<1> USE DEF Init
<1>1. /\ Dimension \in Nat /\ Dimension >= 2 /\ WSIZE \in Nat \ {0} /\ InitMaxRays \in Nat
      /\ dual \in BOOLEAN
  BY DimensionAssumption, WSIZEAssumption, InitMaxRaysAssumption, DualsAssumption
<1>2. NbConstraints = 0 /\ Mat \in [0 .. NbConstraints - 1 -> IntRow]
  <2>1. DOMAIN Mat = {}
    OBVIOUS
  <2>2. NbConstraints = 0
    BY <2>1, FS_EmptySet DEF NbConstraints
  <2> QED BY <2>2
<1>3. \A x \in 0 .. Dimension - 1 :
        /\ Unit(x) \in IntRow /\ x + 1 \in 0..Dimension
        /\ Unit(x)[Dimension] = IF Dimension = x + 1 THEN 1 ELSE 0
  BY <1>1 DEF Unit, IntRow
<1>4. Ray \in [0 .. NbRay - 1 -> IntRow]
  BY <1>3
<1>5. NbBid \in 0..NbRay /\ NbRay \in Nat /\ NbMaxRays \in Nat /\ NbRay <= NbMaxRays
  BY <1>1
<1>6. ChernikovaTyped
  <2>1. k = jx * WSIZE + bx /\ bx \in 0 .. WSIZE - 1 /\ jx \in Nat
    BY <1>1
  <2> QED BY <1>1, <1>2, <1>4, <1>5, <2>1 DEF ChernikovaTyped
<1>7. Before = {}
  BY DEF Before
<1>8. Verified
  <2>1. ASSUME NEW x \in 0 .. NbBid - 1 PROVE dual \/ Ray[x][Dimension] = 0
    <3>1. x \in 0 .. Dimension - 1 /\ (dual \/ Dimension # x + 1)
      BY <1>1
    <3> QED BY <1>3, <3>1
  <2>2. ASSUME NEW x \in NbBid .. NbRay - 1 PROVE Ray[x][Dimension] >= 0
    <3>1. x \in 0 .. Dimension - 1
      BY <1>1
    <3> QED BY <1>3, <3>1
  <2> QED BY <1>7, <2>1, <2>2 DEF Verified, InLineality, InCone
<1>9. BitsExact
  <2>1. \A x \in 0 .. NbRay - 1 : Unsaturated(Ray[x], Mat, Before) \cup Marks(x) = {}
    BY <1>7 DEF Unsaturated, Marks
  <2> QED BY <2>1 DEF BitsExact, BitsOf
<1> QED BY <1>6, <1>8, <1>9 DEF ChernikovaInv, StatusExact, InPhase

\* The next row of Mat is read.
LEMMA ChooseConstraintStep ==
  ASSUME ChernikovaInv, ChooseConstraint
  PROVE  ChernikovaInv'
<1>1. /\ pc = "head" /\ k = NbConstraints
      /\ UNCHANGED <<pc, k, dual, Ray, Sat, NbBid, NbRay, NbMaxRays, jx, bx,
                     equal_bound, sup_bound, inf_bound, i, j, bound>>
  BY DEF ChooseConstraint, bounds, pair
<1>2. PICK p \in Constraints : Mat' = WithRow(Mat, k, p)
  BY DEF ChooseConstraint
<1>3. p \in IntRow
  BY ConstraintsAssumption DEF IntRow
<1>4. ChernikovaTyped /\ k \in Nat /\ Mat \in [0 .. k - 1 -> IntRow]
  BY <1>1 DEF ChernikovaInv, ChernikovaTyped
<1>5. Mat' \in [0..k -> IntRow] /\ \A c \in 0 .. k - 1 : Mat'[c] = Mat[c]
  <2>1. DOMAIN Mat \cup {k} = 0..k
    BY <1>4
  <2>2. Mat' = [y \in 0..k |-> IF y = k THEN p ELSE Mat[y]]
    BY <1>2, <2>1 DEF WithRow
  <2>3. \A y \in 0..k : y = k \/ y \in 0 .. k - 1
    BY <1>4
  <2>4. \A y \in 0 .. k - 1 : y \in 0..k /\ y # k
    BY <1>4
  <2> QED BY <1>3, <1>4, <2>2, <2>3, <2>4
<1>6. NbConstraints' = k + 1
  <2>1. Cardinality(0..k) = k + 1
    <3>1. 0 \in Int /\ k \in Int /\ ~(0 > k)
      BY <1>4
    <3>2. Cardinality(0..k) = k - 0 + 1
      BY <3>1, FS_Interval
    <3> QED BY <1>4, <3>2
  <2>2. DOMAIN Mat' = 0..k
    BY <1>5
  <2> QED BY <2>1, <2>2 DEF NbConstraints
<1>7. ChernikovaTyped'
  <2>1. Mat' \in [0 .. NbConstraints' - 1 -> IntRow] /\ NbConstraints' \in Nat /\ k \in 0..NbConstraints'
    BY <1>4, <1>5, <1>6
  <2> QED BY <1>1, <1>4, <2>1 DEF ChernikovaTyped
<1>8. /\ Before' = Before
      /\ \A r : /\ InLineality(r, Mat', Before, dual) <=> InLineality(r, Mat, Before, dual)
                /\ InCone(r, Mat', Before, dual) <=> InCone(r, Mat, Before, dual)
                /\ Unsaturated(r, Mat', Before) = Unsaturated(r, Mat, Before)
      /\ \A x : Marks(x)' = {} /\ Marks(x) = {}
  BY <1>1, <1>5 DEF Before, InLineality, InCone, Unsaturated, Verifies, Marks
<1>9. Verified'
  BY <1>1, <1>8 DEF ChernikovaInv, Verified
<1>10. BitsExact'
  BY <1>1, <1>8 DEF ChernikovaInv, BitsExact
<1> QED BY <1>1, <1>7, <1>9, <1>10 DEF ChernikovaInv, StatusExact, InPhase

\* A variable that is not written keeps all of it.
LEMMA UnchangedStep ==
  ASSUME ChernikovaInv, UNCHANGED vars
  PROVE  ChernikovaInv'
<1>1. UNCHANGED <<pc, Mat, k, dual, Ray, Sat, NbBid, NbRay, NbMaxRays, jx, bx,
                  equal_bound, sup_bound, inf_bound, i, j, bound>>
  BY DEF vars, chernikovaVars, bounds, pair
<1>2. \A x : Marks(x)' = Marks(x)
  BY <1>1 DEF Marks
<1> QED BY <1>1, <1>2 DEF ChernikovaInv, ChernikovaTyped, Verified, StatusExact, BitsExact, InPhase,
                         NbConstraints, Before

-----------------------------------------------------------------------------
(* Nothing is missing.                                                     *)

\* The unit lines describe the space, or the half of it above the origin.
LEMMA InitDescribes == Init => Described /\ PairsMade
<1> SUFFICES ASSUME Init PROVE Described /\ PairsMade
  OBVIOUS
<1>1. /\ pc = "head" /\ k = 0 /\ dual \in BOOLEAN
      /\ Ray = [x \in 0 .. Dimension - 1 |-> Unit(x)]
      /\ NbBid = (IF dual THEN Dimension ELSE Dimension - 1) /\ NbRay = Dimension
  BY DualsAssumption DEF Init
<1>2. AreUnits(Ray)
  <2>1. ASSUME NEW x \in 0 .. Dimension - 1
        PROVE  Unit(x) \in IntRow /\ \A c \in Coordinates : Unit(x)[c] = IF c = x + 1 THEN 1 ELSE 0
    <3>1. \A c \in Coordinates : c \in 0..Dimension
      BY DimensionAssumption DEF Coordinates
    <3>2. Unit(x) \in IntRow
      BY DEF Unit, IntRow
    <3> QED BY <3>1, <3>2 DEF Unit
  <2> QED BY <1>1, <2>1 DEF AreUnits
<1>3. Describes(Family(Mat, 0, dual), Ray, FirstLines(dual), FirstRays(dual))
  BY <1>1, <1>2, UnitsDescribe
<1>4. /\ Known = Family(Mat, 0, dual)
      /\ 0 .. NbBid - 1 = FirstLines(dual)
      /\ OldRays = FirstRays(dual)
  BY <1>1 DEF Known, FirstLines, FirstRays, OldRays
<1> QED BY <1>1, <1>3, <1>4 DEF Described, PairsMade

\* A row that is only read does not count yet.
LEMMA ChooseConstraintDescribes ==
  ASSUME ChernikovaInv, Described, ChooseConstraint
  PROVE  Described' /\ PairsMade'
<1>1. /\ pc = "head" /\ k = NbConstraints
      /\ UNCHANGED <<pc, k, dual, Ray, NbBid, NbRay>>
  BY DEF ChooseConstraint
<1>2. PICK p \in Constraints : Mat' = WithRow(Mat, k, p)
  BY DEF ChooseConstraint
<1>3. k \in Nat /\ DOMAIN Mat = 0 .. k - 1
  BY <1>1 DEF ChernikovaInv, ChernikovaTyped
<1>4. \A c \in 0 .. k - 1 : Mat'[c] = Mat[c]
  <2>1. \A c \in 0 .. k - 1 : c # k /\ c \in DOMAIN Mat
    BY <1>3
  <2> QED BY <1>2, <2>1 DEF WithRow
<1>5. Known' = Known
  <2>1. \A c \in 0 .. k - 1 \cup (IF dual THEN {} ELSE {-1}) : c # -1 => Mat'[c] = Mat[c]
    BY <1>4
  <2> QED BY <1>1, <2>1 DEF Known, Family
<1>6. OldRays' = OldRays
  BY <1>1 DEF OldRays
<1> QED BY <1>1, <1>5, <1>6 DEF Described, PairsMade

\* Neither do steps that write nothing.
LEMMA UnchangedDescribes ==
  ASSUME Described, PairsMade, UNCHANGED vars
  PROVE  Described' /\ PairsMade'
<1>1. UNCHANGED <<pc, Mat, k, dual, Ray, NbBid, NbRay, sup_bound, i, j, bound>>
  BY DEF vars, chernikovaVars, bounds, pair
<1>2. Known' = Known /\ OldRays' = OldRays
  BY <1>1 DEF Known, Family, OldRays
<1>3. \A p, q : /\ Crosses(p, q)' <=> Crosses(p, q)
                /\ Reached(p, q)' <=> Reached(p, q)
  BY <1>1, <1>2 DEF Crosses, Reached
<1>4. Visited' = Visited
  BY <1>2, <1>3 DEF Visited
<1> QED BY <1>1, <1>2, <1>4 DEF Described, PairsMade

\* The rows are exact and describe the cone.
DescribedInv == ChernikovaInv /\ Described /\ PairsMade

(***************************************************************************)
(* The invariants of Chernikova_proof hold in every step of Chernikova on  *)
(* any matrix, primal or dual: the bits are exact, and the rows are those  *)
(* of the cone of the constraints processed so far.                        *)
(***************************************************************************)
THEOREM Invariance == Spec => []DescribedInv
<1>1. Init => DescribedInv
  BY InitInv, InitDescribes DEF DescribedInv
<1>2. DescribedInv /\ [Next]_vars => DescribedInv'
  <2> SUFFICES ASSUME DescribedInv, [Next]_vars PROVE ChernikovaInv' /\ Described' /\ PairsMade'
    BY DEF DescribedInv
  <2>1. ChernikovaInv /\ Described /\ PairsMade
    BY DEF DescribedInv
  <2>2. CASE ChooseConstraint
    BY <2>1, <2>2, ChooseConstraintStep, ChooseConstraintDescribes
  <2>3. CASE ProcessConstraint
    BY <2>1, <2>3, ProcessConstraintStep, ProcessConstraintDescribes
  <2>4. CASE UNCHANGED vars
    BY <2>1, <2>4, UnchangedStep, UnchangedDescribes
  <2> QED BY <2>2, <2>3, <2>4 DEF Next
<1> QED BY <1>1, <1>2, PTL DEF Spec

-----------------------------------------------------------------------------
(* The properties follow.                                                  *)

\* The names of ChernikovaSpec and of Chernikova_proof for the bit.
LEMMA BitOfIs == \A c : BitOf(c) = BitAt(c)
  BY DEF BitOf, BitAt

\* The type invariant follows from the inductive one,
LEMMA TypeHolds == ChernikovaInv => TypeOK
<1> SUFFICES ASSUME ChernikovaInv PROVE TypeOK
  OBVIOUS
<1>1. ChernikovaTyped /\ InPhase
  BY DEF ChernikovaInv
<1>2. \A x \in DOMAIN Ray : Ray[x] \in [0..Dimension -> Int]
  BY <1>1 DEF ChernikovaTyped, IntRow
<1>3. /\ pc \in {"head", "line", "sort", "pairs"} /\ k \in 0..NbConstraints
      /\ DOMAIN Ray = 0 .. NbRay - 1 /\ DOMAIN Sat = 0 .. NbRay - 1
      /\ 0 <= NbBid /\ NbBid <= NbRay
  BY <1>1 DEF ChernikovaTyped
<1> QED BY <1>1, <1>2, <1>3 DEF TypeOK, InPhase

\* as do the exactness of the bits between two constraints
LEMMA SatHolds == ChernikovaInv => SatExact
<1> SUFFICES ASSUME ChernikovaInv, AtHead, NEW x \in 0 .. NbRay - 1
             PROVE  Sat[x] = {BitOf(c) : c \in Processed \ Saturated(Ray[x])}
  BY DEF SatExact
<1>1. Sat[x] = BitsOf(Unsaturated(Ray[x], Mat, Before))
  <2>1. Marks(x) = {}
    BY DEF Marks, AtHead
  <2> QED BY <2>1 DEF ChernikovaInv, BitsExact
<1>2. Unsaturated(Ray[x], Mat, Before) = Processed \ Saturated(Ray[x])
  <2>1. -1 \notin Processed
    BY DEF Processed
  <2>2. Processed = Before
    BY DEF Processed, Before
  <2> QED BY <2>1, <2>2 DEF Unsaturated, Saturated
<1>3. BitsOf(Processed \ Saturated(Ray[x])) = {BitOf(c) : c \in Processed \ Saturated(Ray[x])}
  BY BitOfIs DEF BitsOf
<1> QED BY <1>1, <1>2, <1>3

\* and the soundness of the rows.
LEMMA SoundHolds == ChernikovaInv => Sound
<1> SUFFICES ASSUME ChernikovaInv, AtHead
             PROVE  /\ \A x \in RayRows : /\ \A c \in Processed : Satisfies(Ray[x], c)
                                          /\ dual \/ Ray[x][Dimension] >= 0
                    /\ \A x \in LineRows : Saturated(Ray[x]) = AllConstraints
  BY DEF Sound
<1>1. Processed = Before /\ RayRows = NbBid .. NbRay - 1 /\ LineRows = 0 .. NbBid - 1
  BY DEF Processed, Before, RayRows, LineRows
<1>2. ASSUME NEW x \in RayRows
      PROVE  (\A c \in Processed : Satisfies(Ray[x], c)) /\ (dual \/ Ray[x][Dimension] >= 0)
  <2>1. InCone(Ray[x], Mat, Before, dual)
    BY <1>1 DEF ChernikovaInv, Verified
  <2> QED BY <1>1, <2>1 DEF InCone, Verifies, Satisfies, Equality
<1>3. ASSUME NEW x \in LineRows PROVE Saturated(Ray[x]) = AllConstraints
  <2>1. InLineality(Ray[x], Mat, Before, dual)
    BY <1>1 DEF ChernikovaInv, Verified
  <2> QED BY <1>1, <2>1 DEF InLineality, Saturated, AllConstraints, AtInfinity
<1> QED BY <1>2, <1>3

\* The constraints a vector saturates, as members of the family.
LEMMA SaturatedIs ==
  ASSUME ChernikovaInv, AtHead
  PROVE  /\ AllConstraints = DOMAIN Known
         /\ \A x \in IntRow : Saturated(x) = Zeros(x, Known)
<1>1. Processed = Before /\ Processed = 0 .. k - 1
  BY DEF Processed, Before
<1>2. AllConstraints = DOMAIN Known
  BY <1>1 DEF AllConstraints, Known, Family
<1>3. ASSUME NEW x \in IntRow PROVE Saturated(x) = Zeros(x, Known)
  <2>1. Zeros(x, Known) = SaturatedBy(x, Mat, Before, dual)
    BY KnownIs
  <2>2. Before \ Unsaturated(x, Mat, Before) = {c \in Before : InnerProduct(x, Mat[c]) = 0}
    BY DEF Unsaturated
  <2> QED BY <1>1, <2>1, <2>2 DEF Saturated, SaturatedBy, AtInfinity
<1> QED BY <1>2, <1>3

\* The vectors of the cone are in that of the family,
LEMMA ConeIs ==
  ASSUME ChernikovaInv, NEW x \in Cone
  PROVE  x \in IntRow /\ Within(x, Known)
<1>1. x \in IntRow
  BY BoxAssumption DEF Cone, IntRow
<1>2. InCone(x, Mat, Before, dual)
  BY DEF Cone, Processed, Before, Satisfies, Equality, InCone, Verifies
<1> QED BY <1>1, <1>2, KnownIs

\* so one of the rays saturates what they saturate;
LEMMA CompleteHolds == ChernikovaInv /\ Described => Complete
<1> SUFFICES ASSUME ChernikovaInv, Described, AtHead, NEW x \in Cone
             PROVE  \/ Saturated(x) = AllConstraints
                    \/ \E y \in RayRows : Saturated(x) \subseteq Saturated(Ray[y])
  BY DEF Complete
<1>1. OldRays = RayRows
  BY DEF OldRays, RayRows, AtHead
<1>2. Covers(Known, Ray, RayRows) /\ \A y \in RayRows : Ray[y] \in IntRow
  BY <1>1 DEF Described, Describes, Extreme
<1>3. x \in IntRow /\ Within(x, Known)
  BY ConeIs
<1>4. Zeros(x, Known) = DOMAIN Known \/ \E y \in RayRows : Zeros(x, Known) \subseteq Zeros(Ray[y], Known)
  BY <1>2, <1>3 DEF Covers
<1> QED BY <1>2, <1>3, <1>4, SaturatedIs

\* a ray alone saturates what it saturates,
LEMMA IrredundantHolds == ChernikovaInv /\ Described => Irredundant
<1> SUFFICES ASSUME ChernikovaInv, Described, AtHead
             PROVE  /\ \A x, y \in RayRows : x # y => ~(Saturated(Ray[x]) \subseteq Saturated(Ray[y]))
                    /\ \A x \in RayRows : Saturated(Ray[x]) # AllConstraints
  BY DEF Irredundant
<1>1. OldRays = RayRows
  BY DEF OldRays, RayRows, AtHead
<1>2. Extreme(Known, Ray, RayRows)
  BY <1>1 DEF Described, Describes
<1>3. \A x \in RayRows : Saturated(Ray[x]) = Zeros(Ray[x], Known)
  BY <1>2, SaturatedIs DEF Extreme
<1> QED BY <1>2, <1>3, SaturatedIs DEF Extreme

\* and the lines span the lineality space.
LEMMA SpannedHolds == ChernikovaInv /\ Described => LinealitySpanned
<1> SUFFICES ASSUME ChernikovaInv, Described, AtHead, NEW x \in Box, NEW v \in Box,
                    Saturated(x) = AllConstraints, \A n \in LineRows : InnerProduct(v, Ray[n]) = 0
             PROVE  InnerProduct(v, x) = 0
  BY DEF LinealitySpanned
<1>1. x \in IntRow /\ v \in IntRow
  BY BoxAssumption DEF IntRow
<1>2. LinesSpan(Known, Ray, LineRows)
  BY DEF Described, Describes, LineRows
<1>3. Zeros(x, Known) = DOMAIN Known
  BY <1>1, SaturatedIs
<1> QED BY <1>1, <1>2, <1>3 DEF LinesSpan

(***************************************************************************)
(* The types: integer rows, one saturation row for each row, lines first,  *)
(* and RaySort's bounds in order for any number of rays.                   *)
(***************************************************************************)
THEOREM TypeCorrect == Spec => []TypeOK
  BY Invariance, TypeHolds, PTL DEF DescribedInv

(***************************************************************************)
(* Chernikova never writes Ray and Sat past NbMaxRays, however many rays a *)
(* constraint adds: the test for a full matrix comes before every new row  *)
(* and nothing else adds one.                                              *)
(***************************************************************************)
THEOREM NeverPastAllocation == Spec => []InAllocation
<1>1. DescribedInv => InAllocation
  BY DEF DescribedInv, ChernikovaInv, ChernikovaTyped, InAllocation
<1> QED BY Invariance, <1>1, PTL

(***************************************************************************)
(* Between two constraints Sat(i,j)=0 if and only if ray i saturates       *)
(* constraint j, as the comment at the head of Chernikova says, although   *)
(* the bits are only ever set, moved, or-ed and cleared.                   *)
(***************************************************************************)
THEOREM SaturationExact == Spec => []SatExact
  BY Invariance, SatHolds, PTL DEF DescribedInv

(***************************************************************************)
(* Between two constraints the rows of Ray are in the cone of the          *)
(* constraints processed, positivity included; for every vector of the     *)
(* cone some ray saturates what it saturates, unless it is in the          *)
(* lineality space; no ray saturates what another one does; and the lines  *)
(* span the lineality space.  The adjacency test drops no pair that was    *)
(* needed and keeps none that was not, for every Dimension, matrix, order  *)
(* of its rows and word size.                                              *)
(***************************************************************************)
THEOREM DescriptionExact == Spec => []DoubleDescription
<1>1. DescribedInv => DoubleDescription
  BY SoundHolds, CompleteHolds, IrredundantHolds, SpannedHolds DEF DescribedInv, DoubleDescription
<1> QED BY Invariance, <1>1, PTL

-----------------------------------------------------------------------------
(* No line is a combination of the others.                                 *)

\* For each of the rows before n some vector is orthogonal to all but that one.
Separated(R, n) ==
  \A x \in 0 .. n - 1 :
    \E v \in IntRow : /\ InnerProduct(v, R[x]) # 0
                      /\ \A y \in 0 .. n - 1 : y # x => InnerProduct(v, R[y]) = 0

LinesSeparated == Separated(Ray, NbBid)

\* It depends on the coordinates of the rows only.
LEMMA SeparatedSame ==
  ASSUME NEW R, NEW S, NEW n, Separated(R, n),
         \A x \in 0 .. n - 1 : R[x] \in IntRow /\ S[x] \in IntRow /\ SameCoordinates(R[x], S[x])
  PROVE  Separated(S, n)
<1>1. ASSUME NEW x \in 0 .. n - 1, NEW v \in IntRow
      PROVE  InnerProduct(v, S[x]) = InnerProduct(v, R[x])
  <2>1. R[x] \in IntRow /\ S[x] \in IntRow /\ \A c \in Coordinates : S[x][c] = R[x][c]
    BY DEF SameCoordinates
  <2>2. InnerProduct(S[x], v) = InnerProduct(R[x], v)
    BY <2>1, InnerProductSame
  <2> QED BY <2>1, <2>2, InnerProductSymmetric
<1> QED BY <1>1 DEF Separated

\* The unit lines are orthogonal to each other.
LEMMA InitSeparated == Init => LinesSeparated
<1> SUFFICES ASSUME Init PROVE Separated(Ray, NbBid)
  BY DEF LinesSeparated
<1>1. /\ Ray = [x \in 0 .. Dimension - 1 |-> Unit(x)]
      /\ NbBid \in {Dimension - 1, Dimension} /\ Dimension \in Nat
  BY DimensionAssumption DEF Init
<1>2. \A x \in 0 .. NbBid - 1 : x \in 0 .. Dimension - 1
  BY <1>1
<1>3. ASSUME NEW x \in 0 .. Dimension - 1
      PROVE  /\ Unit(x) \in IntRow /\ x + 1 \in Coordinates
             /\ \A c \in Coordinates : Unit(x)[c] = IF c = x + 1 THEN 1 ELSE 0
  <2>1. \A c \in Coordinates : c \in 0..Dimension
    BY DimensionAssumption DEF Coordinates
  <2>2. Unit(x) \in IntRow
    BY DEF Unit, IntRow
  <2>3. x + 1 \in Coordinates
    BY <1>1 DEF Coordinates
  <2> QED BY <2>1, <2>2, <2>3 DEF Unit
<1>4. ASSUME NEW x \in 0 .. Dimension - 1 PROVE InnerProduct(Unit(x), Unit(x)) # 0
  <2>1. Unit(x) \in IntRow /\ x + 1 \in Coordinates /\ Unit(x)[x + 1] # 0
    BY <1>3
  <2> QED BY <2>1, SelfProduct
<1>5. ASSUME NEW x \in 0 .. Dimension - 1, NEW y \in 0 .. Dimension - 1, y # x
      PROVE  InnerProduct(Unit(x), Unit(y)) = 0
  <2>1. Unit(x) \in IntRow /\ Unit(y) \in IntRow /\ x + 1 # y + 1
    BY <1>3, <1>5
  <2>2. \A c \in Coordinates : Unit(x)[c] = 0 \/ Unit(y)[c] = 0
    BY <1>3, <2>1
  <2> QED BY <2>1, <2>2, DisjointProduct
<1>6. ASSUME NEW x \in 0 .. NbBid - 1
      PROVE  /\ Unit(x) \in IntRow /\ InnerProduct(Unit(x), Ray[x]) # 0
             /\ \A y \in 0 .. NbBid - 1 : y # x => InnerProduct(Unit(x), Ray[y]) = 0
  BY <1>1, <1>2, <1>3, <1>4, <1>5
<1> QED BY <1>6 DEF Separated

\* The lines that stay when line n leaves: the last one takes its place and
\* each is moved along it where it does not saturate the constraint.
LEMMA StraightenedLines ==
  ASSUME ChernikovaInv, pc = "line"
  PROVE  LET z == NbBid - 1
             n == IndexNonZero
         IN  /\ z \in Nat /\ n \in 0..z /\ Ray[n][0] # 0
             /\ \A x \in 0..z : Ray[x] \in IntRow
             /\ \A x \in 0 .. z - 1 :
                  \/ Straightened[x] = Ray[Swapped(x, n, z)]
                  \/ Straightened[x] = Combine(Ray[Swapped(x, n, z)], Ray[n], Ray[Swapped(x, n, z)], 0)
<1> DEFINE z == NbBid - 1
           n == IndexNonZero
           I == 0 .. NbRay - 1
           moved == Exchange(Ray, n, z)
           lines == Projected(moved, z, 0, z)
           turned == [lines EXCEPT ![z] = IF @[0] < 0 THEN [c \in 0..Dimension |-> -@[c]] ELSE @]
<1>1. /\ NbBid \in Nat /\ NbRay \in Nat /\ NbBid <= NbRay
      /\ DOMAIN Ray = I /\ \A x \in I : Ray[x] \in IntRow
  BY DEF ChernikovaInv, ChernikovaTyped
<1>2. n \in 0..z /\ Ray[n][0] # 0
  BY IndexNonZeroIs
<1>3. z \in Nat /\ z \in I /\ n \in I /\ \A x \in 0..z : x \in I
  BY <1>1, <1>2
<1>4. DOMAIN moved = I /\ \A x \in I : moved[x] = Ray[Swapped(x, n, z)]
  <2>1. DOMAIN Ray = I /\ n \in I /\ z \in I
    BY <1>1, <1>3
  <2> HIDE DEF n, z, I
  <2>2. ASSUME NEW x \in I PROVE DOMAIN moved = I /\ moved[x] = Ray[Swapped(x, n, z)]
    BY <2>1, ExchangedRows
  <2> QED BY <2>1, <2>2
<1>5. moved[z] = Ray[n]
  BY <1>3, <1>4 DEF Swapped
<1> HIDE DEF moved
<1>6. ASSUME NEW x \in 0 .. z - 1
      PROVE  lines[x] = moved[x] \/ lines[x] = Combine(moved[x], moved[z], moved[x], 0)
  <2>1. x \in I
    BY <1>3
  <2> QED BY <1>4, <2>1 DEF Projected
<1>7. DOMAIN lines = I
  BY <1>4 DEF Projected
<1> HIDE DEF lines
<1>8. ASSUME NEW x \in 0 .. z - 1
      PROVE  Straightened[x] = lines[x]
  <2>1. x \in I /\ x # z /\ x \notin NbBid .. NbRay - 1
    BY <1>1, <1>3
  <2>2. DOMAIN turned = I /\ turned[x] = lines[x]
    BY <1>7, <2>1
  <2> HIDE DEF turned
  <2>3. Projected(turned, z, NbBid, NbRay)[x] = turned[x]
    BY <2>1, <2>2 DEF Projected
  <2>4. Straightened = Projected(turned, z, NbBid, NbRay)
    BY DEF Straightened, turned, lines, moved
  <2> QED BY <2>2, <2>3, <2>4
<1>9. ASSUME NEW x \in 0 .. z - 1
      PROVE  \/ Straightened[x] = Ray[Swapped(x, n, z)]
             \/ Straightened[x] = Combine(Ray[Swapped(x, n, z)], Ray[n], Ray[Swapped(x, n, z)], 0)
  <2>1. moved[x] = Ray[Swapped(x, n, z)]
    BY <1>3, <1>4
  <2> QED BY <1>5, <1>6, <1>8, <2>1
<1> QED BY <1>1, <1>2, <1>3, <1>9

\* What is orthogonal to the line that leaves is orthogonal to a line that was
\* moved along it if and only if it was before.
LEMMA MovedProduct ==
  ASSUME NEW p \in IntRow, NEW q \in IntRow, q[0] # 0, NEW v \in IntRow, InnerProduct(v, q) = 0
  PROVE  /\ Combine(p, q, p, 0) \in IntRow
         /\ InnerProduct(v, Combine(p, q, p, 0)) = 0 <=> InnerProduct(v, p) = 0
<1> DEFINE r == Combine(p, q, p, 0)
<1>1. r \in IntRow
  BY CombineWeighs
<1>2. InnerProduct(v, r) = 0 => InnerProduct(v, p) = 0
  BY LineRecovered
<1>3. PICK g \in Nat \ {0}, a1 \in Int, a2 \in Int : Weighs(r, p, q, g, a1, a2)
  BY CombineWeighs
<1> HIDE DEF r
<1>4. ASSUME InnerProduct(v, p) = 0 PROVE InnerProduct(v, r) = 0
  <2>1. InnerProduct(p, v) = 0 /\ InnerProduct(q, v) = 0 /\ InnerProduct(v, r) = InnerProduct(r, v)
    BY <1>1, <1>4, InnerProductSymmetric
  <2>2. Weighted(InnerProduct(r, v), InnerProduct(p, v), InnerProduct(q, v), g, a1, a2)
    BY <1>1, <1>3, WeightedProduct
  <2>3. PICK x \in Int : x = InnerProduct(r, v)
    BY <1>1, InnerProductInt
  <2>4. g * x = a2 * 0 + a1 * 0
    BY <2>1, <2>2, <2>3 DEF Weighted
  <2>5. x = 0
    BY <2>4
  <2> QED BY <2>1, <2>3, <2>5
<1> QED BY <1>1, <1>2, <1>4 DEF r

\* So the lines that stay are separated by the same vectors.
LEMMA StraightenedSeparated ==
  ASSUME ChernikovaInv, pc = "line", LinesSeparated
  PROVE  Separated(Straightened, NbBid - 1)
<1> DEFINE z == NbBid - 1
           n == IndexNonZero
           S == Straightened
           from(x) == Swapped(x, n, z)
<1>1. /\ z \in Nat /\ n \in 0..z /\ Ray[n][0] # 0
      /\ \A x \in 0..z : Ray[x] \in IntRow
      /\ \A x \in 0 .. z - 1 : \/ S[x] = Ray[from(x)]
                               \/ S[x] = Combine(Ray[from(x)], Ray[n], Ray[from(x)], 0)
  BY StraightenedLines
<1>2. ASSUME NEW x \in 0 .. z - 1
      PROVE  from(x) \in 0..z /\ from(x) # n /\ \A y \in 0 .. z - 1 : y # x => from(y) # from(x)
  BY <1>1 DEF Swapped
<1>3. \A x \in 0..z : \E v \in IntRow :
         InnerProduct(v, Ray[x]) # 0 /\ \A y \in 0..z : y # x => InnerProduct(v, Ray[y]) = 0
  BY DEF LinesSeparated, Separated
<1> HIDE DEF z, n, S
<1>4. ASSUME NEW x \in 0 .. z - 1, NEW v \in IntRow, InnerProduct(v, Ray[n]) = 0
      PROVE  InnerProduct(v, S[x]) = 0 <=> InnerProduct(v, Ray[from(x)]) = 0
  <2>1. from(x) \in 0..z /\ Ray[from(x)] \in IntRow /\ Ray[n] \in IntRow
    BY <1>1, <1>2
  <2> HIDE DEF from
  <2>2. InnerProduct(v, Combine(Ray[from(x)], Ray[n], Ray[from(x)], 0)) = 0
          <=> InnerProduct(v, Ray[from(x)]) = 0
    BY <1>1, <1>4, <2>1, MovedProduct
  <2> QED BY <1>1, <2>2
<1>5. ASSUME NEW x \in 0 .. z - 1
      PROVE  \E v \in IntRow : /\ InnerProduct(v, S[x]) # 0
                               /\ \A y \in 0 .. z - 1 : y # x => InnerProduct(v, S[y]) = 0
  <2>1. from(x) \in 0..z /\ from(x) # n
    BY <1>2
  <2>2. PICK v \in IntRow : /\ InnerProduct(v, Ray[from(x)]) # 0
                            /\ \A y \in 0..z : y # from(x) => InnerProduct(v, Ray[y]) = 0
    BY <1>3, <2>1
  <2>3. InnerProduct(v, Ray[n]) = 0
    BY <1>1, <2>1, <2>2
  <2>4. InnerProduct(v, S[x]) # 0
    BY <1>4, <2>2, <2>3
  <2>5. ASSUME NEW y \in 0 .. z - 1, y # x PROVE InnerProduct(v, S[y]) = 0
    <3>1. from(y) \in 0..z /\ from(y) # from(x)
      BY <1>2, <2>5
    <3>2. InnerProduct(v, Ray[from(y)]) = 0
      BY <2>2, <3>1
    <3> QED BY <1>4, <2>3, <3>2
  <2> QED BY <2>4, <2>5
<1> QED BY <1>5 DEF Separated, z, S

\* Steps that write no coordinate of a line.
LEMMA LinesKept ==
  ASSUME LinesSeparated, NbBid' = NbBid,
         \A x \in 0 .. NbBid - 1 :
           Ray[x] \in IntRow /\ Ray'[x] \in IntRow /\ SameCoordinates(Ray[x], Ray'[x])
  PROVE  LinesSeparated'
<1>1. Separated(Ray', NbBid)
  <2> DEFINE S == Ray'
  <2>1. \A x \in 0 .. NbBid - 1 : Ray[x] \in IntRow /\ S[x] \in IntRow /\ SameCoordinates(Ray[x], S[x])
    OBVIOUS
  <2> HIDE DEF S
  <2>2. Separated(S, NbBid)
    BY <2>1, SeparatedSame DEF LinesSeparated
  <2> QED BY <2>2 DEF S
<1> QED BY <1>1 DEF LinesSeparated

\* Each step of Chernikova keeps the lines separated.
LEMMA ProcessConstraintSeparates ==
  ASSUME ChernikovaInv, LinesSeparated, ProcessConstraint
  PROVE  LinesSeparated'
<1>1. /\ NbBid \in Nat /\ NbRay \in Nat /\ NbBid <= NbRay
      /\ \A x \in 0 .. NbRay - 1 : Ray[x] \in IntRow
  BY RowsKnown DEF ChernikovaInv, ChernikovaTyped
<1>2. \A x \in 0 .. NbBid - 1 : x \in 0 .. NbRay - 1 /\ Ray[x] \in IntRow
  BY <1>1
<1>3. ASSUME NbBid' = NbBid, \A x \in 0 .. NbBid - 1 : Ray'[x] = Ray[x]
      PROVE  LinesSeparated'
  <2>1. \A x \in 0 .. NbBid - 1 :
          Ray[x] \in IntRow /\ Ray'[x] \in IntRow /\ SameCoordinates(Ray[x], Ray'[x])
    BY <1>2, <1>3, SelfSame
  <2> QED BY <1>3, <2>1, LinesKept
<1>4. CASE Evaluate
  <2>1. /\ NbBid' = NbBid /\ k < NbConstraints
        /\ Ray' = [x \in 0 .. NbRay - 1 |-> [Ray[x] EXCEPT ![0] = InnerProduct(Ray[x], Mat[k])]]
    BY <1>4 DEF Evaluate
  <2>2. Mat[k] \in IntRow
    BY <2>1 DEF ChernikovaInv, ChernikovaTyped
  <2>3. ASSUME NEW x \in 0 .. NbBid - 1
        PROVE  Ray[x] \in IntRow /\ Ray'[x] \in IntRow /\ SameCoordinates(Ray[x], Ray'[x])
    <3>1. x \in 0 .. NbRay - 1 /\ Ray[x] \in IntRow
      BY <1>2
    <3>2. InnerProduct(Ray[x], Mat[k]) \in Int
      BY <2>2, <3>1, InnerProductInt
    <3>3. Ray'[x] = [Ray[x] EXCEPT ![0] = InnerProduct(Ray[x], Mat[k])]
      BY <2>1, <3>1
    <3> QED BY <3>1, <3>2, <3>3, DimensionAssumption DEF IntRow, SameCoordinates, Coordinates
  <2> QED BY <2>1, <2>3, LinesKept
<1>5. CASE LineToRay
  <2>1. pc = "line" /\ NbBid' = NbBid - 1 /\ Ray' = Straightened
    BY <1>5 DEF LineToRay
  <2>2. Separated(Straightened, NbBid - 1)
    BY <2>1, StraightenedSeparated
  <2> QED BY <2>1, <2>2 DEF LinesSeparated
<1>6. CASE DiscardLine
  <2> DEFINE z == NbBid - 1
             S == Straightened
  <2>1. /\ pc = "line" /\ NbBid' = z
        /\ Ray' = Rows(WithRow(S, z, S[NbRay - 1]), NbRay - 1)
    BY <1>6 DEF DiscardLine
  <2>2. Separated(S, z)
    BY <2>1, StraightenedSeparated
  <2>3. DOMAIN S = 0 .. NbRay - 1
    BY <2>1, StraightenedRows
  <2> HIDE DEF S
  <2>4. ASSUME NEW x \in 0 .. z - 1 PROVE Ray'[x] = S[x]
    <3>1. x \in 0 .. NbRay - 2 /\ x \in 0 .. NbRay - 1 /\ x \in 0 .. (NbRay - 1) - 1 /\ x # z
      BY <1>1
    <3>2. Ray'[x] = WithRow(S, z, S[NbRay - 1])[x]
      BY <2>1, <3>1 DEF Rows
    <3> QED BY <2>3, <3>1, <3>2 DEF WithRow
  <2>5. Separated(Ray', z)
    BY <2>2, <2>4 DEF Separated
  <2> QED BY <2>1, <2>5 DEF LinesSeparated
<1>7. CASE Sort
  <2>1. pc = "sort" /\ Scanning /\ NbBid' = NbBid /\ pc' = "sort"
    BY <1>7 DEF Sort, SortStep, Satisfy, Verify, Violate
  <2>2. /\ equal_bound \in Int /\ sup_bound \in Int /\ inf_bound \in Int
        /\ NbBid <= equal_bound /\ equal_bound <= sup_bound
        /\ sup_bound < inf_bound /\ inf_bound <= NbRay /\ DOMAIN Ray = 0 .. NbRay - 1
    BY <2>1, InSort DEF Scanning
  <2>3. \/ Ray' = Exchange(Ray, equal_bound, sup_bound) \/ Ray' = Ray
        \/ Ray' = Exchange(Ray, inf_bound - 1, sup_bound)
    BY <1>7 DEF Sort, SortStep, Satisfy, Verify, Violate
  <2>4. ASSUME NEW x \in 0 .. NbBid - 1 PROVE Ray'[x] = Ray[x]
    <3>1. x \in 0 .. NbRay - 1 /\ x \notin {equal_bound, sup_bound, inf_bound - 1}
      BY <1>1, <2>2
    <3> QED BY <2>2, <2>3, <3>1 DEF Exchange
  <2> QED BY <1>3, <2>1, <2>4
<1>8. CASE StartPairs
  <2>1. NbBid' = NbBid /\ Ray' = Ray
    BY <1>8 DEF StartPairs
  <2> QED BY <1>3, <2>1
<1>9. CASE AddRay
  <2>1. NbBid' = NbBid /\ \A x \in 0 .. NbRay - 1 : Ray'[x] = Ray[x]
    BY <1>9, AddedRow DEF AddRay
  <2> QED BY <1>2, <1>3, <2>1
<1>10. CASE SkipPair
  <2>1. NbBid' = NbBid /\ Ray' = Ray
    BY <1>10 DEF SkipPair
  <2> QED BY <1>3, <2>1
<1>11. CASE Eliminate
  <2> DEFINE first == FirstDropped
  <2>1. NbBid' = NbBid /\ Ray' = Compacted(Ray, first) /\ pc = "pairs"
    BY <1>11 DEF Eliminate
  <2>2. /\ equal_bound \in Int /\ sup_bound \in Int /\ bound \in Int
        /\ NbBid <= equal_bound /\ equal_bound <= sup_bound /\ sup_bound <= bound /\ bound <= NbRay
    BY <2>1, InPairsFacts
  <2>3. first \in 0..bound /\ NbBid <= first
    BY <1>1, <2>2 DEF FirstDropped
  <2>4. bound \in 0..NbRay
    BY <1>1, <2>2
  <2> HIDE DEF first
  <2>5. ASSUME NEW x \in 0 .. NbBid - 1 PROVE Ray'[x] = Ray[x]
    <3>1. x \in 0 .. first + NbRay - bound - 1 /\ x < first
      BY <1>1, <2>3, <2>4
    <3>2. Compacted(Ray, first)[x] = Ray[x]
      BY <1>1, <2>3, <2>4, <3>1, CompactedRows
    <3> QED BY <2>1, <3>2
  <2> QED BY <1>3, <2>1, <2>5
<1> QED BY <1>4, <1>5, <1>6, <1>7, <1>8, <1>9, <1>10, <1>11 DEF ProcessConstraint

\* They are always separated.
LEMMA SeparatedAlways == Spec => []LinesSeparated
<1>1. DescribedInv /\ LinesSeparated /\ [Next]_vars => LinesSeparated'
  <2> SUFFICES ASSUME ChernikovaInv, LinesSeparated, [Next]_vars PROVE LinesSeparated'
    BY DEF DescribedInv
  <2>1. ASSUME Ray' = Ray, NbBid' = NbBid PROVE LinesSeparated'
    BY <2>1 DEF LinesSeparated
  <2>2. CASE ChooseConstraint
    BY <2>1, <2>2 DEF ChooseConstraint
  <2>3. CASE ProcessConstraint
    BY <2>3, ProcessConstraintSeparates
  <2>4. CASE UNCHANGED vars
    BY <2>1, <2>4 DEF vars, chernikovaVars
  <2> QED BY <2>2, <2>3, <2>4 DEF Next
<1> QED BY <1>1, InitSeparated, Invariance, PTL DEF Spec

\* The terms of coordinate c of a combination of the lines.
Terms(f, c) == [n \in 1..NbBid |-> f[n - 1] * Ray[n - 1][c]]

\* The coordinate is the last of their partial sums.
LEMMA CombinationSum ==
  ASSUME ChernikovaInv, NEW f \in [LineRows -> Int], NEW c \in Coordinates
  PROVE  \E s : IsSum(s, Terms(f, c), NbBid) /\ LineCombination(f)[c] = s[NbBid]
<1> DEFINE m == NbBid
           t == Terms(f, c)
           F(u) == [n \in 0..m |-> IF n = 0 THEN 0 ELSE u[n - 1] + f[n - 1] * Ray[n - 1][c]]
           sum == CHOOSE u : u = F(u)
<1>1. m \in Nat /\ \A x \in 0 .. m - 1 : Ray[x] \in IntRow /\ f[x] \in Int
  <2>1. NbBid \in Nat /\ NbRay \in Nat /\ NbBid <= NbRay /\ \A x \in 0 .. NbRay - 1 : Ray[x] \in IntRow
    BY RowsKnown DEF ChernikovaInv, ChernikovaTyped
  <2> QED BY <2>1 DEF LineRows
<1>2. ASSUME NEW n \in 1..m
      PROVE  n - 1 \in 0 .. m - 1 /\ f[n - 1] * Ray[n - 1][c] \in Int /\ t[n] = f[n - 1] * Ray[n - 1][c]
  <2>1. n - 1 \in 0 .. m - 1 /\ c \in 0..Dimension
    BY <1>1, DimensionAssumption DEF Coordinates
  <2>2. f[n - 1] \in Int /\ Ray[n - 1][c] \in Int
    BY <1>1, <2>1 DEF IntRow
  <2> QED BY <2>1, <2>2 DEF Terms
<1>3. t \in [1..m -> Int]
  BY <1>2 DEF Terms
<1>4. LineCombination(f)[c] = sum[m]
  BY DEF LineCombination
<1> HIDE DEF m
<1>5. PICK s : IsSum(s, t, m)
  BY <1>1, <1>3, SumExists
<1>6. s = F(s)
  <2>1. s \in [0..m -> Int] /\ s[0] = 0 /\ \A n \in 1..m : s[n] = s[n - 1] + f[n - 1] * Ray[n - 1][c]
    BY <1>2, <1>5 DEF IsSum
  <2>2. \A n \in 0..m : n # 0 => n \in 1..m
    BY <1>1
  <2> QED BY <2>1, <2>2
<1>7. sum = F(sum)
  BY <1>6
<1>8. IsSum(sum, t, m)
  <2> DEFINE T == {n \in 0..m : sum[n] \in Int}
  <2> HIDE DEF sum
  <2>1. sum[0] = 0
    BY <1>1, <1>7
  <2>2. ASSUME NEW n \in 1..m PROVE sum[n] = sum[n - 1] + t[n]
    <3>1. n \in 0..m /\ n # 0
      OBVIOUS
    <3>2. sum[n] = F(sum)[n]
      BY <1>7
    <3>3. F(sum)[n] = sum[n - 1] + f[n - 1] * Ray[n - 1][c]
      BY <3>1
    <3> QED BY <1>2, <3>2, <3>3
  <2>3. 0 \in T
    BY <1>1, <2>1
  <2>4. ASSUME NEW n \in 0 .. m - 1, n \in T PROVE n + 1 \in T
    <3>1. n + 1 \in 1..m /\ n + 1 \in 0..m /\ (n + 1) - 1 = n
      BY <1>1
    <3>2. sum[n + 1] = sum[n] + t[n + 1] /\ t[n + 1] \in Int /\ sum[n] \in Int
      BY <1>2, <2>2, <2>4, <3>1
    <3> QED BY <3>1, <3>2
  <2>5. 0..m \subseteq T
    <3> HIDE DEF T
    <3> QED BY <1>1, <2>3, <2>4, UpFromZero
  <2>6. sum \in [0..m -> Int]
    BY <1>7, <2>5
  <2> QED BY <2>1, <2>2, <2>6 DEF IsSum
<1> QED BY <1>4, <1>8 DEF m

\* A vector orthogonal to all lines but one sees of a combination that line.
LEMMA CombinationProduct ==
  ASSUME ChernikovaInv, NEW f \in [LineRows -> Int], NEW x \in LineRows, NEW v \in IntRow,
         \A y \in LineRows : y # x => InnerProduct(v, Ray[y]) = 0
  PROVE  \E p \in IntRow : /\ \A c \in Coordinates : p[c] = LineCombination(f)[c]
                           /\ InnerProduct(p, v) = f[x] * InnerProduct(v, Ray[x])
<1> DEFINE m == NbBid
           w == InnerProduct(v, Ray[x])
           S == [c \in Coordinates |-> CHOOSE s : IsSum(s, Terms(f, c), m) /\ LineCombination(f)[c] = s[m]]
           P(n) == [c \in 0..Dimension |-> IF c = 0 THEN 0 ELSE S[c][n]]
           T == {n \in 0..m : InnerProduct(P(n), v) = IF x < n THEN f[x] * w ELSE 0}
<1>1. m \in Nat /\ LineRows = 0 .. m - 1 /\ \A y \in 0 .. m - 1 : Ray[y] \in IntRow /\ f[y] \in Int
  <2>1. NbBid \in Nat /\ NbRay \in Nat /\ NbBid <= NbRay /\ \A y \in 0 .. NbRay - 1 : Ray[y] \in IntRow
    BY RowsKnown DEF ChernikovaInv, ChernikovaTyped
  <2> QED BY <2>1 DEF LineRows
<1>2. ASSUME NEW c \in Coordinates
      PROVE  IsSum(S[c], Terms(f, c), m) /\ LineCombination(f)[c] = S[c][m]
  <2>1. \E s : IsSum(s, Terms(f, c), m) /\ LineCombination(f)[c] = s[m]
    BY CombinationSum
  <2> QED BY <2>1
<1> HIDE DEF S
<1>3. ASSUME NEW c \in Coordinates
      PROVE  /\ S[c] \in [0..m -> Int] /\ S[c][0] = 0
             /\ \A n \in 0 .. m - 1 : S[c][n + 1] = S[c][n] + f[n] * Ray[n][c]
  <2>1. /\ S[c] \in [0..m -> Int] /\ S[c][0] = 0
        /\ \A n \in 1..m : S[c][n] = S[c][n - 1] + Terms(f, c)[n]
    BY <1>2 DEF IsSum
  <2>2. ASSUME NEW n \in 0 .. m - 1 PROVE S[c][n + 1] = S[c][n] + f[n] * Ray[n][c]
    <3>1. n + 1 \in 1..m /\ (n + 1) - 1 = n
      BY <1>1
    <3>2. Terms(f, c)[n + 1] = f[n] * Ray[n][c]
      BY <3>1 DEF Terms
    <3> QED BY <2>1, <3>1, <3>2
  <2> QED BY <2>1, <2>2
<1>4. ASSUME NEW n \in 0..m
      PROVE  P(n) \in IntRow /\ \A c \in Coordinates : P(n)[c] = S[c][n]
  <2>1. \A c \in 0..Dimension : c = 0 \/ c \in Coordinates
    BY DimensionAssumption DEF Coordinates
  <2>2. \A c \in Coordinates : c \in 0..Dimension /\ c # 0
    BY DimensionAssumption DEF Coordinates
  <2>3. \A c \in Coordinates : S[c][n] \in Int
    BY <1>3
  <2>4. P(n) \in IntRow
    BY <2>1, <2>3 DEF IntRow
  <2> QED BY <2>2, <2>4
<1> HIDE DEF P
<1>5. w \in Int /\ f[x] \in Int /\ f[x] * w \in Int
  <2>1. w \in Int
    BY <1>1, InnerProductInt
  <2> QED BY <1>1, <2>1
<1> HIDE DEF w
<1>6. 0 \in T
  <2>1. 0 \in 0..m /\ ~(x < 0)
    BY <1>1
  <2>2. \A c \in Coordinates : 1 * P(0)[c] = 0 * P(0)[c] + 0 * P(0)[c]
    <3>1. \A c \in Coordinates : P(0)[c] = 0
      BY <1>3, <1>4, <2>1
    <3> QED BY <3>1
  <2>3. 1 * InnerProduct(P(0), v) = 0 * InnerProduct(P(0), v) + 0 * InnerProduct(P(0), v)
    BY <1>4, <2>1, <2>2, InnerProductLinear
  <2>4. InnerProduct(P(0), v) \in Int
    BY <1>4, <2>1, InnerProductInt
  <2>5. InnerProduct(P(0), v) = 0
    BY <2>3, <2>4
  <2> QED BY <2>1, <2>5
<1>7. ASSUME NEW n \in 0 .. m - 1, n \in T PROVE n + 1 \in T
  <2>1. n \in 0..m /\ n + 1 \in 0..m /\ Ray[n] \in IntRow /\ f[n] \in Int
    BY <1>1
  <2>2. P(n) \in IntRow /\ P(n + 1) \in IntRow
    BY <1>4, <2>1
  <2>3. ASSUME NEW c \in Coordinates PROVE 1 * P(n + 1)[c] = 1 * P(n)[c] + f[n] * Ray[n][c]
    <3>1. P(n + 1)[c] = S[c][n + 1] /\ P(n)[c] = S[c][n]
      BY <1>4, <2>1
    <3>2. S[c][n + 1] = S[c][n] + f[n] * Ray[n][c]
      BY <1>3
    <3>3. S[c][n + 1] \in Int /\ S[c][n] \in Int
      BY <1>3, <2>1
    <3> QED BY <3>1, <3>2, <3>3
  <2>4. 1 * InnerProduct(P(n + 1), v) = 1 * InnerProduct(P(n), v) + f[n] * InnerProduct(Ray[n], v)
    <3> DEFINE p == P(n)  q == P(n + 1)  r == Ray[n]  b == f[n]
    <3>1. p \in IntRow /\ q \in IntRow /\ r \in IntRow /\ b \in Int
      BY <2>1, <2>2
    <3>2. \A c \in Coordinates : 1 * q[c] = 1 * p[c] + b * r[c]
      BY <2>3
    <3> HIDE DEF p, q, r, b
    <3>3. 1 * InnerProduct(q, v) = 1 * InnerProduct(p, v) + b * InnerProduct(r, v)
      BY <3>1, <3>2, InnerProductLinear
    <3> QED BY <3>3 DEF p, q, r, b
  <2>5. InnerProduct(P(n + 1), v) \in Int /\ InnerProduct(P(n), v) \in Int
    BY <2>2, InnerProductInt
  <2>6. InnerProduct(Ray[n], v) = InnerProduct(v, Ray[n])
    BY <2>1, InnerProductSymmetric
  <2>7. InnerProduct(P(n), v) = IF x < n THEN f[x] * w ELSE 0
    BY <1>7
  <2>8. InnerProduct(P(n + 1), v) = IF x < n + 1 THEN f[x] * w ELSE 0
    <3>1. CASE n = x
      <4>1. f[n] * InnerProduct(Ray[n], v) = f[x] * w
        BY <2>6, <3>1 DEF w
      <4>2. ~(x < n) /\ x < n + 1
        BY <1>1, <3>1
      <4> HIDE DEF w
      <4> QED BY <1>5, <2>4, <2>5, <2>7, <4>1, <4>2
    <3>2. CASE n # x
      <4>1. f[n] * InnerProduct(Ray[n], v) = 0
        <5>1. InnerProduct(Ray[n], v) = 0
          BY <1>1, <2>6, <3>2
        <5> QED BY <2>1, <5>1
      <4>2. x < n + 1 <=> x < n
        BY <1>1, <3>2
      <4>3. InnerProduct(P(n + 1), v) = InnerProduct(P(n), v)
        BY <2>4, <2>5, <4>1
      <4> QED BY <2>7, <4>2, <4>3
    <3> QED BY <3>1, <3>2
  <2> QED BY <2>1, <2>8
<1>8. 0..m \subseteq T
  <2> HIDE DEF T, m
  <2> QED BY <1>1, <1>6, <1>7, UpFromZero
<1>9. m \in T /\ x < m
  BY <1>1, <1>8
<1>10. InnerProduct(P(m), v) = f[x] * w
  BY <1>9
<1>11. P(m) \in IntRow /\ \A c \in Coordinates : P(m)[c] = LineCombination(f)[c]
  BY <1>1, <1>2, <1>4
<1> QED BY <1>10, <1>11 DEF w

\* A combination with a coefficient other than 0 is not the zero vector.
LEMMA IndependentHolds == ChernikovaInv /\ LinesSeparated => LinesIndependent
<1> SUFFICES ASSUME ChernikovaInv, LinesSeparated, NEW f \in [LineRows -> Coefficients],
                    LineCombination(f) = Zero, NEW x \in LineRows
             PROVE  f[x] = 0
  BY DEF LinesIndependent
<1>1. f \in [LineRows -> Int] /\ f[x] \in Int
  BY CoefficientsAssumption
<1>2. PICK v \in IntRow : /\ InnerProduct(v, Ray[x]) # 0
                          /\ \A y \in LineRows : y # x => InnerProduct(v, Ray[y]) = 0
  BY DEF LinesSeparated, Separated, LineRows
<1>3. PICK p \in IntRow : /\ \A c \in Coordinates : p[c] = LineCombination(f)[c]
                          /\ InnerProduct(p, v) = f[x] * InnerProduct(v, Ray[x])
  BY <1>1, <1>2, CombinationProduct
<1>4. \A c \in Coordinates : p[c] = 0
  BY <1>3 DEF Zero
<1>5. InnerProduct(p, v) = 0
  BY <1>4, DisjointProduct
<1>6. Ray[x] \in IntRow
  BY RowsKnown DEF ChernikovaInv, ChernikovaTyped, LineRows
<1>7. PICK w \in Int : w = InnerProduct(v, Ray[x])
  BY <1>6, InnerProductInt
<1>8. PICK a \in Int : a = f[x]
  BY <1>1
<1>9. a * w = 0 /\ w # 0
  BY <1>2, <1>3, <1>5, <1>7, <1>8
<1>10. a = 0
  BY <1>9
<1> QED BY <1>8, <1>10

(***************************************************************************)
(* Between two constraints no combination of the lines with integer        *)
(* coefficients is the zero vector unless all coefficients are 0: as they  *)
(* span the lineality space (DescriptionExact) they are a basis of it,     *)
(* whichever line leaves when a constraint is not saturated.               *)
(***************************************************************************)
THEOREM LinesCorrect == Spec => []LinesIndependent
<1>1. DescribedInv /\ LinesSeparated => LinesIndependent
  BY IndependentHolds DEF DescribedInv
<1> QED BY <1>1, Invariance, SeparatedAlways, PTL
=============================================================================
