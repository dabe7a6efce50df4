-------------------------- MODULE RemoveRedundants --------------------------
(***************************************************************************)
(* Remove_Redundants of source/kernel/polyhedron.c: from the matrices that *)
(* Chernikova leaves, the polyhedron with a minimal set of equalities,     *)
(* inequalities, lines and rays.  The numbered steps of the function are   *)
(* the phases here.  Its locals reuse the variables of Chernikova, which   *)
(* has returned: NbRay, NbBid, i, j and k.                                 *)
(*                                                                         *)
(* The status words count: Mat[c][0] the rays that constraint c saturates, *)
(* Ray[r][0] the constraints that ray r saturates; later they classify a   *)
(* row: 0 equality or line, 1 inequality or ray, 2 redundant.              *)
(***************************************************************************)
EXTENDS Chernikova, Gauss

VARIABLES
  bits,           \* [0..NbConstraints-1 -> bit]: the arrays jx and bx
  NbEq, NbEq2,    \* constraints that are equalities, rank of these
  NbBid2,         \* rank of the lines
  Dim_RaySpace,
  filtering,      \* the argument Filter is not null
  temp2,          \* bits of the constraints given as equalities
  Filter,         \* bits of the constraints found irredundant
  Pol             \* the polyhedron under construction

counts == <<NbEq, NbEq2, NbBid2, Dim_RaySpace>>
filters == <<filtering, temp2, Filter>>
reduceVars == <<bits, counts, filters, Pol>>

EmptyMatrix == [x \in {} |-> 0]
Length(M) == Cardinality(DOMAIN M)
Appended(M, p) == WithRow(M, Length(M), p)
WithStatus(p, s) == [p EXCEPT ![0] = s]

UnitRow(s, x) == [c \in 0..Dimension |-> IF c = 0 THEN s
                                         ELSE IF c = x + 1 THEN 1 ELSE 0]

\* Empty_Polyhedron: x = 0, ..., 1 = 0, and no rays.
EmptyPolyhedron ==
  [NbEq |-> Dimension, NbBid |-> 0, Ray |-> EmptyMatrix,
   Constraint |-> [x \in 0 .. Dimension - 1 |-> UnitRow(0, x)]]

GotoEmpty ==
  /\ pc' = "reduced"
  /\ Pol' = EmptyPolyhedron
  /\ UNCHANGED <<Mat, Ray, Sat, NbBid, NbRay, i, j, k, bits, counts, filters>>

\* The arguments and locals of Chernikova this function does not have.
Untouched == UNCHANGED <<dual, NbMaxRays, jx, bx, bounds, bound>>

\* The bit of constraint c: the arrays map a row of Mat, which may have
\* moved, to its column of Sat.
Saturates(r, c) == bits[c] \notin Sat[r]
ConstraintRows == 0 .. NbConstraints - 1
AllRays == 0 .. NbRay - 1

(***************************************************************************)
(* STEP 0: without a vertex among the rays the polyhedron is empty.        *)
(***************************************************************************)
ResetRays ==
  /\ pc = "step0"
  /\ Untouched
  /\ IF \A r \in AllRays : AtInfinity(Ray[r]) THEN GotoEmpty
     ELSE /\ pc' = "step1"
          /\ Ray' = [r \in AllRays |-> WithStatus(Ray[r], 0)]
          /\ bits' = [c \in ConstraintRows |-> <<c \div WSIZE, c % WSIZE>>]
          /\ j' = 0
          /\ NbEq' = 0
          /\ temp2' = {}
          /\ UNCHANGED <<Mat, Sat, NbBid, NbRay, i, k, NbEq2, NbBid2,
                         Dim_RaySpace, filtering, Filter, Pol>>

(***************************************************************************)
(* STEP 1, one turn per constraint: a row without variable coefficients is *)
(* the positivity constraint, and goes, unless all the rays saturate it    *)
(* (1 = 0); any other row is counted.                                      *)
(***************************************************************************)
IsPositivity(p) == FirstNonZero(p, Dimension - 1) = 0

RaysSaturating(c) == Cardinality({r \in AllRays : Saturates(r, c)})

NoteEquality ==
  temp2' = IF filtering /\ Equality(j) THEN temp2 \cup {bits[j]} ELSE temp2

RemovePositivity ==
  LET last == NbConstraints - 1
  IN  /\ pc = "step1"
      /\ j <= last
      /\ IsPositivity(Mat[j])
      /\ Untouched
      /\ IF RaysSaturating(j) = NbRay /\ Mat[j][Dimension] # 0 THEN GotoEmpty
         ELSE /\ Mat' = Rows(Exchange(Mat, j, last), last)
              /\ bits' = Rows(Exchange(bits, j, last), last)
              /\ NoteEquality
              /\ UNCHANGED <<pc, Ray, Sat, NbBid, NbRay, i, j, k, counts,
                             filtering, Filter, Pol>>

CountConstraint ==
  /\ pc = "step1"
  /\ j < NbConstraints
  /\ ~IsPositivity(Mat[j])
  /\ Mat' = [Mat EXCEPT ![j][0] = RaysSaturating(j)]
  /\ Ray' = [r \in AllRays |->
               WithStatus(Ray[r], Ray[r][0] + (IF Saturates(r, j) THEN 1 ELSE 0))]
  /\ NbEq' = IF RaysSaturating(j) = NbRay THEN NbEq + 1 ELSE NbEq
  /\ NoteEquality
  /\ j' = j + 1
  /\ Untouched
  /\ UNCHANGED <<pc, Sat, NbBid, NbRay, i, k, bits, NbEq2, NbBid2,
                 Dim_RaySpace, filtering, Filter, Pol>>

\* Rays get credit for the positivity constraint; those that saturate
\* everything are lines.
SaturatesAll(p) == p[0] = NbConstraints + 1

CountLines ==
  /\ pc = "step1"
  /\ j = NbConstraints
  /\ pc' = "step2"
  /\ Ray' = [r \in AllRays |->
               IF AtInfinity(Ray[r]) THEN WithStatus(Ray[r], Ray[r][0] + 1)
                                     ELSE Ray[r]]
  /\ NbBid' = Cardinality({r \in AllRays : SaturatesAll(Ray'[r])})
  /\ i' = 0
  /\ Untouched
  /\ UNCHANGED <<Mat, Sat, NbRay, j, k, reduceVars>>

(***************************************************************************)
(* STEP 2: the equalities, implicit ones included, slide to the top; the   *)
(* inequalities keep their order.                                          *)
(***************************************************************************)
IsEquality(p) == p[0] = NbRay

\* f with element from moved down to position to.
Slid(f, from, to) ==
  [x \in DOMAIN f |-> IF x = to THEN f[from]
                      ELSE IF x \in to + 1 .. from THEN f[x - 1] ELSE f[x]]

\* The arrays jx and bx move with the row, whose column of Sat stays.
SlidBits(f, from, to) == Slid(f, from, to)

NextEquality ==
  CHOOSE c \in i + 1 .. NbConstraints - 1 :
    IsEquality(Mat[c]) /\ \A d \in i + 1 .. c - 1 : ~IsEquality(Mat[d])

SlideEquality ==
  /\ pc = "step2"
  /\ i < NbEq
  /\ IF IsEquality(Mat[i]) THEN UNCHANGED <<Mat, bits>>
     ELSE /\ Mat' = Slid(Mat, NextEquality, i)
          /\ bits' = SlidBits(bits, NextEquality, i)
  /\ i' = i + 1
  /\ Untouched
  /\ UNCHANGED <<pc, Ray, Sat, NbBid, NbRay, j, k, counts, filters, Pol>>
----------------------------------------------------------------------------
\* For DomainSimplify: equalities with a positive leading coefficient, so
\* that equal ones are recognised, ...
LexPositive(p) ==
  LET pos == FirstNonZero(p, Dimension)
  IN  IF pos # 0 /\ p[pos] < 0 THEN Opposite(p) ELSE p

\* ... and the filter gets those that no later given equality repeats.
SameRow(p, q) == \A c \in Coordinates : p[c] = q[c]

\* Wrong variant: of two equal rows neither goes to the filter.
RepeatedAnywhere(M, d) ==
  \E e \in (0 .. NbEq - 1) \ {d} : bits[e] \in temp2 /\ SameRow(M[d], M[e])
Repeated(M, d) ==
  \E e \in d + 1 .. NbEq - 1 : bits[e] \in temp2 /\ SameRow(M[d], M[e])

FilterEqualities ==
  /\ pc = "step2"
  /\ i >= NbEq
  /\ pc' = "step3"
  /\ Mat' = [c \in ConstraintRows |->
               IF filtering /\ c < NbEq THEN LexPositive(Mat[c]) ELSE Mat[c]]
  /\ Filter' = Filter \cup
       {bits[c] : c \in {d \in 0 .. NbEq - 1 : filtering /\ ~Repeated(Mat', d)}}
  /\ Untouched
  /\ UNCHANGED <<Ray, Sat, NbBid, NbRay, i, j, k, bits, counts, filtering,
                 temp2, Pol>>

(***************************************************************************)
(* STEP 3: a minimal basis of the equalities, which also eliminates their  *)
(* pivot variables from the inequalities.                                  *)
(***************************************************************************)
ReduceEqualities ==
  LET g == Gauss4(Mat, NbEq, NbConstraints)
  IN  /\ pc = "step3"
      /\ Untouched
      /\ IF g.rank >= Dimension THEN GotoEmpty
         ELSE /\ pc' = "step4"
              /\ Mat' = g.M
              /\ NbEq2' = g.rank
              /\ i' = 0
              /\ k' = NbRay
              /\ UNCHANGED <<Ray, Sat, NbBid, NbRay, j, bits, NbEq, NbBid2,
                             Dim_RaySpace, filters, Pol>>

(***************************************************************************)
(* STEP 4: the lines, implicit ones included, are exchanged to the top.    *)
(***************************************************************************)
LastLine ==     \* while (--k > i && ray k is not a line)
  LET lines == {r \in i + 1 .. k - 1 : SaturatesAll(Ray[r])}
  IN  IF lines = {} THEN i ELSE CHOOSE r \in lines : \A q \in lines : q <= r

RaiseLine ==
  /\ pc = "step4"
  /\ i < NbBid /\ k > i
  /\ IF SaturatesAll(Ray[i]) THEN UNCHANGED <<Ray, Sat, k>>
     ELSE /\ k' = LastLine
          /\ Ray' = Exchange(Ray, i, LastLine)
          /\ Sat' = BExchange(Sat, i, LastLine)
  /\ i' = i + 1
  /\ Untouched
  /\ UNCHANGED <<pc, Mat, NbBid, NbRay, j, reduceVars>>

\* STEP 5: a minimal basis of the lines, the rays reduced by it.
ReduceLines ==
  LET g == Gauss4(Ray, NbBid, NbRay)
  IN  /\ pc = "step4"
      /\ ~(i < NbBid /\ k > i)
      /\ Untouched
      /\ IF g.rank >= Dimension THEN GotoEmpty
         ELSE /\ pc' = "step6"
              /\ Ray' = g.M
              /\ NbBid2' = g.rank
              /\ Dim_RaySpace' = Dimension - 1 - NbEq2 - g.rank
              /\ UNCHANGED <<Mat, Sat, NbBid, NbRay, i, j, k, bits, NbEq,
                             NbEq2, filters, Pol>>
----------------------------------------------------------------------------
(***************************************************************************)
(* STEPS 6 and 7: the first pass.  A row that saturates too little is      *)
(* redundant, and so is a positivity constraint that step 3 has created.   *)
(***************************************************************************)
\* Wrong variant: an equality keeps its count of saturated rays.
ConstraintStatusCount(p) ==
  IF IsPositivity(p) \/ p[0] = 0 \/ p[0] < Dim_RaySpace THEN 2
  ELSE IF IsEquality(p) THEN p[0] ELSE 1
ConstraintStatus(p) ==
  IF IsPositivity(p) \/ p[0] = 0 \/ p[0] < Dim_RaySpace THEN 2
  ELSE IF IsEquality(p) THEN 0 ELSE 1

ClassifyConstraints ==
  /\ pc = "step6"
  /\ Untouched
  /\ IF \E c \in ConstraintRows : /\ IsPositivity(Mat[c])
                                  /\ IsEquality(Mat[c])
                                  /\ Mat[c][Dimension] # 0
     THEN GotoEmpty
     ELSE /\ pc' = "step7"
          /\ Mat' = [c \in ConstraintRows |->
                       WithStatus(Mat[c], ConstraintStatus(Mat[c]))]
          /\ UNCHANGED <<Ray, Sat, NbBid, NbRay, i, j, k, reduceVars>>

RayStatus(p) ==
  IF p[0] < Dim_RaySpace THEN 2 ELSE IF SaturatesAll(p) THEN 0 ELSE 1

\* STEP 8 as well: the polyhedron, with its equalities and lines.
ClassifyRays ==
  /\ pc = "step7"
  /\ pc' = "step9"
  /\ Ray' = [r \in AllRays |-> WithStatus(Ray[r], RayStatus(Ray[r]))]
  /\ Pol' = [NbEq |-> NbEq2, NbBid |-> NbBid2,
             Constraint |-> Rows(Mat, NbEq2), Ray |-> Rows(Ray', NbBid2)]
  /\ j' = NbEq
  /\ Untouched
  /\ UNCHANGED <<Mat, Sat, NbBid, NbRay, i, k, bits, counts, filters>>

(***************************************************************************)
(* STEP 9, one turn per inequality: redundant when another inequality that *)
(* is still irredundant is saturated by all the rays that saturate it.     *)
(***************************************************************************)
Irredundants == {c \in NbEq .. NbConstraints - 1 : Mat[c][0] = 1}
Generators   == {r \in NbBid .. NbRay - 1 : Ray[r][0] = 1}

ConstraintRedundant(c) ==
  \E d \in Irredundants \ {c} :
    \A r \in Generators : Saturates(r, c) => Saturates(r, d)

KeepConstraint ==
  /\ pc = "step9"
  /\ j < NbConstraints
  /\ IF j \notin Irredundants THEN UNCHANGED <<Mat, Pol, Filter>>
     ELSE IF ConstraintRedundant(j)
     THEN Mat' = [Mat EXCEPT ![j][0] = 2] /\ UNCHANGED <<Pol, Filter>>
     ELSE /\ Pol' = [Pol EXCEPT !.Constraint = Appended(@, Mat[j])]
          /\ Filter' = IF filtering THEN Filter \cup {bits[j]} ELSE Filter
          /\ UNCHANGED Mat
  /\ j' = j + 1
  /\ Untouched
  /\ UNCHANGED <<pc, Ray, Sat, NbBid, NbRay, i, k, bits, counts, filtering,
                 temp2>>

StartRays ==
  /\ pc = "step9"
  /\ j >= NbConstraints
  /\ pc' = "step10"
  /\ i' = NbBid
  /\ Untouched
  /\ UNCHANGED <<Mat, Ray, Sat, NbBid, NbRay, j, k, reduceVars>>

(***************************************************************************)
(* STEP 10, one turn per ray: the dual test, where a ray also saturates    *)
(* the positivity constraint and a vertex does not.                        *)
(***************************************************************************)
\* Wrong variant: the positivity constraint is left out of the incidences.
RayRedundantNoPositivity(r) ==
  \E s \in Generators \ {r} :
    \A c \in Irredundants : Saturates(r, c) => Saturates(s, c)

RayRedundant(r) ==
  \E s \in Generators \ {r} :
    /\ AtInfinity(Ray[r]) => AtInfinity(Ray[s])
    /\ \A c \in Irredundants : Saturates(r, c) => Saturates(s, c)

KeepRay ==
  /\ pc = "step10"
  /\ i < NbRay
  /\ IF i \notin Generators THEN UNCHANGED <<Ray, Pol>>
     ELSE IF RayRedundant(i)
     THEN Ray' = [Ray EXCEPT ![i][0] = 2] /\ UNCHANGED Pol
     ELSE Pol' = [Pol EXCEPT !.Ray = Appended(@, Ray[i])] /\ UNCHANGED Ray
  /\ i' = i + 1
  /\ Untouched
  /\ UNCHANGED <<pc, Mat, Sat, NbBid, NbRay, j, k, bits, counts, filters>>

\* Wrong variant: the vertices count as well.
KeptRays == Length(Pol.Ray) - NbBid2

\* The number aux of rays kept that are not vertices.
KeptAtInfinity ==
  Cardinality({r \in NbBid2 .. Length(Pol.Ray) - 1 : AtInfinity(Pol.Ray[r])})

IncludePositivity ==
  /\ pc = "step10"
  /\ i >= NbRay
  /\ pc' = "reduced"
  /\ Pol' = IF KeptAtInfinity >= Dim_RaySpace
            THEN [Pol EXCEPT !.Constraint =
                    Appended(@, UnitRow(1, Dimension - 1))]
            ELSE Pol
  /\ Untouched
  /\ UNCHANGED <<Mat, Ray, Sat, NbBid, NbRay, i, j, k, bits, counts, filters>>

RemoveStep ==
  \/ ResetRays \/ RemovePositivity \/ CountConstraint \/ CountLines
  \/ SlideEquality \/ FilterEqualities \/ ReduceEqualities \/ RaiseLine
  \/ ReduceLines \/ ClassifyConstraints \/ ClassifyRays \/ KeepConstraint
  \/ StartRays \/ KeepRay \/ IncludePositivity
============================================================================
