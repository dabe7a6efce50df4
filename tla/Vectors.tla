------------------------------ MODULE Vectors ------------------------------
(***************************************************************************)
(* The vector operations of source/kernel/vector.c and the static Combine  *)
(* of source/kernel/polyhedron.c, on rows: functions p on 0..Dimension     *)
(* whose element 0 is the status word.  Values are unbounded, as in the    *)
(* GMP build: overflow of the fixed-width builds is out of scope here.     *)
(***************************************************************************)
EXTENDS Integers

CONSTANT Dimension      \* homogeneous dimension: a row has 1+Dimension Values
ASSUME DimensionAssumption == Dimension \in Nat /\ Dimension >= 2

Coordinates == 1..Dimension

Abs(x) == IF x >= 0 THEN x ELSE -x

\* Inner product of two rows without their status words.
InnerProduct(p, q) ==
  LET sum[n \in 0..Dimension] ==
        IF n = 0 THEN 0 ELSE sum[n - 1] + p[n] * q[n]
  IN  sum[Dimension]

Divides(d, S) == \A x \in S : x % d = 0

\* Vector_Gcd of the values of S: 1 when all of them are zero.
VectorGcd(S) ==
  LET nonzero == {Abs(x) : x \in S} \ {0}
      least   == CHOOSE m \in nonzero : \A x \in nonzero : m <= x
  IN  IF nonzero = {} THEN 1
      ELSE CHOOSE d \in 1..least :
             /\ Divides(d, nonzero)
             /\ \A e \in d + 1 .. least : ~Divides(e, nonzero)

\* Gcd of two values that are not both zero.
Gcd(a, b) == VectorGcd({a, b})

\* Vector_Normalize of the coordinates of p; the status word stays.
Normalize(p) ==
  LET g == VectorGcd({p[c] : c \in Coordinates})
  IN  [c \in 0..Dimension |-> IF c = 0 THEN p[0] ELSE p[c] \div g]

\* First_Non_Zero over the coordinates 1..n of p: 0 when there is none (the
\* code returns -1, counted from the first coordinate).
FirstNonZero(p, n) ==
  IF \A c \in 1..n : p[c] = 0 THEN 0
  ELSE CHOOSE c \in 1..n : p[c] # 0 /\ \A d \in 1 .. c - 1 : p[d] = 0

\* Vector_Oppose of the coordinates.
Opposite(p) == [c \in 0..Dimension |-> IF c = 0 THEN p[0] ELSE -p[c]]

(***************************************************************************)
(* Combine: the combination of p1 and p2 that is zero at pos (which may be *)
(* the status word), reduced by its gcd, with the status word of p3.       *)
(***************************************************************************)
Combine(p1, p2, p3, pos) ==
  LET g  == Gcd(p1[pos], p2[pos])
      a1 == p1[pos] \div g
      a2 == p2[pos] \div g
  IN  Normalize([c \in 0..Dimension |->
                   IF c = 0 THEN p3[0] ELSE a2 * p1[c] - a1 * p2[c]])
============================================================================
