------------------------------ MODULE Evalues ------------------------------
(***************************************************************************)
(* Pseudo-polynomials: the evalues of ehrhart.c, their evaluation in       *)
(* eval_ehrhart.c, the general addition of ext_ehrhart.c and the removal   *)
(* of the homogeneous parameter in homogenization.c.                       *)
(* An evalue is a rational n/d, or a node (d = 0): a polynomial in         *)
(* parameter pos with evalues as coefficients, or a periodic number        *)
(* indexed by that parameter.  Values are unbounded, and the doubles of    *)
(* the evaluation are exact rationals.                                     *)
(***************************************************************************)
EXTENDS Matrices

Constant(n, d) == [d |-> d, n |-> n]
Node(type, pos, arr) == [d |-> 0, type |-> type, pos |-> pos, arr |-> arr]
IsConstant(e) == e.d # 0
IsPeriodic(e) == ~IsConstant(e) /\ e.type = "periodic"
IsPolynomial(e) == ~IsConstant(e) /\ e.type = "polynomial"
Zero == Constant(0, 1)

Simplest(n, d) == LET g == GcdOf(n, d) IN Constant(Quot(n, g), Quot(d, g))
SumOfConstants(a, b) == Simplest(a.n * b.d + b.n * a.d, a.d * b.d)
ProductOfConstants(a, b) == Simplest(a.n * b.n, a.d * b.d)

eequal(e1, e2) == e1 = e2

-----------------------------------------------------------------------------
(* reduce_evalue.                                                            *)

Periods(arr) ==
  {i \in 1 .. Len(arr) \div 2 :
     Len(arr) % i = 0 /\ \A j \in 1 .. Len(arr) - i : eequal(arr[j], arr[j + i])}

ReducedPeriod(arr) ==
  IF Periods(arr) = {} THEN arr
  ELSE SubSeq(arr, 1, CHOOSE i \in Periods(arr) : \A j \in Periods(arr) : i <= j)

ReducedDegree(arr) ==
  LET kept == {i \in 2..Len(arr) : arr[i] # Zero}
  IN  IF kept = {} THEN <<arr[1]>>
      ELSE SubSeq(arr, 1, CHOOSE i \in kept : \A j \in kept : j <= i)

RECURSIVE reduce_evalue(_)
reduce_evalue(e) ==
  LET arr  == Tuple([i \in DOMAIN e.arr |-> reduce_evalue(e.arr[i])])
      less == IF e.type = "periodic" THEN ReducedPeriod(arr) ELSE ReducedDegree(arr)
  IN  IF IsConstant(e) THEN e
      ELSE IF Len(less) = 1 THEN less[1] ELSE [e EXCEPT !.arr = less]

-----------------------------------------------------------------------------
(* Products and sums.  emul: e2 is a constant.                               *)

RECURSIVE emul(_, _)
emul(e1, e2) ==
  IF IsConstant(e1) THEN ProductOfConstants(e1, e2)
  ELSE [e1 EXCEPT !.arr = Tuple([i \in DOMAIN @ |-> emul(@[i], e2)])]

\* The coefficients of two nodes: those of the shorter one are added to those of
\* the longer one.
Shorter(e1, res) == IF Len(e1.arr) > Len(res.arr) THEN res.arr ELSE e1.arr
Longer(e1, res) == IF Len(e1.arr) > Len(res.arr) THEN e1.arr ELSE res.arr

\* Wrong variant: the coefficients of e1 beyond the degree of res are lost.
AddedTermsShort(e1, res, sums) ==
  [res EXCEPT !.arr = sums \o SubSeq(@, Len(sums) + 1, Len(@))]
AddedTerms(e1, res, sums) ==
  LET all == Longer(e1, res) IN [res EXCEPT !.arr = sums \o SubSeq(all, Len(sums) + 1, Len(all))]

\* eadd: the new value of res.  What it cannot add it reports, and leaves res.
RECURSIVE eadd(_, _)
eadd(e1, res) ==
  IF IsConstant(e1) /\ IsConstant(res) THEN SumOfConstants(e1, res)
  ELSE IF IsConstant(e1) THEN
         IF IsPolynomial(res) THEN [res EXCEPT !.arr[1] = eadd(e1, @)]
         ELSE [res EXCEPT !.arr = Tuple([i \in DOMAIN @ |-> eadd(e1, @[i])])]
  ELSE IF IsConstant(res) \/ e1.type # res.type \/ e1.pos # res.pos THEN res
  ELSE IF IsPeriodic(res) /\ Len(e1.arr) # Len(res.arr) THEN res
  ELSE LET less == Shorter(e1, res)
       IN  AddedTerms(e1, res, Tuple([i \in DOMAIN less |-> eadd(less[i], Longer(e1, res)[i])]))

\* edot: v1 a vector of evalues, v2 of constants.
edot(v1, v2) ==
  LET sum[n \in 0..Len(v1)] ==
        IF n = 0 THEN Zero
        ELSE IF n = 1 THEN emul(v1[1], v2[1]) ELSE eadd(emul(v1[n], v2[n]), sum[n - 1])
  IN  sum[Len(v1)]

(***************************************************************************)
(* new_eadd: any two polynomials and periodic numbers.  For periods of     *)
(* different lengths the sum goes to an evalue that is never given to the  *)
(* caller: res stays as it is.                                             *)
(***************************************************************************)
RECURSIVE new_eadd(_, _)
new_eadd(e1, res) ==
  LET ToTerms == [res EXCEPT !.arr =
                    IF IsPolynomial(res) THEN [@ EXCEPT ![1] = new_eadd(e1, @)]
                    ELSE Tuple([i \in DOMAIN @ |-> new_eadd(e1, @[i])])]
  IN  IF IsConstant(e1) /\ IsConstant(res) THEN SumOfConstants(e1, res)
      ELSE IF IsConstant(e1) THEN ToTerms
      ELSE IF IsConstant(res) THEN new_eadd(res, e1)
      ELSE IF IsPeriodic(res) /\ IsPolynomial(e1)
           THEN [e1 EXCEPT !.arr[1] = new_eadd(res, @)]
      ELSE IF e1.type # res.type \/ e1.pos # res.pos THEN ToTerms
      ELSE IF IsPolynomial(res) \/ Len(e1.arr) = Len(res.arr)
           THEN LET less == Shorter(e1, res)
                IN  AddedTerms(e1, res, Tuple([i \in DOMAIN less |-> new_eadd(less[i], Longer(e1, res)[i])]))
      ELSE res

-----------------------------------------------------------------------------
(* addeliminatedparams_evalue: the parameters of e are numbered by the rows  *)
(* of CT but the last; each becomes the first column its row has an entry.   *)

RECURSIVE aep_evalue(_, _)
aep_evalue(e, ref) ==
  IF IsConstant(e) THEN e
  ELSE [e EXCEPT !.arr = Tuple([i \in DOMAIN @ |-> aep_evalue(@[i], ref)]), !.pos = ref[@]]

addeliminatedparams_evalue(e, CT) ==
  aep_evalue(e, [i \in 1 .. Len(CT) - 1 |-> FirstNonZeroOf(CT[i])])

-----------------------------------------------------------------------------
(* Evaluation, at the parameter values args.                                 *)

RECURSIVE compute_evalue(_, _)
compute_evalue(e, args) ==
  LET horner[i \in 1..Len(e.arr)] ==     \* from the last coefficient down
        LET c == compute_evalue(e.arr[Len(e.arr) + 1 - i], args)
        IN  IF i = 1 THEN c
            ELSE SumOfConstants(ProductOfConstants(horner[i - 1], Constant(args[e.pos], 1)), c)
  IN  IF IsConstant(e) THEN Simplest(e.n, e.d)
      ELSE IF IsPolynomial(e) THEN horner[Len(e.arr)]
      ELSE compute_evalue(e.arr[PMod(args[e.pos], Len(e.arr)) + 1], args)

\* in_domain: P a list of systems of constraints [status, coefficients, constant].
Respects(row, args) ==
  LET v == Dot(SubSeq(row, 2, Len(row)), Append(args, 1))
  IN  IF row[1] # 0 THEN v >= 0 ELSE v = 0
in_domain(P, args) == \E i \in DOMAIN P : \A r \in DOMAIN P[i] : Respects(P[i][r], args)

\* compute_poly: en a list of validity domains and evalues.  The first domain
\* that holds the arguments decides; a quarter is added before truncation.
compute_poly(en, args) ==
  LET holds == {k \in DOMAIN en : in_domain(en[k].ValidityDomain, args)}
      first == CHOOSE k \in holds : \A l \in holds : k <= l
      at    == IF args = << >> THEN 1 ELSE first
      v     == SumOfConstants(compute_evalue(en[at].EP, args), Constant(1, 4))
  IN  IF en = << >> \/ (args # << >> /\ holds = {}) THEN 0 ELSE Quot(v.n, v.d)

-----------------------------------------------------------------------------
(* homogenization.c: the last parameter becomes 1.                           *)

\* A polynomial in the homogeneous parameter becomes the sum of its
\* coefficients, element 1 of a periodic one standing for it.
dehomogenize_polynomial(p) ==
  LET Coefficient(c) == IF IsConstant(c) THEN c ELSE c.arr[IF Len(c.arr) > 1 THEN 2 ELSE 1]
      sum[i \in 0..Len(p.arr)] ==
        IF i = 0 THEN [n |-> 0, d |-> 1]
        ELSE LET c == Coefficient(p.arr[i])
             IN  [n |-> sum[i - 1].d * c.n + sum[i - 1].n * c.d, d |-> sum[i - 1].d * c.d]
  IN  Simplest(sum[Len(p.arr)].n, sum[Len(p.arr)].d)

dehomogenize_periodic(p) == Constant(p.arr[2].n, p.arr[2].d)

RECURSIVE dehomogenize_evalue(_, _)
dehomogenize_evalue(e, nb_param) ==
  IF IsConstant(e) THEN e
  ELSE IF e.pos # nb_param
       THEN [e EXCEPT !.arr = Tuple([i \in DOMAIN @ |-> dehomogenize_evalue(@[i], nb_param)])]
  ELSE IF IsPeriodic(e) /\ Len(e.arr) > 1 THEN dehomogenize_periodic(e)
  ELSE dehomogenize_polynomial(e)

\* dehomogenize_enumeration: in the validity domains the column of the
\* homogeneous parameter becomes the constant, and the constant is dropped.
Dehomogenized(row) == SubSeq(row, 1, Len(row) - 1)
dehomogenize_enumeration(en, nb_params) ==
  [k \in DOMAIN en |->
     [ValidityDomain |-> [i \in DOMAIN en[k].ValidityDomain |->
         [r \in DOMAIN en[k].ValidityDomain[i] |-> Dehomogenized(en[k].ValidityDomain[i][r])]],
      EP |-> dehomogenize_evalue(en[k].EP, nb_params)]]
=============================================================================
