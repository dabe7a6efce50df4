----------------------------- MODULE Compression -----------------------------
(***************************************************************************)
(* Elimination of equalities from parameterised constraints                *)
(* (source/kernel/compress_parms.c, with the parts of matrix_addon.c and   *)
(* matrix_permutations.c it uses).  A row is (status, variables,           *)
(* parameters, constant), the status 0 for an equality and 1 for an        *)
(* inequality.  NoMatrix is the NULL of the code.                          *)
(***************************************************************************)
EXTENDS NormalForms, FiniteSets

NoMatrix == << >>

LastColumns(M, k) == SubMatrix(M, 1, NbRows(M), NbColumns(M) - k + 1, NbColumns(M))

\* int_ker: a basis, as columns, of the integer vectors x with M x = 0.
int_ker(M) ==
  LET RankOf(h) == CHOOSE r \in 0 .. NbRows(M) :
                     /\ \A i \in r + 1 .. NbRows(M) : IsZeroVector(h[i])
                     /\ r > 0 => ~IsZeroVector(h[r])
      Ker(h, rk) == IF NbColumns(M) <= rk THEN NoMatrix
                    ELSE IF rk = 0 THEN Identity(NbColumns(M))
                    ELSE LastColumns(left_hermite(SubSeq(h, 1, rk)).U, NbColumns(M) - rk)
      Of(h) == Ker(h, RankOf(h))
  IN  Of(right_hermite(M).H)

\* linearInter: Lb such that the columns of B * Lb are the intersection of the
\* lattices that the columns of A and of B span.
linearInter(A, B) ==
  LET rk == NbRows(A)
      a  == NbColumns(A)
      b  == NbColumns(B)
      I  == Identity(rk)
      AB == Tuple([i \in 1 .. 2 * rk |->
              IF i <= rk THEN A[i] \o Zeros(b) \o I[i] ELSE Zeros(a) \o B[i - rk] \o I[i - rk]])
      LastOf(row) == CHOOSE j \in DOMAIN row : row[j] # 0 /\ \A k \in j + 1 .. Len(row) : row[k] = 0
      Of(h) == SubMatrix(h.U, a + 1, a + b, LastOf(h.H[2 * rk]) + 1, NbColumns(h.U))
  IN  Of(left_hermite(AB))

\* An integer solution of the equalities, << >> if there is none.
Equalities_integerSolution(Eqs) ==
  LET rk == NbRows(Eqs)
      n  == NbColumns(Eqs) - 2
      C  == Negative(Column(Eqs, n + 2))
      Divided(U, Hi, Ip) ==
        IF \E i \in 1..rk : PMod(Ip[i], Hi[i][rk + 1]) # 0 THEN << >>
        ELSE Matrix_Vector_Product(U,
               Tuple([i \in 1..n |-> IF i <= rk THEN PDiv(Ip[i], Hi[i][rk + 1]) ELSE 0]))
      By(U, Hi) == Divided(U, Hi, Matrix_Vector_Product(SubMatrix(Hi, 1, rk, 1, rk), C))
      Of(h) == By(h.U, MatInverse(SubMatrix(h.H, 1, rk, 1, rk)).inverse)
  IN  Of(left_hermite(SubMatrix(Eqs, 1, rk, 2, n + 1)))

\* The values of the last variables for which the first a have integer values.
Equalities_validityLattice(Eqs, a) ==
  LET b   == NbColumns(Eqs) - 2 - a
      Lb  == linearInter(SubMatrix(Eqs, 1, NbRows(Eqs), 2, a + 1),
                         SubMatrix(Eqs, 1, NbRows(Eqs), a + 2, a + b + 1))
      Lattice(H, sol) ==
        Tuple([i \in 1 .. b + 1 |-> IF i > b THEN Append(Zeros(b), 1)
                                    ELSE Append(SubSeq(H[i], 1, b), sol[a + i])])
      Of(sol) == IF sol = << >> THEN NoMatrix ELSE Lattice(left_hermite(Lb).H, sol)
  IN  IF b = 0 THEN <<<<1>>>> ELSE Of(Equalities_integerSolution(Eqs))

compress_parms(E, nbParms) == Equalities_validityLattice(E, NbColumns(E) - 2 - nbParms)

\* The sub-lattice spanned in the first k dimensions.
Lattice_extractSubLattice(lat, k) ==
  LET n == NbColumns(lat)
      H == left_hermite(SubMatrix(lat, 1, NbRows(lat), 1, n - 1)).H
  IN  IF k = NbRows(lat) - 1 THEN lat
      ELSE Tuple([i \in 1 .. k + 1 |->
             IF i <= k THEN Append(SubSeq(H[i], 1, k), lat[i][n]) ELSE Append(Zeros(k), 1)])

\* The period of each variable in M x modulo d.
affine_periods(M, d) ==
  LET period(j) ==
        LET p[i \in 0..NbRows(M)] ==
              IF i = 0 THEN 1 ELSE LcmOf(p[i - 1], d[i] \div GcdOf(d[i], M[i][j]))
        IN  p[NbRows(M)]
  IN  Tuple([i \in Columns(M) |-> [Zeros(NbColumns(M)) EXCEPT ![i] = period(i)]])

-----------------------------------------------------------------------------
(* Permutation and elimination of variables.                                 *)

EqualitiesOf(M) == SelectSeq(M, LAMBDA row : row[1] = 0)
InequalitiesOf(M) == SelectSeq(M, LAMBDA row : row[1] # 0)

\* The first combination of as many variables as equalities, in the order of
\* their bit fields, whose columns are independent; the empty set if none.
eliminable_vars(Eqs, start, end) ==
  LET m == NbRows(Eqs)
      Code(S) == LET sum[j \in 0..end] == IF j = 0 THEN 0 ELSE sum[j - 1] + (IF j \in S THEN 2^j ELSE 0)
                 IN  sum[end]
      Square(S) == Tuple([i \in 1..m |-> SelectSeq(
                     Tuple([j \in start..end |-> <<j, Eqs[i][j + 1]>>]), LAMBDA x : x[1] \in S)])
      Values(A) == Tuple([i \in 1..m |-> Tuple([k \in 1..m |-> A[i][k][2]])])
      FirstOf(full) == IF full = {} THEN {} ELSE CHOOSE S \in full : \A T \in full : Code(S) <= Code(T)
  IN  FirstOf({S \in SUBSET (start..end) : Cardinality(S) = m /\ right_hermite(Values(Square(S))).H[m][m] # 0})

\* The new places: variables to eliminate, parameters, variables to keep.
find_a_permutation(Eqs, nb_parms) ==
  LET m == NbRows(Eqs)
      nb_vars == NbColumns(Eqs) - nb_parms - 2
      Place(i, gone, before) ==
        IF i \in gone THEN before + 1
        ELSE IF i <= nb_vars THEN m + nb_parms + i - before
        ELSE IF i <= nb_vars + nb_parms THEN m + i - nb_vars
        ELSE i
      Of(gone) == IF gone = {} THEN << >>
                  ELSE [i \in 1 .. NbColumns(Eqs) - 1 |-> Place(i, gone, Cardinality({j \in gone : j < i}))]
  IN  Of(eliminable_vars(Eqs, 1, nb_vars))

mpolyhedron_permute(M, perm) ==
  LET from == [p \in 1 .. NbColumns(M) - 1 |-> CHOOSE j \in DOMAIN perm : perm[j] = p]
  IN  Tuple([i \in Rows(M) |-> <<M[i][1]>> \o Tuple([p \in DOMAIN from |-> M[i][from[p] + 1]])])

\* The last columns are multiplied by the compression.
mpolyhedron_compress_last_vars(M, compression) ==
  LET k == NbRows(compression)
      n == NbColumns(M)
  IN  Tuple([i \in Rows(M) |-> SubSeq(M[i], 1, n - k) \o
                Vector_Matrix_Product(SubSeq(M[i], n - k + 1, n), compression)])

\* Wrong variant: the factor of the victim keeps its sign.
EliminatedByUnsigned(row, victim, var) ==
  LET e == row[var + 1]
      v == victim[var + 1]
      new == AddScaled(Scaled(victim, e), -v, row)
  IN  IF v = 0 THEN victim ELSE [new EXCEPT ![1] = victim[1]]

\* eliminate_var_with_constr: variable var leaves the victim, whose own factor
\* is positive.
EliminatedBy(row, victim, var) ==
  LET e == row[var + 1]
      v == victim[var + 1]
      lcm == LcmOf(AbsValue(e), AbsValue(v))
      a == Quot(lcm, e)
      b == Quot(lcm, v)
      new == AddScaled(Scaled(victim, AbsValue(b)), IF b > 0 THEN -a ELSE a, row)
  IN  IF v = 0 THEN victim ELSE [new EXCEPT ![1] = victim[1]]

\* Variable i is eliminated with the first row of Eqs not used before that
\* contains it, from the rows after it and from Ineqs; 2 marks a used row.
EliminateVariable(s, i) ==
  LET usable == {j \in Rows(s.Eqs) : s.Eqs[j][i + 1] # 0 /\ s.Eqs[j][1] # 2}
      j == CHOOSE k \in usable : \A l \in usable : k <= l
  IN  IF ~s.ok \/ usable = {} THEN [s EXCEPT !.ok = FALSE]
      ELSE [ok |-> TRUE,
            Eqs |-> Tuple([k \in Rows(s.Eqs) |->
                      IF k > j THEN EliminatedBy(s.Eqs[j], s.Eqs[k], i)
                      ELSE IF k = j THEN [s.Eqs[k] EXCEPT ![1] = 2] ELSE s.Eqs[k]]),
            Ineqs |-> Tuple([k \in Rows(s.Ineqs) |-> EliminatedBy(s.Eqs[j], s.Ineqs[k], i)])]

mpolyhedron_eliminate_first_variables(Eqs, Ineqs) ==
  LET step[i \in 0..NbRows(Eqs)] ==
        IF i = 0 THEN [ok |-> TRUE, Eqs |-> Eqs, Ineqs |-> Ineqs]
        ELSE EliminateVariable(step[i - 1], i)
      last == step[NbRows(Eqs)]
  IN  [last EXCEPT !.Eqs = Tuple([i \in Rows(Eqs) |-> [@[i] EXCEPT ![1] = 0]])]

\* A full-dimensional system whose integer points are in bijection with those
\* of M, and the lattice of the parameters; NoMatrix when it has none.
full_dimensionize(M, nbParms) ==
  LET Eqs == EqualitiesOf(M)
      Ineqs == InequalitiesOf(M)
      m == NbRows(Eqs)
      n == NbColumns(M)
      Failed == [ok |-> FALSE, M |-> NoMatrix, VL |-> Identity(nbParms + 1)]
      Full(WVL, last, e) ==
        IF ~e.ok THEN Failed
        ELSE [ok |-> TRUE,
              M |-> Tuple([i \in Rows(e.Ineqs) |->
                      <<1>> \o SubSeq(e.Ineqs[i], m + nbParms + 2, n - 1)
                      \o SubSeq(e.Ineqs[i], m + 2, m + nbParms + 1) \o <<e.Ineqs[i][n]>>]),
              VL |-> Tuple([i \in 1 .. nbParms + 1 |->
                       IF i <= nbParms THEN Append(SubSeq(WVL[i], 1, nbParms), WVL[i][last])
                       ELSE Append(Zeros(nbParms), WVL[last][last])])]
      By(pEqs, pIneqs, WVL) ==
        IF WVL = NoMatrix THEN Failed
        ELSE Full(WVL, NbColumns(WVL),
                  mpolyhedron_eliminate_first_variables(mpolyhedron_compress_last_vars(pEqs, WVL),
                                                        mpolyhedron_compress_last_vars(pIneqs, WVL)))
      Permuted(pEqs, pIneqs) == By(pEqs, pIneqs, compress_parms(pEqs, n - 2 - m))
      Of(perm) == Permuted(mpolyhedron_permute(Eqs, perm), mpolyhedron_permute(Ineqs, perm))
  IN  IF m = 0 THEN [ok |-> TRUE, M |-> Ineqs, VL |-> Identity(nbParms + 1)]
      ELSE Of(find_a_permutation(Eqs, nbParms))
=============================================================================
