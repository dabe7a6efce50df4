--------------------------- MODULE RaySort_proof ---------------------------
(***************************************************************************)
(* RaySort partitions the rays, and moves Ray and Sat together, for every  *)
(* number of rays, every content of the rows and every word size.          *)
(***************************************************************************)
EXTENDS RaySortSpec, TLAPS

\* The arguments of the call do not change.
LEMMA ArgsFixed ==
  ASSUME UNCHANGED args
  PROVE  /\ NbBid' = NbBid /\ NbRay' = NbRay /\ Ray0' = Ray0 /\ Sat0' = Sat0
         /\ Bit' = Bit /\ RowIndex' = RowIndex
BY DEF args, Bit, RowIndex

(***************************************************************************)
(* The pointers stay ordered within the rows of the call, and every row of *)
(* both matrices stays one of the legal rows (RaySort never indexes        *)
(* outside NbBid..NbRay-1).                                                *)
(***************************************************************************)
THEOREM TypeCorrect == Spec => []TypeOK
<1>1. Init => TypeOK
  BY WordsAssumption DEF Init, TypeOK, RowIndex, Bit
<1>2. TypeOK /\ [Next]_vars => TypeOK'
  <2> SUFFICES ASSUME TypeOK, [Next]_vars PROVE TypeOK'
    OBVIOUS
  <2> USE DEF TypeOK, RowIndex
  <2>1. CASE Satisfy /\ UNCHANGED args
    BY <2>1, ArgsFixed DEF Satisfy, Scanning, Exchange, BExchange
  <2>2. CASE Verify /\ UNCHANGED args
    <3>1. Sat' \in [RowIndex -> SUBSET Words]
      BY <2>2 DEF Verify, Marked
    <3> QED
      BY <2>2, <3>1, ArgsFixed DEF Verify, Scanning
  <2>3. CASE Violate /\ UNCHANGED args
    <3>1. /\ sup_bound \in RowIndex /\ inf_bound - 1 \in RowIndex
          /\ inf_bound' \in sup_bound..NbRay
      BY <2>3 DEF Violate, Scanning
    <3>2. Marked \in [RowIndex -> SUBSET Words]
      BY <3>1 DEF Marked
    <3>3. Ray' \in [RowIndex -> Rows] /\ Sat' \in [RowIndex -> SUBSET Words]
      BY <2>3, <3>1, <3>2 DEF Violate, Exchange, BExchange
    <3> QED
      BY <2>3, <3>1, <3>3, ArgsFixed DEF Violate
  <2>4. CASE UNCHANGED vars
    BY <2>4 DEF vars, args, bounds, Bit
  <2> QED
    BY <2>1, <2>2, <2>3, <2>4 DEF Next, SortStep
<1> QED
  BY <1>1, <1>2, PTL DEF Spec

----------------------------------------------------------------------------
(***************************************************************************)
(* Tiers and BitExact are inductive together with the type invariant: the  *)
(* bit that Verify and Violate set travels with the row they move.         *)
(***************************************************************************)
Sorted == Tiers /\ BitExact

LEMMA SortedInit == Init => Sorted
BY DEF Init, Sorted, Tiers, BitExact, RowIndex, Bit

LEMMA SortedNext == TypeOK /\ TypeOK' /\ Sorted /\ [Next]_vars => Sorted'
<1> SUFFICES ASSUME TypeOK, TypeOK', Sorted, [Next]_vars PROVE Sorted'
  OBVIOUS
<1>0. \A i \in RowIndex : Ray[i][0] \in Int
  BY RowsAssumption DEF TypeOK
<1> DEFINE Fixed(i) == Ray'[i] = Ray[i] /\ Sat'[i] = Sat[i]
<1>1. CASE Satisfy /\ UNCHANGED args
  <2>1. /\ sup_bound \in RowIndex /\ equal_bound \in RowIndex
        /\ \A i \in RowIndex : i # sup_bound /\ i # equal_bound => Fixed(i)
        /\ Ray'[equal_bound] = Ray[sup_bound]
        /\ Sat'[equal_bound] = Sat[sup_bound]
        /\ Ray'[sup_bound] = Ray[equal_bound]
        /\ Sat'[sup_bound] = Sat[equal_bound]
    BY <1>1 DEF Satisfy, Scanning, Exchange, BExchange, TypeOK, RowIndex
  <2>2. /\ equal_bound' = equal_bound + 1 /\ sup_bound' = sup_bound + 1
        /\ inf_bound' = inf_bound /\ sup_bound < inf_bound
        /\ Ray[sup_bound][0] = 0
    BY <1>1 DEF Satisfy, Scanning
  <2>3. Tiers'
    BY <1>0, <1>1, <2>1, <2>2, ArgsFixed DEF Sorted, Tiers, TypeOK, RowIndex
  <2>4. BitExact'
    BY <1>0, <1>1, <2>1, <2>2, ArgsFixed
    DEF Sorted, Tiers, BitExact, TypeOK, RowIndex
  <2> QED
    BY <2>3, <2>4 DEF Sorted
<1>2. CASE Verify /\ UNCHANGED args
  <2>1. /\ sup_bound \in RowIndex /\ Ray' = Ray
        /\ \A i \in RowIndex : i # sup_bound => Fixed(i)
        /\ Sat'[sup_bound] = Sat[sup_bound] \cup {Bit}
    BY <1>2 DEF Verify, Marked, Scanning, TypeOK, RowIndex
  <2>2. /\ equal_bound' = equal_bound /\ sup_bound' = sup_bound + 1
        /\ inf_bound' = inf_bound /\ sup_bound < inf_bound
        /\ Ray[sup_bound][0] > 0
    BY <1>2 DEF Verify, Scanning
  <2>3. Tiers'
    BY <1>0, <1>2, <2>1, <2>2, ArgsFixed DEF Sorted, Tiers, TypeOK, RowIndex
  <2>4. BitExact'
    <3> SUFFICES ASSUME NEW i \in NbBid .. NbRay - 1
                 PROVE  Bit \in Sat'[i] <=>
                          (i \notin sup_bound' .. inf_bound' - 1 /\ Ray'[i][0] # 0)
      BY <1>2, ArgsFixed DEF BitExact
    <3>1. i \in RowIndex /\ i \in Int /\ sup_bound \in Int /\ inf_bound \in Int
          /\ Ray[i][0] \in Int
      BY <1>0 DEF TypeOK, RowIndex
    <3>2. i \in sup_bound' .. inf_bound' - 1
            <=> i \in sup_bound .. inf_bound - 1 /\ i # sup_bound
      BY <3>1, <2>2
    <3>3. Bit \in Sat[i] <=> (i \notin sup_bound .. inf_bound - 1 /\ Ray[i][0] # 0)
      BY DEF Sorted, BitExact
    <3>4. CASE i = sup_bound
      BY <3>1, <3>2, <3>4, <2>1, <2>2
    <3>5. CASE i # sup_bound
      BY <3>1, <3>2, <3>3, <3>5, <2>1
    <3> QED
      BY <3>4, <3>5
  <2> QED
    BY <2>3, <2>4 DEF Sorted
<1>3. CASE Violate /\ UNCHANGED args
  <2> DEFINE last == inf_bound - 1
  <2>1. /\ sup_bound \in RowIndex /\ last \in RowIndex
        /\ \A i \in RowIndex : i # sup_bound /\ i # last => Fixed(i)
        /\ Ray'[last] = Ray[sup_bound]
        /\ Sat'[last] = Sat[sup_bound] \cup {Bit}
        /\ sup_bound # last => /\ Ray'[sup_bound] = Ray[last]
                               /\ Sat'[sup_bound] = Sat[last]
    <3>1. /\ sup_bound \in RowIndex /\ last \in RowIndex
          /\ Ray' = Exchange(Ray, last, sup_bound)
          /\ Sat' = BExchange(Marked, last, sup_bound)
      BY <1>3 DEF Violate, Scanning, TypeOK, RowIndex
    <3>2. /\ Marked[sup_bound] = Sat[sup_bound] \cup {Bit}
          /\ \A i \in RowIndex : i # sup_bound => Marked[i] = Sat[i]
          /\ Marked \in [RowIndex -> SUBSET Words]
      BY <3>1 DEF TypeOK, Marked
    <3> HIDE DEF last
    <3> QED
      BY <3>1, <3>2 DEF Exchange, BExchange, TypeOK
  <2>2. /\ equal_bound' = equal_bound /\ sup_bound' = sup_bound
        /\ inf_bound' = last /\ sup_bound < inf_bound
        /\ Ray[sup_bound][0] < 0
    BY <1>3 DEF Violate, Scanning
  <2>3. Tiers'
    <3>1. \A i \in last .. NbRay - 1 : Ray'[i][0] < 0
      <4> TAKE i \in last .. NbRay - 1
      <4>1. i \in RowIndex /\ (i # last => i \in inf_bound .. NbRay - 1
                                          /\ i # sup_bound)
        BY <2>1, <2>2 DEF TypeOK, RowIndex
      <4> QED
        BY <2>1, <2>2, <4>1 DEF Sorted, Tiers
    <3>2. \A i \in NbBid .. sup_bound - 1 : Ray'[i] = Ray[i]
      <4> TAKE i \in NbBid .. sup_bound - 1
      <4>1. i \in RowIndex /\ i # sup_bound /\ i # last
        BY <2>2 DEF TypeOK, RowIndex
      <4> QED
        BY <2>1, <4>1
    <3> QED
      BY <1>3, <2>2, <3>1, <3>2, ArgsFixed DEF Sorted, Tiers, TypeOK
  <2>4. BitExact'
    <3> SUFFICES ASSUME NEW i \in NbBid .. NbRay - 1
                 PROVE  Bit \in Sat'[i] <=>
                          (i \notin sup_bound' .. inf_bound' - 1 /\ Ray'[i][0] # 0)
      BY <1>3, ArgsFixed DEF BitExact
    <3>1. i \in RowIndex /\ i \in Int /\ sup_bound \in Int /\ inf_bound \in Int
          /\ sup_bound \in NbBid .. NbRay - 1 /\ last \in NbBid .. NbRay - 1
      BY <2>2 DEF TypeOK, RowIndex
    <3>2. i \in sup_bound' .. inf_bound' - 1
            <=> i \in sup_bound .. inf_bound - 1 /\ i # last
      BY <3>1, <2>2
    <3>3. \A k \in NbBid .. NbRay - 1 :
            Bit \in Sat[k] <=> (k \notin sup_bound .. inf_bound - 1 /\ Ray[k][0] # 0)
      BY DEF Sorted, BitExact
    <3>4. CASE i = last
      BY <3>1, <3>2, <3>4, <2>1, <2>2
    <3>5. CASE i # last /\ i = sup_bound
      BY <3>1, <3>2, <3>3, <3>5, <2>1, <2>2
    <3>6. CASE i # last /\ i # sup_bound
      BY <3>1, <3>2, <3>3, <3>6, <2>1
    <3> QED
      BY <3>4, <3>5, <3>6
  <2> QED
    BY <2>3, <2>4 DEF Sorted
<1>4. CASE UNCHANGED vars
  BY <1>4 DEF vars, args, bounds, Sorted, Tiers, BitExact, Bit
<1> QED
  BY <1>1, <1>2, <1>3, <1>4 DEF Next, SortStep

(***************************************************************************)
(* RaySort keeps the three tiers of its comment.                           *)
(***************************************************************************)
THEOREM TiersCorrect == Spec => []Tiers
<1>1. TypeOK /\ TypeOK' /\ Sorted /\ [Next]_vars => Sorted'
  BY SortedNext
<1>2. Sorted => Tiers
  BY DEF Sorted
<1> QED
  BY <1>1, <1>2, SortedInit, TypeCorrect, PTL DEF Spec

(***************************************************************************)
(* RaySort sets the bit of the constraint for exactly the rays that do not *)
(* saturate it.                                                            *)
(***************************************************************************)
THEOREM BitsCorrect == Spec => []BitExact
<1>1. TypeOK /\ TypeOK' /\ Sorted /\ [Next]_vars => Sorted'
  BY SortedNext
<1>2. Sorted => BitExact
  BY DEF Sorted
<1> QED
  BY <1>1, <1>2, SortedInit, TypeCorrect, PTL DEF Spec

----------------------------------------------------------------------------
(***************************************************************************)
(* An exchange of two sorted rows composes with the permutation so far.    *)
(***************************************************************************)
LEMMA ExchangeMoves ==
  ASSUME TypeOK, MovedTogether, UNCHANGED args,
         NEW a \in NbBid .. NbRay - 1, NEW b \in NbBid .. NbRay - 1,
         Ray' = Exchange(Ray, a, b),
         NEW S \in [RowIndex -> SUBSET Words],
         \A i \in RowIndex : S[i] \ {Bit} = Sat[i] \ {Bit},
         Sat' = BExchange(S, a, b)
  PROVE  MovedTogether'
<1>1. PICK f \in [RowIndex -> RowIndex] : MovedBy(f)
  BY DEF MovedTogether
<1> DEFINE g == Exchange(f, a, b)
<1>2. /\ RowIndex' = RowIndex /\ Bit' = Bit
      /\ a \in RowIndex /\ b \in RowIndex
      /\ \A i \in 0 .. NbBid - 1 : i \in RowIndex /\ i # a /\ i # b
  BY DEF args, RowIndex, Bit, TypeOK
<1>3. g \in [RowIndex -> RowIndex]
  BY <1>2 DEF Exchange
<1>4. /\ g[a] = f[b] /\ g[b] = f[a]
      /\ \A i \in RowIndex : i # a /\ i # b => g[i] = f[i]
  BY <1>2 DEF Exchange
<1>5. \A i, k \in RowIndex : g[i] = g[k] => i = k
  BY <1>1, <1>2, <1>4 DEF MovedBy, Permutation
<1>6. \A i \in 0 .. NbBid - 1 : g[i] = i
  BY <1>1, <1>2, <1>4 DEF MovedBy
<1>7. \A i \in RowIndex : Ray'[i] = Ray0[g[i]]
  BY <1>1, <1>2, <1>4 DEF MovedBy, Exchange, TypeOK
<1>8. \A i \in RowIndex : Sat'[i] \ {Bit} = Sat0[g[i]]
  <2>1. \A i \in RowIndex : S[i] \ {Bit} = Sat0[f[i]]
    BY <1>1 DEF MovedBy
  <2>2. /\ Sat'[a] = S[b] /\ Sat'[b] = S[a]
        /\ \A i \in RowIndex : i # a /\ i # b => Sat'[i] = S[i]
    BY <1>2 DEF BExchange
  <2> QED
    BY <2>1, <2>2, <1>2, <1>4
<1>9. MovedBy(g)'
  BY <1>2, <1>3, <1>5, <1>6, <1>7, <1>8 DEF MovedBy, Permutation, args
<1> QED
  BY <1>2, <1>3, <1>9 DEF MovedTogether

(***************************************************************************)
(* RaySort moves the rows of Ray and Sat by one permutation that fixes the *)
(* lines, and changes no bit but the one of the constraint.                *)
(***************************************************************************)
THEOREM MovesTogether == Spec => []MovedTogether
<1>1. Init => MovedTogether
  <2> SUFFICES ASSUME Init PROVE MovedTogether
    OBVIOUS
  <2> DEFINE id == [i \in RowIndex |-> i]
  <2>1. id \in [RowIndex -> RowIndex]
    OBVIOUS
  <2>2. MovedBy(id)
    BY DEF Init, MovedBy, Permutation, RowIndex, Bit
  <2> QED
    BY <2>1, <2>2 DEF MovedTogether
<1>2. TypeOK /\ TypeOK' /\ MovedTogether /\ [Next]_vars => MovedTogether'
  <2> SUFFICES ASSUME TypeOK, TypeOK', MovedTogether, [Next]_vars
               PROVE  MovedTogether'
    OBVIOUS
  <2>1. CASE Satisfy /\ UNCHANGED args
    <3>1. equal_bound \in NbBid..NbRay-1 /\ sup_bound \in NbBid..NbRay-1
      BY <2>1 DEF Satisfy, Scanning, TypeOK
    <3> QED
      BY <2>1, <3>1, ExchangeMoves DEF Satisfy, TypeOK
  <2>2. CASE Verify /\ UNCHANGED args
    <3>1. sup_bound \in NbBid..NbRay-1
      BY <2>2 DEF Verify, Scanning, TypeOK
    <3>2. Ray' = Exchange(Ray, sup_bound, sup_bound)
      BY <2>2, <3>1 DEF Verify, Exchange, TypeOK
    <3>3. Sat' = BExchange(Sat', sup_bound, sup_bound)
      BY <2>2, <3>1 DEF BExchange, TypeOK, args, RowIndex
    <3>4. /\ Sat' \in [RowIndex -> SUBSET Words]
          /\ \A i \in RowIndex : Sat'[i] \ {Bit} = Sat[i] \ {Bit}
      BY <2>2, <3>1 DEF Verify, Marked, TypeOK, args, RowIndex
    <3> QED
      BY <2>2, <3>1, <3>2, <3>3, <3>4, ExchangeMoves
  <2>3. CASE Violate /\ UNCHANGED args
    <3> DEFINE last == inf_bound - 1
    <3>1. last \in NbBid..NbRay-1 /\ sup_bound \in NbBid..NbRay-1
      BY <2>3 DEF Violate, Scanning, TypeOK
    <3>2. /\ Marked \in [RowIndex -> SUBSET Words]
          /\ \A i \in RowIndex : Marked[i] \ {Bit} = Sat[i] \ {Bit}
      BY <3>1 DEF Marked, TypeOK, RowIndex
    <3>3. Ray' = Exchange(Ray, last, sup_bound)
          /\ Sat' = BExchange(Marked, last, sup_bound)
      BY <2>3 DEF Violate
    <3>4. UNCHANGED args
      BY <2>3
    <3> HIDE DEF last
    <3> QED
      BY <3>1, <3>2, <3>3, <3>4, ExchangeMoves
  <2>4. CASE UNCHANGED vars
    <3>1. Ray' = Ray /\ Sat' = Sat /\ UNCHANGED args
      BY <2>4 DEF vars
    <3>2. \A f : MovedBy(f) => MovedBy(f)'
      BY <3>1, ArgsFixed DEF MovedBy, Permutation
    <3> QED
      BY <3>1, <3>2, ArgsFixed DEF MovedTogether
  <2> QED
    BY <2>1, <2>2, <2>3, <2>4 DEF Next, SortStep
<1> QED
  BY <1>1, <1>2, TypeCorrect, PTL DEF Spec
============================================================================
