------------------------------ MODULE MCAlgebra ------------------------------
(* Arguments: all small matrices of one shape where they are few, else       *)
(* families that hold zero rows, dependent rows, common factors and negative *)
(* pivots.                                                                   *)
EXTENDS Algebra

EliminationRows == {v \in [1..3 -> {-1, 0, 2}] : v[1] + v[2] + v[3] \in {0, 1, 3} \/ (v[1] = -1 /\ v[2] = 2)}
MCEliminationMatrices ==
  [0..2 -> {[x \in 0..3 |-> IF x = 0 THEN 0 ELSE v[x]] : v \in EliminationRows}]

Vectors(k, S) == {Tuple(v) : v \in [1..k -> S]}
Matrices2(k, S) == {<<r, t>> : r, t \in Vectors(k, S)}
MCNormalFormMatrices ==
  Matrices2(2, {-3, -1, 0, 2, 4}) \cup Matrices2(3, {-2, 0, 3})
    \cup {<<r, <<2, 0, 6>>, <<0, 4, -3>>>> : r \in Vectors(3, {-4, 0, 1})}

\* 2 unknowns, one or two equations.
MCSystems ==
  {<<r, <<0, 0, 1>>>> : r \in Vectors(3, {-3, 0, 1, 2})}
    \cup {<<r, t, <<0, 0, 1>>>> : r \in Vectors(3, {-2, 0, 3}), t \in Vectors(3, {-2, 0, 1})}
    \cup {<<r, <<1, 1, 2, -3>>, <<0, 0, 0, 1>>>> : r \in Vectors(4, {-2, 0, 1})}

Lattice1(a, c) == <<<<a, c>>, <<0, 1>>>>
Lattice2(a, b, d, l, m) == <<<<a, b, l>>, <<0, d, m>>, <<0, 0, 1>>>>
MCLatticePairs ==
  {<<Lattice1(a, l), Lattice1(b, m)>> : a \in 1..4, l \in 0..1, b \in {2, 3, 6}, m \in {0, 1, -2}}
    \cup {<<Lattice2(a, 0, d, 0, 1), Lattice2(b, c, e, 1, m)>> :
             a \in {1, 2}, d \in {1, 3}, b \in {1, 2}, c \in {0, 1}, e \in {2, 4}, m \in {0, 1}}

\* 2 variables in 0..3, 1 parameter, an equality, and an inequality or two equalities.
Box == <<<<1, 1, 0, 0, 0>>, <<1, -1, 0, 0, 3>>, <<1, 0, 1, 0, 0>>, <<1, 0, -1, 0, 3>>>>
MCParamSystems ==
  {<<<<0>> \o e>> \o Box : e \in {f \in Vectors(4, {-2, 0, 1, 3}) : f[1] # 0 \/ f[2] # 0}}
    \cup {<<<<0, 1, 2, -1, c>>, <<0, 2, b, -2, 1>>>> \o Box : b \in {-1, 0, 3}, c \in 0..1}
    \cup {<<<<1, 1, -1, 1, -2>>>> \o Box}

\* Parameter 2 is innermost.
Numbers == {Constant(0, 1), Constant(3, 2), Constant(-1, 1)}
Inner == Numbers \cup {Node("periodic", 2, <<Constant(1, 2), Constant(2, 1)>>),
                       Node("polynomial", 2, <<Constant(1, 1), Constant(-1, 3), Constant(0, 1)>>),
                       Node("polynomial", 2, <<Constant(2, 1), Node("periodic", 2, <<Constant(0, 1), Constant(1, 1)>>)>>)}
MCEvalues ==
  Inner
    \cup {Node("polynomial", 1, <<x, y>>) : x, y \in Inner}
    \cup {Node("polynomial", 1, <<x, Constant(1, 3), y>>) : x \in Numbers, y \in Inner}
    \cup {Node("periodic", 1, <<x, y, x, Constant(0, 1)>>) : x, y \in Inner}
    \cup {Node("periodic", 1, <<Constant(1, 1), Constant(1, 1), x>>) : x \in Numbers}
    \cup {Node("periodic", 1, <<x, Constant(2, 1), x, Constant(2, 1)>>) : x \in Inner}
\* The second operands are fewer.
MCSecond ==
  {Constant(1, 1), Node("polynomial", 2, <<Constant(1, 1), Constant(1, 1)>>),
   Node("polynomial", 1, <<Constant(1, 1)>>), Node("polynomial", 1, <<Constant(0, 1), Constant(2, 1), Constant(1, 2)>>),
   Node("periodic", 1, <<Constant(1, 1), Constant(5, 1)>>),
   Node("periodic", 1, <<Constant(1, 1), Constant(5, 1), Constant(0, 1), Constant(2, 3)>>)}
MCEvaluePairs == MCEvalues \X MCSecond

MCNear == -4..4
MCFar == -9..9

\* 1 or 2 variables, positive, at most the first parameter and more; equalities
\* between variables and parameters, between parameters, and in the context.
\* A pyramid, where four constraints meet in a vertex.
NoContext(k) == << <<1>> \o Zeros(k) \o <<1>> >>
MCParamPolyhedra ==
  {<< << <<1, 1, 0, 0>>, <<1, -1, 1, 0>>, c>>, NoContext(1)>> : c \in {<<s>> \o v : s \in 0..1, v \in Vectors(3, {-2, 1, 3})}}
    \cup {<< << <<1, 1, 0, 0, 0>>, <<1, 0, 1, 0, 0>>, <<1, -1, 0, 1, 0>>, c>>, << <<1, -1, 3>> >> >> :
            c \in {<<s>> \o v : s \in 0..1, v \in Vectors(4, {-1, 0, 2})}}
    \cup {<< << <<1, 1, 0, 0, 0>>, <<1, -1, 1, 0, 0>>, <<1, -a, 0, 1, 1>> >>, << c >> >> :
            a \in 1..2, c \in {<<s>> \o v : s \in 0..1, v \in Vectors(3, {-1, 0, 1})}}
    \cup {<< << <<1, 0, 0, 1, 0, 0>>, <<1, 1, 0, -1, 0, 0>>, <<1, 0, 1, -1, 0, 0>>,
                <<1, -1, 0, -1, 1, 0>>, <<1, 0, -1, -1, 1, c>> >>, NoContext(1)>> : c \in 0..1}

\* Unions of sets of integers, as lattices of one or two coordinates: all
\* integers, residues, dependent generators with gaps at the ends, coordinates
\* with holes, rays.
Pair2(a, b, c) == <<<<a, b, c>>, <<0, 0, 1>>>>
Segment(l, u) == << <<1, 1, -l>>, <<1, -1, u>> >>
Square(l, u) == << <<1, 1, 0, -l>>, <<1, -1, 0, u>>, <<1, 0, 1, -l>>, <<1, 0, -1, u>> >>
Strip(a, b, l, u) == << <<1, a, b, -l>>, <<1, -a, -b, u>> >>
MCUnions ==
  {<< <<Lattice1(1, 0), <<Segment(-2, 1)>> >> >>,
   << <<Lattice1(-3, 1), <<Segment(-1, 1)>> >>, <<Lattice1(2, 0), <<Segment(-2, -1), Segment(1, 2)>> >> >>,
   << <<Pair2(2, 3, 0), <<Square(-1, 1), Square(1, 2)>> >> >>,
   << <<Pair2(1, 0, 0), <<Strip(3, -5, 1, 2) \o Square(-4, 4)>> >> >>,
   << <<Lattice1(3, 0), << << <<0, 1, -1>> >> >> >> >>,
   << <<Pair2(2, 4, 1), <<Square(-2, 2)>> >>, <<Lattice1(4, 0), << << <<1, 1, 0>> >> >> >> >> }
MCLBLPairs == MCUnions \X MCUnions
=============================================================================
