------------------------------ MODULE MCDisjoint ------------------------------
(* A domain of three boxes: the third meets the second, which does not meet   *)
(* the first.                                                                *)
EXTENDS DomainCalls

Box(x1, x2, y1, y2) == << <<1, 1, 0, -x1>>, <<1, -1, 0, x2>>, <<1, 0, 1, -y1>>, <<1, 0, -1, y2>> >>
DisjointInputs == {<<Box(0, 1, 0, 1), Box(1, 5, 3, 4), Box(0, 3, 4, 5)>>,
                   <<Box(0, 1, 0, 1), Box(1, 2, 1, 2)>>, <<Box(0, 0, 0, 0)>>}
DisjointWindow == (0..5) \X (0..5)
=============================================================================
