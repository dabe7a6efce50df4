---------------------------- MODULE MCDomainCalls ----------------------------
(* Boxes, a triangle with rational vertices, a segment, a half-plane and a   *)
(* strip without integer points, in the plane.                               *)
EXTENDS DomainCalls

MCInputs == {
  << << <<1, 1, 0, 0>>, <<1, -1, 0, 2>>, <<1, 0, 1, 0>>, <<1, 0, -1, 1>> >> >>,
  << << <<1, 1, 0, -1>>, <<1, -1, 0, 3>>, <<1, 0, 1, -1>>, <<1, 0, -1, 3>> >> >>,
  << << <<1, 1, 0, 0>>, <<1, 0, 1, 1>>, <<1, -2, -2, 5>> >> >>,
  << << <<0, 1, -1, 0>>, <<1, 1, 0, 1>>, <<1, -1, 0, 2>> >> >>,
  << << <<1, 1, 0, -1>> >> >>,
  << << <<1, 3, 0, -1>>, <<1, -3, 0, 2>>, <<1, 0, 1, 0>>, <<1, 0, -1, 2>> >> >> }

MCCuts   == {<<1, 1, -2, 1>>, <<0, 1, 1, -2>>}
MCPoints == {<<1, -1, 3, 1>>}
MCTurns  == {<< <<0, 1, 0>>, <<-1, 0, 2>>, <<0, 0, 1>> >>}
MCMaps   == {<< <<1, 0, 0>>, <<1, 0, 0>>, <<0, 0, 1>> >>}
MCCosts  == {<<2, -3, 0>>, <<1, 1, 1>>}
MCWindow == (-1..3) \X (-1..3)
=============================================================================
