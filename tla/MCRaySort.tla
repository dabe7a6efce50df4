----------------------------- MODULE MCRaySort -----------------------------
(* RaySort on every matrix of at most MaxRays rows.  Four rows are the      *)
(* fewest with a line, and a ray of each tier to exchange; two of the row   *)
(* values share a tier, so that a lost or doubled row is noticed.           *)
EXTENDS RaySortSpec

MCRows == {[x \in {0} |-> s] : s \in {-2, -1, 0, 1}}
MCWords == {<<0, 0>>, <<0, 1>>}
============================================================================
