# A specification of polylib

polylib computes with polyhedra over the integers.  It keeps every polyhedron
in two descriptions at once, by constraints (equalities and inequalities) and
by generators (lines, rays, vertices).  The conversion between the two carries
unions of polyhedra; integer matrices in normal form carry lattices and the
elimination of equalities; both together carry Z-polyhedra, parameterised
vertices and the counting polynomials.  This directory models these layers, the exceptions they
are wrapped in and the memory they live on: TLA+ modules, TLC configurations,
proofs checked by TLAPS, and `PROJECT.json`, which maps each definition to the
lines of source it stands for.

## The system

| Component | State it keeps | Operations | Status |
|---|---|---|---|
| Chernikova, RaySort (`kernel/polyhedron.c` 286-740) | matrices `Mat`, `Ray`, saturation bits `Sat`, bounds of the three tiers of rays | one pass per constraint: evaluate, straighten a line, sort, combine adjacent pairs, drop | modelled |
| Remove_Redundants, Gauss4 (742-1568) | the same matrices, status words used as counters, arrays `jx`, `bx`, `temp2` | steps 0 to 10 | modelled |
| Construction of one polyhedron (1728-3216) | the polyhedra of the program | Constraints2Polyhedron, Rays2Polyhedron, AddConstraints, AddRays, SubConstraint, SimplifyConstraints, BuildSat, TransformSat | modelled, but for the POL_NO_DUAL paths |
| Domains (`kernel/polyhedron.c` 3218-4890) | linked lists of polyhedra | inclusion, union, intersection, difference, simplification, disjoint form, convex hull, image, preimage, integer simplification | partly: not the orders of `alpha.c` |
| Scanning (`kernel/polyhedron.c`, `ehrhart/ehrhart.c`) | one list per nesting level | Polyhedron_Scan, lower_upper_bounds, cherche_min, DomainCost | modelled with the domains |
| Normal forms (`matrix.c`, `NormalForms.c`, `matrix_addon.c`), Diophantine systems (`SolveDio.c`) | matrices | Hermite and Smith forms, inverse, kernel, periods, SolveDiophantine | partly: not `int_mod_basis` and most permutations |
| Lattices (`Lattice.c`) | matrices | normal form, intersection, inclusion, complement, difference, sublattice | partly |
| Z-polyhedra (`Zpolyhedron.c`) | lists of (lattice, domain) | canonical form, union, intersection, difference, complement, inclusion, image, preimage, elimination of existential coordinates | partly: not LBLSimplify and LBLDisjointUnion |
| Parameterised polyhedra (`polyparam.c`) | lists of vertices and validity domains | Polyhedron2Param_Domain, Polyhedron2Param_SimplifiedDomain, VertexCT | partly: not Param_Polyhedron_Scale_Integer |
| Parameter compression (`compress_parms.c`) | matrices | full_dimensionize, affine_periods, int_ker | partly |
| Ehrhart polynomials (`ehrhart/`) | evalues (trees of polynomials and periodic numbers) | eadd, new_eadd, emul, edot, reduce_evalue, evaluation, dehomogenisation | partly: not the counting itself |
| Exceptions (`arith/errors.c`) | a stack per thread, one global last exception, callbacks | CATCH, UNCATCH, THROW, RETHROW | modelled |
| Value cache (`kernel/vector.c` 778-942) | a cache per thread, found under a key of thread-specific data | value_alloc, value_free, Vector_Alloc, Vector_Realloc, Vector_Free, polylib_close | modelled |
| Vector arithmetic (`kernel/vector.c`, `Matop.c`) | none | gcd, normalisation, inner product, combination | what the others call |
| Fixed-width arithmetic (`arithmetique.h`) | none | checked products, unchecked sums in the 32- and 64-bit builds | not modelled |
| factors, ranking, alpha orders, error messages | none | helpers | not modelled |
| Programs, Python binding, tests | none | I/O | out of scope |

How they interact.  A call such as `AddConstraints` stacks the rows of its
argument on those it was given, rebuilds the saturation matrix (`BuildSat`),
lets `Chernikova` continue from the constraints that are already processed and
hands the matrices to `Remove_Redundants`, which returns a polyhedron in
canonical form.  The dual calls (`AddRays`, `Rays2Polyhedron`) do the same with
constraints and rays exchanged and transpose the saturation matrix in between.
The functions on domains call these for every pair of polyhedra of two lists
and keep the lists minimal with `AddPolyToDomain`.  Parameterised vertices come
from the faces of one polyhedron and from differences of domains; the counting
polynomials are found by scanning polyhedra for fixed parameters.  Lattices and
the elimination of equalities rest on the two Hermite forms.  Each of the
functions on one polyhedron opens an exception entry with `CATCH`, frees what
it has allocated when an arithmetic overflow is thrown below it, and rethrows.
Every row of every matrix is a slice of an array that came from the cache of
the calling thread.

What is hard here.

* The algorithm is incremental and works in place.  Bits, counters, rows and
  the arrays that name them are moved separately and must stay in step over any
  sequence of constraints and of calls.  A mistake shows, if at all, several
  constraints later, as a polyhedron with a ray too many or too few.
* Lists change under the loops that walk them: a piece is cut, split and put
  back while the list is compared with itself.  What a call returns depends on
  the lists that earlier calls left.
* Boundaries: a line or an equality too many makes an unsigned dimension wrap,
  the adjacency test counts one constraint that is not in the matrix, a matrix
  is enlarged just before the row that needs it; quotients of negative numbers
  must be rounded to the right side in bounds, residues and periods.
* Exceptions jump over any number of functions; each handler must find the
  entry of a live function, and with threads the state behind RETHROW is shared.
* The cache hands an array from one owner to the next, with lengths that differ
  from what is asked for; its key can be deleted by any thread at any moment.

`PROJECT.json` lists these hazards one by one, at their lines.

## The modules

The modules of the core and of the two services have the state of the code as
VARIABLES and an action per step; the layers above, which compute without any
state of their own between two calls, are modules of operators, and two systems
call them: `Algebra` one call on every argument, `DomainCalls` sequences of
calls on lists that earlier calls left.

    Vectors            inner product, gcd, normalisation, Combine
      Geometry_proof     lemmas: sums, linearity, divisors, Combine; theorem on
                         Gauss4; cones, rays and lines against one more
                         constraint; constraints and rays of one cone; ranks
                         of equalities and lines (EXTENDS Gauss)
    RaySort            the operators and steps of RaySort
      RaySortSpec        RaySort as a system: one call, any matrix; properties
      RaySort_proof      theorems
    Chernikova         the steps of Chernikova (EXTENDS Vectors, RaySort)
      Chernikova_proof   its inductive invariants, one lemma per step
                         (EXTENDS Geometry_proof)
      ChernikovaSpec     Chernikova on sequences of constraints; properties
      ChernikovaSpec_proof  theorems
    Gauss              Gauss4 as operators
    RemoveRedundants   the eleven steps (EXTENDS Chernikova, Gauss)
    PolyhedronCalls    the functions that build a polyhedron, in sequences of
                       calls (EXTENDS RemoveRedundants); properties
      PolyhedronCalls_proof  theorems: the descriptions agree
                             (EXTENDS Chernikova_proof)
      Contracts_proof        theorems: what the calls promise, that nothing
                             redundant is left, what the filter keeps
                             (EXTENDS PolyhedronCalls_proof)

    Matrices           vectors and matrices as sequences (matrix.c, Matop.c)
    Polyhedra          what the functions of PolyhedronCalls return, as operators
    Domains            the functions on lists (EXTENDS Polyhedra)
    Scanning           loops over integer points, cost (EXTENDS Domains)
      DomainCalls        a program with two domains; properties (EXTENDS Scanning)
      Regions            what the functions promise, on sets of points
    ParamPolyhedra     parameterised vertices (EXTENDS Scanning)
    NormalForms        Hermite and Smith forms, inverses, periods (EXTENDS Matrices)
    SolveDio, Lattices, Compression   on top of NormalForms
    ZPolyhedra         pieces on lattices, lists of them, their canonical form
                       (EXTENDS Scanning, instance of Lattices)
    ZOperations        set operations on them, integer emptiness, holes
                       (EXTENDS ZPolyhedra)
    Evalues            pseudo-polynomials
      Algebra            one call of any of these; properties

    Exceptions         stacks, throw, catch, rethrow; properties
      Exceptions_proof   theorems
    ValueCache         heap, caches, keys, vectors; properties
      ValueCache_proof   theorems
    MC*                instances for TLC

**Vectors, RaySort, Chernikova.**  A row is a function on `0..Dimension`, where
0 is the status word, as in the code.  `Sat[r]` is the set of the bits `<<word,
bit>>` that are set in the saturation row of `r`, so words of `WSIZE` bits, the
comparison "up to the end of the current word" and the order of `NEXT` are kept.
The variable `pc` is the phase of the loop over the constraints: `head`
(evaluate the status words), `line` (a line does not saturate the constraint),
`sort` (RaySort, one exchange or comparison per step), `pairs` (one pair of the
double loop per step, then the compaction).  Rows behind `NbRay` are not kept:
the code never reads them again.  `NbMaxRays` is the allocated length, so that a
write behind the end is visible.  The adjacency test is the code's, shortcut
included.

**Gauss, RemoveRedundants.**  Gauss4 only depends on its arguments and is an
operator built from one recursive function over the columns.  The steps of
Remove_Redundants run in the code's order; loops over rows with early exits,
exchanges or removals take one step per turn (`RemovePositivity`,
`CountConstraint`, `SlideEquality`, `KeepConstraint`, `KeepRay`), loops whose
turns are independent take one step.  The `goto empty` exits lead to
`GotoEmpty`.  The status words are used as the code uses them: a counter first,
a classification later.

**PolyhedronCalls.**  Each function is an action that prepares the matrices; the
steps of Chernikova and Remove_Redundants follow, and the polyhedron returned
is `Pol`.  The next call takes `Pol` (and, for SimplifyConstraints, the
polyhedron before it) as argument.  `op`, `Given` and `Arg` remember the call
for the properties.

**Polyhedra, Domains.**  A polyhedron is a record of its two matrices and the
numbers of equalities and lines; a list is a sequence, the null pointer the
empty one.  `Polyhedra` computes what Chernikova and Remove_Redundants leave
(in the code's order of constraints, the order of rays being of no consequence
to the callers), so that a call on domains is one step.  The loops of `Domains`
keep the code's order and early exits: what is prepended, what is compared with
what, when a list is given up.  A Domain_Copy is the identity, because lists
are values here; where the code returns its argument instead of a copy, the
model cannot tell (see the findings).

**DomainCalls, Regions.**  The program replaces the first of its two domains by
what a function returns; `Swap` exchanges them.  `Regions` is the abstract
specification: two sets of integer points.  `DomainCalls` implements it under
the mapping of a list to the points of its polyhedra (`RefinesRegions`).

**ParamPolyhedra.**  `Faces` scans the subsets of constraints as scan_m_face
does, `FoundEliminating` and its neighbours split validity domains while the
list grows; bit vectors are sets.

**NormalForms, SolveDio, Lattices, Compression, Evalues.**  One operator per
function, pivot choice, exchanges and quotients as in the code, with loops as
recursive operators or functions.  Evaluation by doubles in `eval_ehrhart.c` is
exact here.

**ZPolyhedra, ZOperations.**  A piece is a lattice and a domain of its
coordinates; it stands for the points that the lattice gives to the integer
points of the domain.  Zero columns at the end of the lattice are coordinates
that only have to exist.  An LBL (`LBL` is the library's name for a list of
pieces) is a sequence, and a piece whose domain is the null pointer is empty.
`CanonicalLBL` is the code's: normal form of each lattice, equalities
substituted, existential coordinates projected out where the exact and the dark
shadow agree, pieces on equal lattices merged.  `sLBLCompute_holes` scans the
points between the two shadows, as the code does when they differ.  Where the
code tests only the first polyhedron of a domain or the first piece of a list,
so does the model.

**Exceptions.**  One record per entry of the stack and one per activation of a
function with a CATCH; the jump buffer of an entry is the depth of the
activation it returns to.  Functions of the library end their handler with
RETHROW, those of the program recover.  What the handlers free is left out.
An activation that has returned, or that longjmp left, is none (`Unwound`), so that
a jump to it shows; entries popped from the stack stay in their slots, as in the code.

**ValueCache.**  A heap block is how many of its Values went through
`value_init` and which of them are not zero.  Thread-specific data is modelled
by slots: creating a key takes the lowest free slot (as the C library does),
deleting a key frees it, and an access through a key uses whatever the slot
holds.  A step of one thread on its own cache is atomic, because no other thread
can reach that cache; `polylib_close` is two steps, since another thread may
take the slot between its two deletions of the key.

## What is checked

| Run | Question | Instance |
|---|---|---|
| `ray_sort` | Are the rays sorted into three tiers, with exact bits, rows and saturation rows moved together? | every matrix of up to 4 rows, 4 status values, 1 earlier bit |
| `chernikova` | Matrices inside their allocation, Sat exact, rays and lines generate exactly the cone (`DoubleDescription`), no ray redundant, lines independent; primal and dual | space, every matrix of 3 of 8 rows, of 4 of 4 rows, and a cut pyramid of 6 rows in every order |
| `calls` | Each function after each other one: intersection, hull or difference as promised, the rays satisfy the constraints, both descriptions complete and without redundancy; then the simplification of the result, whose filter must suffice | plane, 2 calls of 1 or 2 rows, then SimplifyConstraints |
| `space` | The same descriptions where faces have more than two rays | space, 2 calls of up to 5 rows, then SimplifyConstraints |
| `algebra` | Elimination, normal forms, Diophantine systems, lattices, compression, pseudo-polynomials, parameterised vertices, Z-polyhedra: does each return what its definition says? | about 10000 arguments: all small matrices of a shape, pairs of lattices, systems with one parameter, pairs of evalues in two parameters, polyhedra in 1 to 3 variables and up to 2 parameters, 36 pairs of unions of Z-polyhedra |
| `domains` | Does each call on a domain do the set operation of its name (refinement of `Regions`)? Do lists stay minimal, both descriptions agree, searches and costs hold? | plane, 6 polyhedra, every sequence of 2 calls |
| `exceptions` | No jump into a dead function, no mismatch, an exception lost only by another thread's reset, callbacks balanced, handling ends | 2 threads, 3 functions, 3 entries, 2 kinds |
| `value_cache` | No array shared, leaked or dirty; lengths exact; contents kept | without threads: 3 vectors of up to 2 Values, cache of 2, 4 blocks; with 2 threads that pass vectors around, close the library and meet failing allocations: 2 vectors, cache of 1, 3 blocks |

Runs that must fail, each for a finding described below: `four_dimensions`,
`disjoint_domain`, `exceptions_lost`, `used_after_close`.

Every property of a passing run has a mutant in `PROJECT.json`: a plausible
slip in one mapped definition (named *wrong variant* where it is defined) that
makes TLC report that property.

The properties of `algebra` compare with definitions that share nothing with
the algorithms: enumerated points of a lattice, enumerated solutions of a
system, values of a pseudo-polynomial at points, the vertices of the polyhedron
with the parameters replaced by numbers, the integers of a Z-polyhedron.

### The bounds, and why they are enough

* `WSIZE` is 2 rather than 32 (or 64): with up to 6 constraints the bits then span
  three words, and words are begun, filled and left during a run, which with 32
  bits no instance of this size would do.
* Dimensions.  In the plane (homogeneous dimension 3) every shape of cone occurs:
  empty, a point, a line, a half-line, wedges, strips, the whole plane, and one
  that grows, shrinks and flips as constraints come.  But in the plane any two
  rays on a common face are adjacent; hence the instances in space, which contain
  a pyramid over a square, where the search for a third ray decides.
* The constraints contain parallel and repeated ones, implicit equalities, the
  positivity constraint and a contradiction; the rays contain lines, points
  inside the hull of others, and opposite rays.
* `Box` is where two descriptions are compared: vectors with coordinates up to 2
  in the plane, 1 in space.  It contains the extreme rays of most of the cones of
  the instances, so that a wrong ray or constraint differs on some of it.
* `MaxCalls` 2 makes every function the predecessor of every other; the
  simplification that may follow in `calls` meets two polyhedra that were built
  independently or one from the other.
* The polyhedra of `domains` are two boxes that share a corner region, a
  triangle with rational vertices, a segment, a half-plane and a strip without
  integer points.  Their sums and differences are lists of up to four polyhedra
  that overlap, touch or cover each other.  `Window` holds all the bounded ones
  with a margin and is mapped to itself by the functions that are applied.
* `Near` and `Far` in `algebra`: coordinates of the points compared, and the
  coefficients that reach them from the small lattices and systems of the instance.
* The unions of `algebra` are six sets of integers, on lattices of one or two
  coordinates: with and without existential coordinates, bounded and not, a point,
  of several pieces, on lattices that meet, and projections with holes.  Sets of
  integers suffice for the two shadows to differ, which needs a second,
  existential coordinate and not a second dimension.  Pairs of them are united,
  intersected, subtracted, complemented, compared, mapped and compared with the
  sets of their points in `Near`.
* `MAX_STACKED_CONTEXTS` 3 (64 in the code), for each of two threads: a program
  function, functions of the library nested in it that rethrow one after the other,
  an entry between them that is skipped, and the overflow of the stack.
* `MAX_CACHE_SIZE` 2 and 1 (50 in the code): empty, partly filled and full caches
  all occur, and an entry is taken from the middle of one.

The inductive invariants `ChernikovaInv` and `CallsInv` of the proofs were checked
by TLC on the instances of `chernikova` and `calls` as well, before they were
proved.

`WorkSpaces` is `{0}`: the caller's limit on the matrices only sets their initial
length, and 0, the smallest one, enlarges most often.

### Fairness

Only `HandlingEnds` needs any: weak fairness of `Rethrow(t) \/ Recover(t)`.  A
handler in polyhedron.c frees memory and rethrows, without loops or waiting, so a
thread that is in a handler and is scheduled finishes it.  Nothing is assumed of
the other actions: a program need never throw, return or close.

CHECK_DEADLOCK is off in all runs: calls return, sequences of calls are bounded,
and programs abort.

## What is proved

`RaySort_proof`, for matrices of any size and any rows with integer status:

* `TypeCorrect`, `TiersCorrect`, `BitsCorrect`: `Tiers` and `BitExact` are the two
  halves of the invariant `Sorted`; neither is inductive without the order of the
  bounds in `TypeOK`, since a row exchanged in from the end must be known not to
  have been scanned.
* `MovesTogether`: the invariant is the existence of one permutation that maps the
  arguments of the call to both matrices.  Each exchange composes the permutation
  with a transposition of two rows behind the lines (`ExchangeMoves`).

`Geometry_proof` begins with what the geometry rests on, for every `Dimension`: the inner
product is symmetric and linear, the gcd divides, `Normalize` divides by a
positive number and changes nothing else, `Combine` yields a weighted sum that is
zero at the pivot, one of whose weights is positive.  The recursive functions
that define sums and gcd are unfolded by induction over sets: the arguments
for which a fact holds contain 0 and, with each one, the next (`UpFromZero`), or
the least counterexample is not one (`LeastElement`).

`Chernikova_proof` and `ChernikovaSpec_proof`, for every `Dimension`, `WSIZE`,
matrix of integers and number of rays, primal and dual:

* `Invariance`: the inductive invariant `ChernikovaInv`.  Its parts hold each other
  up.  `Verified`: lines saturate and rays verify the constraints processed; a
  combination of a ray above the constraint and one below keeps that because both
  weights are positive.  `StatusExact`: from the evaluation to the end of the
  turn a status word is the inner product with the constraint at hand, whatever rows
  are combined, normalised and moved.  `BitsExact`: the bits of a row are those of the
  constraints it does not saturate.  For a combined row the code takes the union of
  its parents' bits, which is exact only as no product is negative, so `BitsExact`
  needs `Verified`; and which rows are combined is decided by the tiers of `InPhase`.
* `TypeCorrect`, `NeverPastAllocation` (no row is written behind the allocated ones,
  as the matrices are enlarged before the row that needs it), `SaturationExact`.
* `DescriptionExact`, the theorem of double description for this code.  It is the
  second part of the invariant, `Described`: the rays cover the cone (for each of
  its vectors outside the lineality space some ray saturates at least what the vector
  saturates), each ray is the only one on the constraints it saturates, and what is
  orthogonal to the lines is orthogonal to the lineality space.  This is not
  inductive inside the double loop, where new rays are added behind `bound`:
  `PairsMade` says that these are, one by one, the combinations of the adjacent pairs
  the loop has come to.
* `Geometry_proof` has the geometry, on sets of constraints and rays without any state.
  `PairsJoined`: the rays that verify the new constraint and the combinations of the
  *neighbours* on either side of it are the rays of the section; all are needed.
  Neighbours saturate enough constraints together, counted with the lines, and no
  third ray is on all of them.  The argument moves a vector until it meets one more
  constraint (`MaximalStep`).  A vector of the section between two rays that are not
  neighbours can always be moved and stay where it was saturated: away from the
  combination with the third ray (`ThirdRayPositive`, `ThirdRayNegative`), or, when the
  constraints are too few, along a direction orthogonal to them, to the lines and to
  the new constraint, which exists because fewer equations than coordinates have a
  solution (`NullVector`, `FewConstraints`).  So a vector with the most constraints
  among those not covered, which exists as sets of constraints are finite, leads to a
  contradiction.  `LineMet`: if a line does not saturate the constraint, the other rows
  are moved along it.
* `AdjacentIs` ties the geometry to the bits.  The search for a third ray is made in
  the saturation rows, up to the end of a word, and counts the positivity constraint,
  which has no bit, in the primal case only: by `BitsExact` it is the search for a
  third ray on the constraints before k.

* `LinesCorrect`: the lines, which by `DescriptionExact` span the lineality space, are
  independent: no combination of them with integer coefficients, of any size, is zero.
  The invariant is `LinesSeparated`: for each line some vector is orthogonal to all the
  others and not to it.  When a line leaves, a vector that separated one of those that
  stay is orthogonal to the one that leaves, and goes on separating it however
  the others are moved along that one (`MovedProduct`); no other step writes a
  coordinate of a line.  `CombinationProduct` reads a coefficient off a combination with
  such a vector.

`Geometry_proof` also has, for every matrix and number of equations:

* `GaussCorrect` says of Gauss4 what `GaussCorrect` of `Algebra` checks on small
  matrices: the equations have the same solutions before and after, on them each
  inequality keeps its sign, and the equations end in reduced echelon form with
  positive pivots that stand in no other row.  Forward elimination keeps
  `Forwarded`, column after column (the rows not yet used are zero in the columns
  done, which makes a pivot the first element of its row), back substitution
  `Backed` (a pivot row that has served is zero in the columns of the pivots that
  have).  The theorem is about the `Gauss` the core uses; the property of the run
  is stated in a module with recursive operators.

`PolyhedronCalls_proof`, for every `Dimension`, `WSIZE`, work space, set of matrices
and number of calls, in any order:

* `Invariance`: the inductive invariant `CallsInv` has one part per phase.  Between
  calls the rays of `Pol` satisfy its constraints (`PolSound`); therefore a call that
  lets Chernikova continue from them starts in `ChernikovaInv`, whose conclusion is
  what Remove_Redundants relies on.  There, `Matched` says that no product is
  negative and that a bit is zero exactly where the product is, through the arrays
  `jx` and `bx`.  Rows and bits move together in steps 1, 2 and 4.  The status words
  only count: that a row is an equality because its count is `NbRay`, and that the
  exchanges of steps 2 and 4 find as many equalities and lines as were counted,
  are facts about cardinalities (`PartOfRange`, `OneAfter`).  Steps 3 and 5 move no
  product across zero because the rays are orthogonal to the equalities and the
  constraints to the lines (`GaussCorrect`).  From step 6 on only status words and
  `Pol` change; each row that is appended satisfies what the rest must.
* `Soundness`: whatever the calls, every ray of the polyhedron returned satisfies
  every constraint of it, with equality when one of the two is a line or an
  equality by its place, and no ray has a negative last coordinate.

`Contracts_proof`, for every `Dimension`, `WSIZE`, work space and set of matrices:

* `ContractsInvariance`, `Contracts`: whatever the calls, as long as no polyhedron
  given to AddRays has an inequality that is on all the rays of another one
  (`AddsToIrreducible`), each call keeps `CallsContract`: the intersection, the
  difference or the hull as promised.  The premise is needed: `four_dimensions` is a
  sequence that violates it, and the contract with it.  With `Dimension` at most 4 it
  is itself an invariant (`SmallInvariance` below).
* The invariant follows one promise (`Promise`: a cone, or a set of valid
  inequalities) through a call.  Chernikova is started on the matrix that asks for it
  (`Asked`) and from rays that describe the cone of the rows that come first
  (`FullDescribes`, `WholeDescribes`), so that by `DescriptionExact` its rays answer.
  From there on constraints and rays are an *exact pair* (`Exact`): each row of
  either side is valid for the other, and a vector that satisfies one side is in the
  cone of the other.  This relation is symmetric (`TightSwapped`), which makes every
  fact about constraints one about rays as well.  It lets Remove_Redundants replace
  rows: by a multiple, by what Gauss4 makes of them (`SignsReplace`), and by fewer.
* What may be left out.  A row that saturates no more than another one that stays
  (`ExactLeftOut`); the argument takes the least counterexample in the number of
  saturated rows.  Step 6 and 7 drop what saturates fewer than `Dim_RaySpace` rows
  without any such comparison: `TooFewCovered` finds the other one, since fewer equations
  than coordinates leave a direction in which a row can be turned until it meets one
  more ray.  That needs the ranks of equalities and lines, which `Reduced` states and
  `GaussCorrect` provides; the counts are cardinalities (`RowCounts`, `RayCounts`).
  IncludePositivity leaves out 1 >= 0 by the same count (`PositivityIncluded`), which
  is right, and adds it by the converse, which is not needed for the contract but for
  the next AddRays.
* When no ray is a vertex the empty polyhedron is returned, in step 0 or as step 3
  finds a rank of `Dimension` (`Barren`).
* `NarrowInvariance`, `Typing`, `Completeness`: under the same premise `Narrow` holds in
  every dimension.  Equalities and lines have the pivots of an echelon form
  (`Pivots`, `RayPivots`).  No equality has its pivot in the last column and lines
  have no last coordinate, and equalities are orthogonal to lines, so together they
  are fewer than the coordinates (`RankSum`): `Dim_RaySpace`, which the code computes
  without a check, is never negative.  That and the exact pair give `TypeOK` and the
  first half of `CompleteAndNonRedundant`, `Complete`.
* `SmallInvariance`, `SmallContracts`, `SmallTyping`, `SmallNonRedundant`,
  `SmallMinimal`: with `Dimension` at most 4 all this holds without any premise, and
  nothing is redundant.  `Dimension` counts the homogenising coordinate: these are
  the polyhedra of up to three variables.  Step 9 keeps inequalities that are pairwise
  parted (`RowsParted`, `ListParted`: a vector saturates one and not the other).
  What could still be redundant is next to the positivity constraint, which step 10
  includes by a count of rays only: an inequality that is on all the rays at
  infinity would be less than it.  `InfinityNotBelow` shows that there is none when the
  count is at most three.  None of the rays at infinity saturates what another one
  does, and up to three such rays are linearly independent, together with the lines
  (`ThreeSeparate`); those are too many for a row besides the last coordinate to
  vanish on (`CrowdedFace`).  Four such rays may be dependent, as those of a square
  cone: that takes five dimensions, and `four_dimensions` (four variables) is the
  example, so that the bound cannot be improved.
* `Filtering` and, without premise, `SmallFiltering`: `FilterSuffices`, for every
  polyhedron SimplifyConstraints is given.  A bit of the filter names a row by its
  place among the rows given, which Remove_Redundants moves, combines and drops;
  `Traced` follows each row to its origin up to the elimination of the equalities.  From
  there on (`SiftedRows`) what is kept is semantic: points that pass the rows with
  bits in the filter saturate the equalities, and satisfy an inequality if
  they satisfy the row with its bit.  A row that is left out is never
  marked, and the points that pass still satisfy it, since they satisfy the final
  constraints, which by the promise of the call are all it takes.  `Sieve` has one
  conjunct per phase.

These theorems assume of the constants that matrices have integer elements, that
the last coordinate of the rays given is not negative (they are points or at
infinity) and zero for lines, that work spaces are natural numbers and that the
points of `Box` are integer vectors.

`Exceptions_proof`, for any number of threads, functions, kinds and entries:

* `TypeCorrect`; `JumpsToLiveCorrect`, by the inductive invariant `FramesOf`: the
  entries of a thread are, in order, those of its activations in their TRY part.
  `ThrowTarget` is its heart: the entry found by `throw_exception` is that of a
  live activation, and all those above it disappear with the entries skipped.
* `NeverMismatchedCorrect`: what UNCATCH pops is the entry of the innermost activation.
* `LostOnlyByResetCorrect`, without an assumption on the threads.  In a program
  whose threads call the library under a CATCH for all exceptions, one is lost only
  while a handler runs and by a CATCH or UNCATCH of another thread, which sets the
  global variable to 0.  `NotFoundIsNone`: the first entry of a thread catches whatever
  is thrown, from a TRY part or from a handler of the library at any depth, so what
  finds no entry is 0.  `AllCaught`: a handler never catches 0, and where there is
  one thread the global variable is what its handler caught; so such a program
  loses none.  An exception of another thread that replaces the one caught is
  delivered to the wrong thread, but not lost.
* `CallbacksBalancedCorrect`: a client's counter is the number of its entries,
  also when one exception skips several (`BalancedThrow`).

`ValueCache_proof`, for any number of threads, arrays, vectors and lengths, any
size of the cache, with and without threads and with allocations that fail:

* `TypeCorrect`, `NoAliasCorrect`, `BlocksExactCorrect`: the conjunction of the
  three is the inductive invariant.  None is inductive alone: that an array taken
  from a cache has no other owner needs that the caches and vectors had distinct
  arrays before, and that it may be written from the recorded length on needs that
  this length was exact.  `OwnersMove` and `OwnersShrink` are the two things a step
  can do to the owners: one array passes (changed by realloc or not) to a vector or
  a cache, or some owners go together with their arrays.
* `FreshIsZeroCorrect`, `ContentsKeptCorrect`: what each step does to Values
  (`StepContents`), in states that satisfy the invariant.
* `NoLeakCorrect`: in the build without threads and without failing allocations
  every block has an owner; each step moves the owner with the block
  (`CoveredMoves`).

The constants are assumed to be what their ASSUMEs say (a positive number of
entries, a mask per function); TLC evaluates these in each run.

Everything else is model-checked only.

* `HandlingEnds` is liveness, which the provers do not treat.
* Without the premise, or a bound on the dimension, `NonRedundant` and
  `CallsContract` are false (`four_dimensions`), so there is nothing to prove of them;
  under the premise alone `NonRedundant` need not hold of the result, and is
  stated for `Dimension` at most 4 only.
* The modules of the upper layers (`Algebra`, `Domains`, `Scanning`, `DomainCalls`,
  `Evalues`, `Lattices`, `Matrices`, `NormalForms`, `SolveDio`, `Compression`,
  `ParamPolyhedra`, `Polyhedra`, `ZPolyhedra`, `ZOperations`) declare or reach
  RECURSIVE operators, for which the proof system has no arithmetic, and hold no
  theorems.  Of their properties `GaussCorrect` is proved in other words, as the theorem
  of that name in `Geometry_proof`.

## Findings

Four are runs that TLC must refute; they have been confirmed on the compiled
library where that was possible.

* `four_dimensions`.  Remove_Redundants adds 1 >= 0 when as many kept rays lie at
  infinity as the ray space has dimensions, but these rays may span fewer.  The
  product of a square pyramid cone and the segment 0 <= w <= 1 keeps a redundant
  1 >= 0, which is the sum of w >= 0 and 1 - w >= 0.  AddRays continues Chernikova
  from these rows.  The invariant of the proof, `Described`, fails there: each row has
  to be the only one on the rays it saturates.  The adjacency test finds 1 >= 0 as a
  third row between the two facets and does not combine them.  The point w = 2 of
  the axis added, 1 - w >= 0 is dropped and 2 - w >= 0 never made: the result is
  unbounded in w, and its rays have one vertex left.  DomainConvex of two such slabs
  goes wrong in the same way.  In dimension 3 and below the count decides
  correctly, since a pointed cone of dimension 2 has no more than two extreme rays.
* `disjoint_domain`.  Disjoint_Domain cuts what is left of a new polyhedron with
  the constraints of the head of its argument, where those of the polyhedron of
  the result are meant (`polyhedron.c:4559` against 4566).  Two polyhedra hide
  it; of three boxes the result has two pieces with common points.
* `exceptions_lost`.  `the_last_just_thrown_exception` is shared by all threads
  and reset by every CATCH and UNCATCH.  A handler then rethrows 0, no entry
  matches, and the program aborts.  `LostOnlyByReset` says that there is no other way.
* `used_after_close`.  After `polylib_close` the key is never created again.  The
  next allocation of a thread fails its assert, or takes an exception stack that
  has got the slot for its cache.  For the same reason the caches of the other
  threads are lost with the key: what they hold is never freed, though
  `polyhedron.c:4891` asks all threads to call `polylib_close`.

Others, met while the code was translated, have no run of their own; the
instances of the passing runs stay outside of them or the property says so.

* Domains.  DomainCost of a domain with a line gives a finite bound along it.
  DomainDifference with a null second domain copies only the first polyhedron;
  DomainSimplify with a null one returns its argument itself, not a copy.
  DomainAddConstraints may return null where the others return an empty
  polyhedron, DomainAddConstraints and DomainAddRays compare a new polyhedron
  only with earlier ones and Disjoint_Domain appends without comparing, hence
  the exceptions in `ListsStayMinimal`.
* SolveDiophantine.  Rows that depend on earlier ones are moved in the matrix but
  not in its Hermite form, so some solvable systems of four equations are refused
  (`SolveDio.c:262`); the scan of the diagonal reads behind the row of a matrix
  with one column.
* Vector_Sort of an odd number of Values reads one behind them.  Vector_Realloc
  sets the new length before the loop that clears from the old one
  (`vector.c:173`), so nothing is cleared and a longer, reused array shows old Values;
  `FreshIsZero` is about new vectors.
* Evalues.  new_eadd loses the sum of two periodic numbers of different lengths
  (`ext_ehrhart.c:473`); eadd leaves its second argument as it is when the two do
  not match; `EvaluesCorrect` says which sums are meant.  dehomogenize_periodic
  takes element 1 of any period.
* Compression.  Constraints_Remove_parm_eqs tests row `i` of the context where row
  `j` is meant, and discards what realloc returns; Equalities_integerSolution
  assigns NULL to its parameter instead of through it (`compress_parms.c:176`, 223).
* Param_Polyhedron_Scale_Integer divides by zero in the build with GMP, whose
  lcm(0, x) is 0 (`polyparam.c:1894`).
* FindSimple returns without freeing when realloc fails; value_alloc has dropped
  the array from the cache by then, clears it through the null pointer and loses
  it (`vector.c:868`).  Hence the premise of `NoLeak` on memory.
* Z-polyhedra.
  - LBLPreimage by an invertible function loses the pieces whose lattice is not
    square: the product with the inverse has the wrong size (`Zpolyhedron.c:1318`).
  - LBLIncluded stops its search at the first piece of the difference that has an
    integer point, and isEmptyLBL at the first piece without domain, so an earlier
    empty piece decides (`Zpolyhedron.c:328`).  `LBLsCorrect` asks for the right
    answer only where the difference has one piece.
  - Domain_Remove_Integer_Empty takes a nonempty dark source, one dimension after
    the other, as proof of an integer point; y >= 5x - 3, x >= 5y - 3, x + y >= 1
    has none.  Into an unbounded polyhedron it adds `x1 >= solution`, which may
    lose points (`Zpolyhedron.c:2815`, 2870).
  - The rays added to a point that is not a hole are copies of the first ray,
    where the ray at hand is meant (`Zpolyhedron.c:2405`).
  - LBL2ZDomain takes a null second operand for "no holes" (`Zpolyhedron.c:2289`,
    2439), but DomainDifference then copies the first polyhedron only;
    bound_polyhedron turns an unbounded projection into an empty one.
  - LatticeIntersection reads behind a row when the Hermite form has no zero column;
    LBLContainsPoint dereferences the null domain of an empty piece.
  - LBLDisjointUnion, read but not modelled: the canonical form at its end may
    merge pieces with existential coordinates into ones that share points, as
    with {2a + 3b} and {x : 1 <= 3x - 5y <= 2}, where -1 is in two.

## How faithful it is

The model of the core was compared with the compiled 64-bit library: the results
of 26976 calls in the plane and 11125 calls in space, taken from the states of
instances like `calls` and `space`, equal those of the library row for row, in the
same order and with the same coefficients.  The operators of the upper layers
were compared with the library on random arguments, function by function.

Abstracted: Values are unbounded integers (the GMP build); in the polyhedron
modules every allocation succeeds; the flags of a polyhedron are left out, as all
functions modelled set the same ones; messages, debugging output and the names
that exceptions print are left out.  The status word of a freshly combined ray,
which the code leaves uninitialised, is 0 in the model; it is overwritten before
it is read.

## Not modelled

* The POL_NO_DUAL paths (SortConstraints, ImplicitEqualities,
  Polyhedron_Compute_Dual), the frees in exception handlers and the locals that
  are not `volatile` there (undefined after longjmp).
* Of Z-polyhedra, LBLSimplify with the alignment of lattices it needs, and
  LBLDisjointUnion: both split every piece against every other one by the
  operations that are modelled, and one call on two small unions takes hundreds of
  these.  Printing and reading of them.
* The counting of Ehrhart polynomials itself (Polyhedron_Enumerate): it solves
  linear systems over the counts of enumerated polyhedra, which on the smallest
  instances of interest is out of TLC's reach; its arithmetic is in `Evalues`.
* Fixed-width arithmetic: one build option of three, with Values that overflow
  silently in some places; the modules are of the unbounded one.
* The orders of polyhedra in `alpha.c`, factors, ranking, most permutations
  of matrices, `int_mod_basis`, printing and reading.
* The programs, the Python binding and the tests.

## Plan

1. Done: the core, the services, domains, normal forms, lattices, compression,
   evalues, parameterised vertices, Z-polyhedra.
2. LBLSimplify and LBLDisjointUnion, on pieces without existential coordinates first.
3. POL_NO_DUAL and Polyhedron_Compute_Dual: a polyhedron built late implements one
   built at once.
4. Fixed-width arithmetic: checked products and unchecked sums modulo 2^w, against
   the rule that an overflow is thrown, never silent.
5. Theorems: the steps of `Regions` that need no geometry; the functions of the upper
   layers whose recursion can be written as functions (Hermite form, SolveDiophantine).
