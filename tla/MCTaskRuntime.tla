--------------------------- MODULE MCTaskRuntime ---------------------------
(* Instances of TaskRuntime for TLC.                                       *)
EXTENDS TaskRuntime, TLC

CONSTANTS i, r, s, q, a, b, c, x, y, m, h1, h2, h3, h4, h5

\* i runs main; r, or r and s, run a parallel region, q runs a second one; a, b
\* and c are explicit tasks.
Main       == {i}
Region     == {r}
OneRegion  == << {r} >>
TwoRegions == << {r, s}, {q} >>
ThreeTasks == {r, a, b}
FourTasks  == {r, a, b, c}
SevenTasks == {i, r, s, q, a, b, c}
LastTask   == {c}
MainAndExplicit == {i, a, b, c}

Symmetry3 == Permutations({a, b})
SymmetryTeam == Permutations({a, b}) \cup Permutations({r, s})
SymmetryDeps4 == Permutations({a, b, c}) \cup Permutations({x, y})

\* Addresses that the allocator gives out again and again.
Heap4 == {h1, h2, h3, h4}
Heap5 == Heap4 \cup {h5}
SymmetryHeap3 == Permutations({a, b}) \cup Permutations(Heap4)
SymmetryHeap4 == Permutations({a, b, c}) \cup Permutations(Heap5)

\* IDs, and addresses without reuse.
IDs(n) == 0 .. n - 1
SixIDs   == IDs(6)
SevenIDs == IDs(7)
NineIDs  == IDs(9)

InOut    == {"in", "inout"}
AllTypes == {"in", "out", "inout"}
=============================================================================
