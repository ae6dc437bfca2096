------------------------ MODULE MCDeterminacyChecker ------------------------
(* Instances of DeterminacyChecker for TLC.                                *)
EXTENDS DeterminacyChecker, TLC

CONSTANTS t1, t2, t3, x

ThreeTasks == {t1, t2, t3}
Symmetry3  == Permutations(ThreeTasks)

OneAddress == {x}

\* Writes of line 2 commute with each other; writes of the lines 1 and 2 are
\* taken to commute in one order only, as the CommutativityChecker may do.
Line2Commutes == {<<2, 2>>, <<1, 2>>}
=============================================================================
