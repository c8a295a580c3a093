--------------------------- MODULE MCRunRetention ----------------------------
(* Model values for TLC.                                                   *)
EXTENDS RunRetention, TLC

CONSTANTS r1, r2, r3, r4

MCRuns == {r1, r2, r3, r4}
RunSymmetry == Permutations(MCRuns)
=============================================================================
