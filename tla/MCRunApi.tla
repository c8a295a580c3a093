------------------------------- MODULE MCRunApi -------------------------------
(* Model values for TLC.                                                   *)
EXTENDS RunApi, TLC

CONSTANTS k1, k2, b1, b2, c1, c2

\* Keys, bodies and clients are interchangeable, and every property is an invariant.
MCSymmetry == Permutations({k1, k2}) \cup Permutations({b1, b2}) \cup Permutations({c1, c2})
=============================================================================
