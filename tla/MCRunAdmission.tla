--------------------------- MODULE MCRunAdmission ----------------------------
(* Model values for TLC: four requests compete for two units of capacity.  *)
EXTENDS RunAdmission

CONSTANTS r1, r2, r3, r4

MCRuns == {r1, r2, r3, r4}
=============================================================================
