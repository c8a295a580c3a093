--------------------------- MODULE MCRunExecution ----------------------------
(* Model values for TLC.                                                   *)
EXTENDS RunExecution

CONSTANTS p1
=============================================================================
