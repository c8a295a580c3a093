----------------------------- MODULE MCPruneRuns -----------------------------
(* Model values for TLC.                                                   *)
EXTENDS PruneRuns

CONSTANTS r1, r2, r3, r4, o1, o2
=============================================================================
