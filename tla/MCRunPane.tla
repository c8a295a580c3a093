------------------------------ MODULE MCRunPane ------------------------------
(* The run pane on a small page: a linked run and one launch.               *)
EXTENDS RunPane
=============================================================================
