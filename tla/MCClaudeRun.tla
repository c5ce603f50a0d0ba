---------------------------- MODULE MCClaudeRun ----------------------------
(* Instances of ClaudeRun for TLC. *)
EXTENDS ClaudeRun, TLC

CONSTANTS p1, q1
=============================================================================
