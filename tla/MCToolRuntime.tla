---------------------------- MODULE MCToolRuntime ----------------------------
(* Two department threads.                                                 *)
EXTENDS ToolRuntime, TLC

CONSTANTS w1, w2

\* The threads are alike, and only invariants are checked.
ThreadSymmetry == Permutations({w1, w2})
=============================================================================
