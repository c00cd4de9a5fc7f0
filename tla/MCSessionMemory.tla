--------------------------- MODULE MCSessionMemory ---------------------------
(* Windows of one to four messages, two tool calls.                      *)
EXTENDS SessionMemory

CONSTANTS c1, c2

MCLimits == (1..4) \X {0, 2, 8}
=============================================================================
