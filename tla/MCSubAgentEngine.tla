-------------------------- MODULE MCSubAgentEngine --------------------------
(* Small departments rosters for SubAgentEngine.                           *)
EXTENDS SubAgentEngine

CONSTANTS d1, d2, s1, s2
=============================================================================
