-------------------------- MODULE MCDeepAgentGraph --------------------------
(* One specialist, the catch-all department, two prompts.                  *)
EXTENDS DeepAgentGraph

CONSTANTS research, general
=============================================================================
