------------------------------ MODULE MCToolLoop ------------------------------
(* One file tool, one tool that may raise, one name that is not bound.     *)
EXTENDS ToolLoop

CONSTANTS write_file, fetch_url, ghost
=============================================================================
