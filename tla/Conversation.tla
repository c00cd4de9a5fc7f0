---------------------------- MODULE Conversation ----------------------------
(***************************************************************************)
(* What a user of one thread sees: prompts are taken one at a time, each   *)
(* is answered at most once before the next one is taken, and the history  *)
(* only grows.  A turn that fails leaves its prompt without an answer.     *)
(***************************************************************************)
EXTENDS Sequences

VARIABLES
    log,    \* "human" and "ai", in order
    open    \* a prompt is being worked on

cvars == <<log, open>>

Init == log = <<>> /\ open = FALSE

Ask    == ~open /\ log' = Append(log, "human") /\ open' = TRUE
Answer == open /\ log' = Append(log, "ai") /\ open' = FALSE
Drop   == open /\ open' = FALSE /\ UNCHANGED log

Next == Ask \/ Answer \/ Drop

Spec == Init /\ [][Next]_cvars
=============================================================================
