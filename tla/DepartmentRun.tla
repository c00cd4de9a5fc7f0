---------------------------- MODULE DepartmentRun ----------------------------
(***************************************************************************)
(* What SubAgentEngine assumes of the thread that runs one local           *)
(* department: it may pay for one call of the tool sorter, which is in no  *)
(* usage; then it spends tokens one model reply at a time, records write   *)
(* operations only after a reply asked for them, never takes anything back,*)
(* and ends once, by returning all of it or by raising.                    *)
(***************************************************************************)
EXTENDS Naturals

VARIABLES
    status,    \* "busy", "returned", "raised"
    paid,      \* model replies paid for (SubAgentEngine!paid)
    spent,     \* those in the usage returned (SubAgentEngine!calls)
    recorded   \* write operations so far (Len of SubAgentEngine!ops)

dvars == <<status, paid, spent, recorded>>

Init == status = "busy" /\ paid = 0 /\ spent = 0 /\ recorded = 0

Sort ==
    /\ status = "busy" /\ paid = 0 /\ paid' = 1
    /\ UNCHANGED <<status, spent, recorded>>

Spend ==
    /\ status = "busy" /\ paid' = paid + 1 /\ spent' = spent + 1
    /\ status' \in {"busy", "returned"}   \* the last reply is the answer
    /\ UNCHANGED recorded

Write ==
    /\ status = "busy" /\ spent > 0
    /\ recorded' = recorded + 1
    /\ UNCHANGED <<status, paid, spent>>

End ==
    /\ status = "busy" /\ status' \in {"returned", "raised"}
    /\ UNCHANGED <<paid, spent, recorded>>

Next == Sort \/ Spend \/ Write \/ End

Spec == Init /\ [][Next]_dvars
=============================================================================
