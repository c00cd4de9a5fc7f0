--------------------------- MODULE FanoutContract ---------------------------
(***************************************************************************)
(* What the graph is promised by the subagent_fanout node, without threads,*)
(* batches or deadlines: the node undertakes a set of departments, each of *)
(* them gets exactly one outcome that never changes, and the node hands    *)
(* over the outcomes of all of them together, or none.                     *)
(***************************************************************************)
EXTENDS FiniteSets

CONSTANT Dept

Outcome == {"answered", "error", "timeout"}

VARIABLES
    status,     \* "open", "running", "closed" (handed over), "aborted"
    asked,      \* the departments the node undertook
    outcome,    \* [Dept -> Outcome \cup {"none"}]
    delivered   \* the departments whose outcome reached the parent

cvars == <<status, asked, outcome, delivered>>

Init ==
    /\ status = "open"
    /\ asked = {}
    /\ outcome = [d \in Dept |-> "none"]
    /\ delivered = {}

\* No requested department exists: an empty result.
Decline ==
    /\ status = "open"
    /\ status' = "closed"
    /\ UNCHANGED <<asked, outcome, delivered>>

Undertake ==
    /\ status = "open"
    /\ status' = "running"
    /\ asked' \in (SUBSET Dept) \ {{}}
    /\ UNCHANGED <<outcome, delivered>>

Report(d) ==
    /\ status = "running" /\ d \in asked /\ outcome[d] = "none"
    /\ \E o \in Outcome : outcome' = [outcome EXCEPT ![d] = o]
    /\ UNCHANGED <<status, asked, delivered>>

Close ==
    /\ status = "running" /\ \A d \in asked : outcome[d] \in Outcome
    /\ status' = "closed"
    /\ delivered' = asked
    /\ UNCHANGED <<asked, outcome>>

\* The node raised after its departments were done: the turn gets nothing.
Abort ==
    /\ status = "running" /\ \A d \in asked : outcome[d] \in Outcome
    /\ status' = "aborted"
    /\ UNCHANGED <<asked, outcome, delivered>>

Next == Decline \/ Undertake \/ Close \/ Abort \/ \E d \in Dept : Report(d)

Spec == Init /\ [][Next]_cvars
=============================================================================
