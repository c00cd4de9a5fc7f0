--------------------------- MODULE SubAgentEngine ---------------------------
(***************************************************************************)
(* One run of the subagent_fanout node: graph._subagent_fanout_node drives *)
(* SubAgentEngine.invoke_parallel under asyncio.run, each department runs  *)
(* on a worker thread of the event loop's default executor, and the node   *)
(* folds what the departments returned into the parent's channels.         *)
(*                                                                         *)
(* Three kinds of actor interleave: the event loop (batching, deadlines,   *)
(* delivery of results), the worker threads (model calls, write tools) and *)
(* another thread that rebinds SUBAGENTS through refresh_subagents().      *)
(*                                                                         *)
(* A deadline ends the department's asyncio task, not its thread.  A       *)
(* thread that was already running goes on working after its department    *)
(* has been reported as timed out; it is called abandoned below.           *)
(***************************************************************************)
EXTENDS Naturals, Sequences, FiniteSets, Functions, SequencesExt

CONSTANTS
    Dept,         \* department names the router may have targeted
    Remote,       \* those whose spec has kind "a2a"
    Serial,       \* those whose SKILL.md says `parallelizable: false`
    Choosy,       \* those whose allowlist resolves to more tools than
                  \* MAX_SHORTLISTED_TOOLS: a model call narrows it first
    MaxParallel,  \* get_max_parallel_tasks()
    Slots,        \* worker threads of the default executor
    MaxCalls,     \* bound: model calls one department makes
    MaxOps,       \* bound: write operations one department records
    MaxRefresh    \* bound: registry refreshes during one fanout

ASSUME EngineAssumption ==
    /\ IsFiniteSet(Dept)
    /\ Remote \subseteq Dept
    /\ Serial \subseteq Dept \ Remote   \* _a2a_specs sets parallelizable=True
    /\ Choosy \subseteq Dept \ Remote
    /\ MaxParallel \in Nat \ {0}        \* max(1, MAX_PARALLEL_TASKS)
    /\ Slots \in Nat \ {0}
    /\ MaxCalls \in Nat
    /\ MaxOps \in Nat
    /\ MaxRefresh \in Nat

\* What became of one recorded write_file / edit_file call: the file was
\* changed; the tool refused or failed; its `path` argument is not a string
\* (the schema refuses it, but the recorded args keep it).
OpKind == {"performed", "refused", "malformed"}

\* Life of a department's asyncio task and of its thread-pool work item.
TaskState == {"none", "launched", "waiting", "answered", "error", "timeout"}
Resolved  == {"answered", "error", "timeout"}
WorkState == {"none", "queued", "busy", "returned", "raised", "cancelled"}

PC == {"bind", "split", "dispatch", "gather", "drain", "fold",
       "returned", "failed"}

\* Tokens the router's own call had already put in token_usage.
RouterTokens == 1

VARIABLES
    registered,        \* keys of the live SUBAGENTS dict
    refreshes,         \* refreshes so far
    department_targets,
    pc,                \* where the fanout node is
    known,             \* keys of the SUBAGENTS dict the node bound on entry
    todo,              \* targets not yet put in a group
    parallel, serial,  \* departments still to be batched, per group
    batch,             \* departments of the batch under gather
    expired,           \* the batch's deadline has passed
    task,              \* [Dept -> TaskState]
    results,           \* keys of the merged dict, in insertion order
    worker,            \* [Dept -> WorkState]
    pool,              \* FIFO work queue of the executor
    calls,             \* [Dept -> Nat] model calls in the usage its thread returns
    paid,              \* [Dept -> Nat] model calls its thread has paid for
    ops,               \* [Dept -> Seq(OpKind)] its write_ops list
    subagent_results, token_usage, pending_writes, audit_log   \* channels

registry == <<registered, refreshes>>
groups   == <<known, todo, parallel, serial>>
threads  == <<worker, pool, calls, paid, ops>>
channels == <<subagent_results, token_usage, pending_writes, audit_log>>
vars == <<registry, department_targets, pc, groups, batch, expired, task,
          results, threads, channels>>

-----------------------------------------------------------------------------
(* Operators                                                               *)

Min2(a, b) == IF a <= b THEN a ELSE b

\* subagents.is_parallelizable: an unknown name is not parallelizable.
IsParallelizable(d) == d \in registered /\ d \notin Serial

InFlight == {d \in Dept : task[d] \in {"launched", "waiting"}}
Busy == {d \in Dept : worker[d] = "busy"}

\* Departments whose SubagentRun carries usage and writes: only a local one
\* that answered.  Error and timeout runs take the dataclass defaults, and a
\* remote one reports neither.
Counted == {d \in Range(results) : task[d] = "answered" /\ d \notin Remote}

RunWrites(d) ==
    IF d \in Counted THEN [i \in DOMAIN ops[d] |-> <<d, ops[d][i]>>] ELSE <<>>

ChildTokens == SumFunctionOnSet(calls, Counted)
ChildWrites == FlattenSeq([i \in DOMAIN results |-> RunWrites(results[i])])

\* The orchestrator names each department once (_validate_departments).
Targets == UNION {Injection(1..n, Dept) : n \in 1..Cardinality(Dept)}

-----------------------------------------------------------------------------
Init ==
    /\ registered \in SUBSET Dept
    /\ refreshes = 0
    /\ department_targets \in Targets
    /\ pc = "bind"
    /\ known = {}
    /\ todo = <<>> /\ parallel = <<>> /\ serial = <<>>
    /\ batch = <<>>
    /\ expired = FALSE
    /\ task = [d \in Dept |-> "none"]
    /\ results = <<>>
    /\ worker = [d \in Dept |-> "none"]
    /\ pool = <<>>
    /\ calls = [d \in Dept |-> 0] /\ paid = [d \in Dept |-> 0]
    /\ ops = [d \in Dept |-> <<>>]
    /\ subagent_results = <<>>
    /\ token_usage = RouterTokens
    /\ pending_writes = <<>>
    /\ audit_log = <<>>

-----------------------------------------------------------------------------
(* The event loop and the node that owns it                                *)

\* The node imports SUBAGENTS: it keeps the dict bound at that moment even
\* if a refresh rebinds the name later.
Bind ==
    /\ pc = "bind"
    /\ known' = registered
    /\ todo' = department_targets
    /\ pc' = "split"
    /\ UNCHANGED <<registry, department_targets, parallel, serial, batch,
                   expired, task, results, threads, channels>>

\* A name missing from the bound dict is dropped from the fanout.
DropUnresolved ==
    /\ pc = "split" /\ todo # <<>> /\ Head(todo) \notin known
    /\ todo' = Tail(todo)
    /\ UNCHANGED <<registry, department_targets, pc, known, parallel, serial,
                   batch, expired, task, results, threads, channels>>

\* is_parallelizable reads the live dict, one name at a time.
ToParallel ==
    /\ pc = "split" /\ todo # <<>> /\ Head(todo) \in known
    /\ IsParallelizable(Head(todo))
    /\ parallel' = Append(parallel, Head(todo))
    /\ todo' = Tail(todo)
    /\ UNCHANGED <<registry, department_targets, pc, known, serial, batch,
                   expired, task, results, threads, channels>>

ToSerial ==
    /\ pc = "split" /\ todo # <<>> /\ Head(todo) \in known
    /\ ~IsParallelizable(Head(todo))
    /\ serial' = Append(serial, Head(todo))
    /\ todo' = Tail(todo)
    /\ UNCHANGED <<registry, department_targets, pc, known, parallel, batch,
                   expired, task, results, threads, channels>>

\* Nothing resolved: the node returns an empty result and no other update.
NoneResolved ==
    /\ pc = "split" /\ todo = <<>> /\ parallel = <<>> /\ serial = <<>>
    /\ subagent_results' = <<>>
    /\ pc' = "returned"
    /\ UNCHANGED <<registry, department_targets, groups, batch, expired, task,
                   results, threads, token_usage, pending_writes, audit_log>>

StartDispatch ==
    /\ pc = "split" /\ todo = <<>> /\ (parallel # <<>> \/ serial # <<>>)
    /\ pc' = "dispatch"
    /\ UNCHANGED <<registry, department_targets, groups, batch, expired, task,
                   results, threads, channels>>

\* Mutated form of Launch: the whole group under one gather.
LaunchWhole(group) ==
    /\ batch' = group
    /\ task' = [d \in Dept |->
                  IF d \in Range(batch') THEN "launched" ELSE task[d]]
    /\ expired' = FALSE
    /\ pc' = "gather"

\* The next max_parallel departments of a group go under one gather.
Launch(group) ==
    /\ batch' = SubSeq(group, 1, Min2(MaxParallel, Len(group)))
    /\ task' = [d \in Dept |->
                  IF d \in Range(batch') THEN "launched" ELSE task[d]]
    /\ expired' = FALSE
    /\ pc' = "gather"

\* Mutated form of AfterBatch: departments beyond the first batch are dropped.
AfterBatchDropped(group) == <<>>

AfterBatch(group) == SubSeq(group, Min2(MaxParallel, Len(group)) + 1, Len(group))

LaunchParallel ==
    /\ pc = "dispatch" /\ parallel # <<>>
    /\ Launch(parallel)
    /\ parallel' = AfterBatch(parallel)
    /\ UNCHANGED <<registry, department_targets, known, todo, serial, results,
                   threads, channels>>

\* Mutated form of LaunchSerial: the groups are not ordered.
LaunchSerialEager ==
    /\ pc = "dispatch" /\ serial # <<>>
    /\ Launch(serial)
    /\ serial' = AfterBatch(serial)
    /\ UNCHANGED <<registry, department_targets, known, todo, parallel,
                   results, threads, channels>>

\* The serial group is only reached once the parallel one is exhausted.
LaunchSerial ==
    /\ pc = "dispatch" /\ parallel = <<>> /\ serial # <<>>
    /\ Launch(serial)
    /\ serial' = AfterBatch(serial)
    /\ UNCHANGED <<registry, department_targets, known, todo, parallel,
                   results, threads, channels>>

\* _run_subagent_loop looks the name up again, in the live dict, and hands
\* the department to the executor.
Submit(d) ==
    /\ pc = "gather" /\ task[d] = "launched" /\ d \in registered
    /\ task' = [task EXCEPT ![d] = "waiting"]
    /\ worker' = [worker EXCEPT ![d] = "queued"]
    /\ pool' = Append(pool, d)
    /\ UNCHANGED <<registry, department_targets, pc, groups, batch, expired,
                   results, calls, paid, ops, channels>>

\* Gone since the split: an "unknown department" error, no thread.
SubmitUnknown(d) ==
    /\ pc = "gather" /\ task[d] = "launched" /\ d \notin registered
    /\ task' = [task EXCEPT ![d] = "error"]
    /\ UNCHANGED <<registry, department_targets, pc, groups, batch, expired,
                   results, threads, channels>>

\* Mutated forms of Deliver: before the thread is done, after the deadline.
DeliverEarly(d) ==
    /\ pc = "gather" /\ task[d] = "waiting" /\ worker[d] \notin {"none", "queued"}
    /\ task' = [task EXCEPT ![d] = IF worker[d] # "raised"
                                   THEN "answered" ELSE "error"]
    /\ UNCHANGED <<registry, department_targets, pc, groups, batch, expired,
                   results, threads, channels>>

DeliverLate(d) ==
    /\ pc = "gather" /\ task[d] \in {"waiting", "timeout"}
    /\ worker[d] \in {"returned", "raised"}
    /\ task' = [task EXCEPT ![d] = IF worker[d] = "returned"
                                   THEN "answered" ELSE "error"]
    /\ UNCHANGED <<registry, department_targets, pc, groups, batch, expired,
                   results, threads, channels>>

\* The awaiting task resumes with what the thread returned or raised.
Deliver(d) ==
    /\ pc = "gather" /\ task[d] = "waiting"
    /\ worker[d] \in {"returned", "raised"}
    /\ task' = [task EXCEPT ![d] = IF worker[d] = "returned"
                                   THEN "answered" ELSE "error"]
    /\ UNCHANGED <<registry, department_targets, pc, groups, batch, expired,
                   results, threads, channels>>

\* The timers of one batch are armed together, when its tasks first run.
Expire ==
    /\ pc = "gather" /\ ~expired
    /\ \A d \in Dept : task[d] # "launched"
    /\ expired' = TRUE
    /\ UNCHANGED <<registry, department_targets, pc, groups, batch, task,
                   results, threads, channels>>

\* Mutated forms of Timeout: the work item survives its task; only a task
\* whose thread has not started is given up.
TimeoutLeavesQueued(d) ==
    /\ pc = "gather" /\ expired /\ task[d] = "waiting"
    /\ task' = [task EXCEPT ![d] = "timeout"]
    /\ UNCHANGED <<registry, department_targets, pc, groups, batch, expired,
                   results, threads, channels>>

TimeoutQueuedOnly(d) ==
    /\ pc = "gather" /\ expired /\ worker[d] = "queued"
    /\ task' = [task EXCEPT ![d] = "timeout"]
    /\ worker' = [worker EXCEPT ![d] = "cancelled"]
    /\ UNCHANGED <<registry, department_targets, pc, groups, batch, expired,
                   results, pool, calls, paid, ops, channels>>

\* wait_for cancels the task.  A queued work item is cancelled with it and
\* stays in the pool as a dead entry; a running thread cannot be stopped.
Timeout(d) ==
    /\ pc = "gather" /\ expired /\ task[d] = "waiting"
    /\ task' = [task EXCEPT ![d] = "timeout"]
    /\ worker' = [worker EXCEPT ![d] = IF @ = "queued" THEN "cancelled" ELSE @]
    /\ UNCHANGED <<registry, department_targets, pc, groups, batch, expired,
                   results, pool, calls, paid, ops, channels>>

\* Mutated form of EndBatch: results merged in any order of completion.
EndBatchAsCompleted ==
    /\ pc = "gather"
    /\ \A d \in Range(batch) : task[d] \in Resolved
    /\ \E order \in Injection(DOMAIN (results \o batch), Range(results \o batch)) :
          results' = order
    /\ pc' = IF parallel = <<>> /\ serial = <<>> THEN "drain" ELSE "dispatch"
    /\ UNCHANGED <<registry, department_targets, groups, batch, expired, task,
                   threads, channels>>

\* gather returns when every task of the batch has resolved, in batch order.
EndBatch ==
    /\ pc = "gather"
    /\ \A d \in Range(batch) : task[d] \in Resolved
    /\ results' = results \o batch
    /\ pc' = IF parallel = <<>> /\ serial = <<>> THEN "drain" ELSE "dispatch"
    /\ UNCHANGED <<registry, department_targets, groups, batch, expired, task,
                   threads, channels>>

\* asyncio.run joins the executor's threads before it hands the result back,
\* for at most 300 seconds.
Drain ==
    /\ pc = "drain" /\ Busy = {}
    /\ pc' = "fold"
    /\ UNCHANGED <<registry, department_targets, groups, batch, expired, task,
                   results, threads, channels>>

DrainTimeout ==
    /\ pc = "drain" /\ Busy # {}
    /\ pc' = "fold"
    /\ UNCHANGED <<registry, department_targets, groups, batch, expired, task,
                   results, threads, channels>>

\* The node's update: results, token_usage, pending_writes, audit_log.
Fold ==
    /\ pc = "fold"
    /\ \A i \in DOMAIN ChildWrites : ChildWrites[i][2] # "malformed"
    /\ subagent_results' = [i \in DOMAIN results |->
                              <<results[i], task[results[i]]>>]
    /\ token_usage' = token_usage + ChildTokens
    /\ pending_writes' = pending_writes \o ChildWrites
    /\ audit_log' = IF ChildWrites = <<>> THEN audit_log
                    ELSE Append(audit_log, ChildWrites)
    /\ pc' = "returned"
    /\ UNCHANGED <<registry, department_targets, groups, batch, expired, task,
                   results, threads>>

\* The audit entry joins the recorded paths into one string: a path that is
\* not a string raises TypeError, and the node's whole update is lost.
FoldRaises ==
    /\ pc = "fold"
    /\ \E i \in DOMAIN ChildWrites : ChildWrites[i][2] = "malformed"
    /\ pc' = "failed"
    /\ UNCHANGED <<registry, department_targets, groups, batch, expired, task,
                   results, threads, channels>>

Loop ==
    \/ Bind \/ DropUnresolved \/ ToParallel \/ ToSerial \/ NoneResolved
    \/ StartDispatch \/ LaunchParallel \/ LaunchSerial
    \/ Expire \/ EndBatch \/ Drain \/ DrainTimeout \/ Fold \/ FoldRaises
    \/ \E d \in Dept : Submit(d) \/ SubmitUnknown(d) \/ Deliver(d) \/ Timeout(d)

-----------------------------------------------------------------------------
(* Worker threads: run_department and call_a2a_agent seen from outside     *)

\* A free thread takes the oldest work item.
Pick ==
    /\ pool # <<>> /\ worker[Head(pool)] = "queued"
    /\ Cardinality(Busy) < Slots
    /\ worker' = [worker EXCEPT ![Head(pool)] = "busy"]
    /\ pool' = Tail(pool)
    /\ UNCHANGED <<registry, department_targets, pc, groups, batch, expired,
                   task, results, calls, paid, ops, channels>>

\* ... and drops it when it was cancelled while it waited.
SkipCancelled ==
    /\ pool # <<>> /\ worker[Head(pool)] = "cancelled"
    /\ Cardinality(Busy) < Slots
    /\ pool' = Tail(pool)
    /\ UNCHANGED <<registry, department_targets, pc, groups, batch, expired,
                   task, results, worker, calls, paid, ops, channels>>

\* The thread first selects its tools: the sorter asks the model which of
\* them suit the query.  No caller of sort_tools sees that reply's usage.  The
\* step is skipped when the sorter cannot be reached.
Sort(d) ==
    /\ worker[d] = "busy" /\ d \in Choosy /\ paid[d] = 0
    /\ paid' = [paid EXCEPT ![d] = 1]
    /\ UNCHANGED <<registry, department_targets, pc, groups, batch, expired,
                   task, results, worker, pool, calls, ops, channels>>

\* One model call of a local department's tool loop.
Spend(d) ==
    /\ worker[d] = "busy" /\ d \notin Remote /\ calls[d] < MaxCalls
    /\ calls' = [calls EXCEPT ![d] = @ + 1]
    /\ paid' = [paid EXCEPT ![d] = @ + 1]
    /\ UNCHANGED <<registry, department_targets, pc, groups, batch, expired,
                   task, results, worker, pool, ops, channels>>

\* One write_file / edit_file call a model reply asked for: it is recorded
\* whatever becomes of it.
Write(d, k) ==
    /\ worker[d] = "busy" /\ d \notin Remote
    /\ calls[d] > 0 /\ Len(ops[d]) < MaxOps
    /\ ops' = [ops EXCEPT ![d] = Append(@, k)]
    /\ UNCHANGED <<registry, department_targets, pc, groups, batch, expired,
                   task, results, worker, pool, calls, paid, channels>>

\* With AGENT_MAX_ITERATIONS <= 0 the loop returns without any model call.
WorkerReturns(d) ==
    /\ worker[d] = "busy"
    /\ worker' = [worker EXCEPT ![d] = "returned"]
    /\ UNCHANGED <<registry, department_targets, pc, groups, batch, expired,
                   task, results, pool, calls, paid, ops, channels>>

WorkerRaises(d) ==
    /\ worker[d] = "busy"
    /\ worker' = [worker EXCEPT ![d] = "raised"]
    /\ UNCHANGED <<registry, department_targets, pc, groups, batch, expired,
                   task, results, pool, calls, paid, ops, channels>>

Threads ==
    \/ Pick \/ SkipCancelled
    \/ \E d \in Dept : \/ Sort(d) \/ Spend(d) \/ WorkerReturns(d) \/ WorkerRaises(d)
                       \/ \E k \in OpKind : Write(d, k)

-----------------------------------------------------------------------------
\* refresh_subagents() from another thread: skills/ may have lost or gained
\* departments.
Refresh ==
    /\ refreshes < MaxRefresh
    /\ pc \notin {"returned", "failed"}
    /\ \E S \in SUBSET Dept : S # registered /\ registered' = S
    /\ refreshes' = refreshes + 1
    /\ UNCHANGED <<department_targets, pc, groups, batch, expired, task,
                   results, threads, channels>>

\* The node is done; nothing else has to happen.
Done == pc \in {"returned", "failed"} /\ UNCHANGED vars

Next == Loop \/ Threads \/ Refresh \/ Done

\* The event loop is never blocked (departments run on threads) and its
\* timers fire; nothing is assumed of the threads, which may hang.
Spec == Init /\ [][Next]_vars /\ WF_vars(Loop)
-----------------------------------------------------------------------------
(* Properties                                                              *)

\* Every variable keeps its type.
TypeOK ==
    /\ registered \subseteq Dept /\ refreshes \in Nat
    /\ department_targets \in Seq(Dept)
    /\ pc \in PC
    /\ known \subseteq Dept
    /\ todo \in Seq(Dept) /\ parallel \in Seq(Dept) /\ serial \in Seq(Dept)
    /\ batch \in Seq(Dept) /\ expired \in BOOLEAN
    /\ task \in [Dept -> TaskState]
    /\ results \in Seq(Dept)
    /\ worker \in [Dept -> WorkState] /\ pool \in Seq(Dept)
    /\ calls \in [Dept -> Nat] /\ paid \in [Dept -> Nat]
    /\ ops \in [Dept -> Seq(OpKind)]
    /\ subagent_results \in Seq(Dept \X Resolved)
    /\ token_usage \in Nat
    /\ pending_writes \in Seq(Dept \X OpKind)
    /\ audit_log \in Seq(Seq(Dept \X OpKind))

\* Never more than max_parallel departments are awaited at a time, across
\* batches and across the two groups.
InFlightCap == Cardinality(InFlight) <= MaxParallel

\* A department of the serial group is launched only when every other
\* requested department has its outcome (no refresh during the fanout).
SerialAfterParallel ==
    refreshes = 0 =>
        \A s \in Serial \cap known, p \in Range(department_targets) \cap known :
            task[s] # "none" /\ p \notin Serial => task[p] \in Resolved

\* The merged dict lists the parallel group then the serial one, each in the
\* order the router named them, whatever order the departments finished in.
RequestOrder ==
    LET position(d) == CHOOSE i \in DOMAIN department_targets :
                           department_targets[i] = d
        before(a, b) == IF a \in Serial <=> b \in Serial
                        THEN position(a) < position(b)
                        ELSE b \in Serial
    IN  refreshes = 0 =>
            \A i, j \in DOMAIN results : i < j => before(results[i], results[j])

\* Departments beyond max_parallel, unknown, failed or timed out are not
\* dropped: the channel has exactly one entry for each department the node
\* found registered on entry.
EveryDepartmentReported ==
    pc = "returned" =>
        /\ {r[1] : r \in Range(subagent_results)}
               = Range(department_targets) \cap known
        /\ IsInjective(results)

\* From the moment the node returns, the parent's writes and audit are exactly
\* what the departments that answered have recorded, and its tokens what the
\* replies of their loops cost: an answer is never folded while its thread can
\* still pay or write.  The reply of a department's tool sorter is the one
\* thing paid for that no channel has: at most one call per department, and
\* only of one that has too many tools.
AccountingExact ==
    pc = "returned" =>
        /\ token_usage = RouterTokens + ChildTokens
        /\ \A d \in Counted :
               paid[d] - calls[d] \in (IF d \in Choosy THEN {0, 1} ELSE {0})
        /\ pending_writes = ChildWrites
        /\ FlattenSeq(audit_log) = pending_writes

\* A department whose deadline passed before a thread took it up never
\* starts: not when a slot frees up later, not in a following batch.
NoLateStart ==
    [][\A d \in Dept :
          task[d] = "timeout" /\ worker'[d] = "busy" => worker[d] = "busy"]_vars

\* The fanout ends although any of its departments may hang for ever.
FanoutEnds == <>(pc \in {"returned", "failed"})

\* The engine is an implementation of the contract the graph relies on.
ContractStatus ==
    CASE pc \in {"bind", "split"} -> "open"
      [] pc = "returned" -> "closed"
      [] pc = "failed" -> "aborted"
      [] OTHER -> "running"
ContractAsked == IF pc \in {"bind", "split"} THEN {}
                 ELSE Range(department_targets) \cap known
ContractOutcome == [d \in Dept |-> IF task[d] \in Resolved THEN task[d] ELSE "none"]
ContractDelivered == {r[1] : r \in Range(subagent_results)}

Contract == INSTANCE FanoutContract WITH
    status <- ContractStatus, asked <- ContractAsked,
    outcome <- ContractOutcome, delivered <- ContractDelivered

MeetsContract == Contract!Spec

(* What the repository says of the program and the code does not do        *)

\* README: one department failing "never drops its siblings' results".  When
\* the node fails, whatever answered was itself at fault: no result is lost
\* for what another department has recorded.
SiblingsKept ==
    pc = "failed" =>
        \A d \in Range(results) :
            task[d] = "answered" => "malformed" \in Range(ops[d])
=============================================================================
