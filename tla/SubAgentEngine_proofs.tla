------------------------ MODULE SubAgentEngine_proofs ------------------------
(***************************************************************************)
(* Proofs about SubAgentEngine, for every set of departments, batch size   *)
(* and number of threads.                                                  *)
(***************************************************************************)
EXTENDS SubAgentEngine, DataLemmas

-----------------------------------------------------------------------------
(* The inductive invariant                                                 *)

\* The departments under gather.
InGather == IF pc = "gather" THEN Range(batch) ELSE {}

\* Between the split and the end, each requested department the node has
\* bound is in exactly one place: still to be grouped, in a group, under
\* gather or in the results.
Cover ==
    /\ pc = "bind" => todo = <<>> /\ parallel = <<>> /\ serial = <<>>
    /\ pc \in {"bind", "split"} => results = <<>>
    /\ pc \notin {"bind", "split"} => todo = <<>>
    /\ pc \in {"drain", "fold", "returned", "failed"} =>
           parallel = <<>> /\ serial = <<>>
    /\ pc # "bind" =>
           Range(department_targets) \cap known =
               (Range(todo) \cap known) \cup Range(parallel) \cup Range(serial)
                   \cup InGather \cup Range(results)

Distinct ==
    /\ IsInjective(department_targets) /\ IsInjective(todo)
    /\ IsInjective(parallel) /\ IsInjective(serial) /\ IsInjective(results)
    /\ pc = "gather" => IsInjective(batch)
    /\ Range(todo) \cap (Range(parallel) \cup Range(serial)) = {}
    /\ Range(parallel) \cap Range(serial) = {}
    /\ (Range(parallel) \cup Range(serial)) \cap (InGather \cup Range(results)) = {}
    /\ InGather \cap Range(results) = {}

\* A department has a task once it was launched, and its outcome once its
\* batch is over; a batch is never larger than the cap.
Tasks ==
    /\ \A d \in Dept : task[d] # "none" <=> d \in InGather \cup Range(results)
    /\ \A d \in Range(results) : task[d] \in Resolved
    /\ pc = "gather" => Len(batch) <= MaxParallel

Dispatch == TypeOK /\ Cover /\ Distinct /\ Tasks

\* How far the thread of a department can be, given its task; a department
\* whose thread has not run has spent and recorded nothing.  All it pays beside
\* the calls it reports is one call of the sorter.
Work ==
    \A d \in Dept :
        /\ task[d] \in {"none", "launched"} => worker[d] = "none"
        /\ task[d] = "waiting" => worker[d] \in {"queued", "busy", "returned", "raised"}
        /\ task[d] = "answered" => worker[d] = "returned"
        /\ task[d] = "error" => worker[d] \in {"none", "raised"}
        /\ task[d] = "timeout" => worker[d] \notin {"none", "queued"}
        /\ worker[d] \in {"none", "queued", "cancelled"} \/ d \in Remote =>
               calls[d] = 0 /\ paid[d] = 0 /\ ops[d] = <<>>
        /\ \/ paid[d] = calls[d]
           \/ d \in Choosy /\ paid[d] = calls[d] + 1

\* The channels are as the router left them until the node returns, and from
\* then on they hold what the departments that answered report.
Accounts ==
    /\ pc # "returned" =>
           /\ subagent_results = <<>> /\ token_usage = RouterTokens
           /\ pending_writes = <<>> /\ audit_log = <<>>
    /\ pc = "returned" =>
           /\ subagent_results = [i \in DOMAIN results |-> <<results[i], task[results[i]]>>]
           /\ token_usage = RouterTokens + ChildTokens
           /\ pending_writes = ChildWrites
           /\ FlattenSeq(audit_log) = ChildWrites

-----------------------------------------------------------------------------
(* Lemmas                                                                  *)

\* What the accounting of the node adds up has the type of a channel.
LEMMA ChildTypes ==
    ASSUME TypeOK
    PROVE  ChildTokens \in Nat /\ ChildWrites \in Seq(Dept \X OpKind)
<1>1. ChildTokens \in Nat
  <2>1. IsFiniteSet(Counted)
    <3>1. IsFiniteSet(Range(results))
      BY RangeFinite DEF TypeOK
    <3> QED
      BY <3>1, FS_Subset DEF Counted
  <2>2. \A d \in Counted : calls[d] \in Nat
    <3>1. Range(results) \subseteq Dept
      BY RangeOfSeq DEF TypeOK
    <3> QED
      BY <3>1 DEF Counted, TypeOK
  <2> QED
    BY <2>1, <2>2, SumType DEF ChildTokens
<1>2. ChildWrites \in Seq(Dept \X OpKind)
  <2> DEFINE writes == [i \in DOMAIN results |-> RunWrites(results[i])]
  <2>1. ASSUME NEW d \in Dept
        PROVE  RunWrites(d) \in Seq(Dept \X OpKind)
    <3>1. CASE d \in Counted
      <4>1. ops[d] \in Seq(OpKind)
        BY DEF TypeOK
      <4>2. /\ Len(ops[d]) \in Nat /\ DOMAIN ops[d] = 1..Len(ops[d])
            /\ \A i \in 1..Len(ops[d]) : ops[d][i] \in OpKind
        BY <4>1
      <4>3. [i \in 1..Len(ops[d]) |-> <<d, ops[d][i]>>] \in Seq(Dept \X OpKind)
        BY <4>2, SeqDef
      <4> QED
        BY <3>1, <4>2, <4>3 DEF RunWrites
    <3>2. CASE d \notin Counted
      BY <3>2, EmptySeq DEF RunWrites
    <3> QED
      BY <3>1, <3>2
  <2>2. /\ Len(results) \in Nat /\ DOMAIN results = 1..Len(results)
        /\ \A i \in 1..Len(results) : results[i] \in Dept
    BY DEF TypeOK
  <2>3. writes \in Seq(Seq(Dept \X OpKind))
    <3>1. \A i \in 1..Len(results) : RunWrites(results[i]) \in Seq(Dept \X OpKind)
      BY <2>1, <2>2
    <3>2. [i \in 1..Len(results) |-> RunWrites(results[i])] \in Seq(Seq(Dept \X OpKind))
      BY <2>2, <3>1, SeqDef
    <3> QED
      BY <2>2, <3>2
  <2> HIDE DEF writes
  <2>4. FlattenSeq(writes) \in Seq(Dept \X OpKind)
    BY <2>3, FlattenType
  <2> QED
    BY <2>4 DEF writes, ChildWrites
<1> QED
  BY <1>1, <1>2

\* What Launch and AfterBatch make of a group: a batch of at most MaxParallel
\* departments, and the rest.
LEMMA LaunchFacts ==
    ASSUME NEW group \in Seq(Dept)
    PROVE  LET k == Min2(MaxParallel, Len(group))
               b == SubSeq(group, 1, k)
           IN  /\ b \in Seq(Dept) /\ Len(b) <= MaxParallel
               /\ AfterBatch(group) \in Seq(Dept)
               /\ Range(group) = Range(b) \cup Range(AfterBatch(group))
               /\ group # <<>> => b # <<>>
               /\ IsInjective(group) =>
                     /\ IsInjective(b) /\ IsInjective(AfterBatch(group))
                     /\ Range(b) \cap Range(AfterBatch(group)) = {}
<1> DEFINE k == Min2(MaxParallel, Len(group))
           b == SubSeq(group, 1, k)
<1>1. Len(group) \in Nat /\ MaxParallel \in Nat /\ MaxParallel > 0
  BY EngineAssumption
<1>2. k \in 0..Len(group) /\ k <= MaxParallel /\ (Len(group) # 0 => k # 0)
  BY <1>1 DEF Min2
<1> HIDE DEF k
<1>3. /\ b \in Seq(Dept) /\ SubSeq(group, k + 1, Len(group)) \in Seq(Dept)
      /\ Len(b) = k
      /\ Range(group) = Range(b) \cup Range(SubSeq(group, k + 1, Len(group)))
      /\ IsInjective(group) =>
            /\ IsInjective(b)
            /\ IsInjective(SubSeq(group, k + 1, Len(group)))
            /\ Range(b) \cap Range(SubSeq(group, k + 1, Len(group))) = {}
  BY <1>2, SplitFacts
<1>4. AfterBatch(group) = SubSeq(group, k + 1, Len(group))
  BY DEF AfterBatch, k
<1>5. group # <<>> => b # <<>>
  BY <1>2, <1>3, EmptySeq
<1> QED
  BY <1>2, <1>3, <1>4, <1>5 DEF k

-----------------------------------------------------------------------------
(* Every variable keeps its type, every department is in one place         *)

\* A fanout starts with every variable of its type.
LEMMA TypeInit == ASSUME Init PROVE TypeOK
<1>1. department_targets \in Seq(Dept)
  <2>1. PICK n \in 1..Cardinality(Dept) : department_targets \in Injection(1..n, Dept)
    BY DEF Init, Targets
  <2>2. n \in Nat /\ department_targets \in [1..n -> Dept]
    BY <2>1, FS_CardinalityType, EngineAssumption DEF Injection
  <2> QED
    BY <2>2, SeqDef
<1> QED
  BY <1>1, EmptySeq DEF Init, TypeOK, PC, TaskState, WorkState, RouterTokens

\* Every step of the loop, of a thread or of a refresh keeps the types.
LEMMA TypeNext ==
    ASSUME TypeOK, Tasks, [Next]_vars
    PROVE  TypeOK'
<1> USE DEF registry, groups, threads, channels
<1>1. CASE Bind
  BY <1>1 DEF Bind, TypeOK, PC, TaskState, WorkState
<1>2. CASE DropUnresolved
  <2>1. todo' \in Seq(Dept)
    BY <1>2, HeadTailFacts DEF DropUnresolved, TypeOK
  <2> QED
    BY <1>2, <2>1 DEF DropUnresolved, TypeOK, PC, WorkState
<1>3. CASE ToParallel
  <2>1. todo' \in Seq(Dept) /\ parallel' \in Seq(Dept)
    BY <1>3, HeadTailFacts, AppendProperties DEF ToParallel, TypeOK
  <2> QED
    BY <1>3, <2>1 DEF ToParallel, TypeOK
<1>4. CASE ToSerial
  <2>1. todo' \in Seq(Dept) /\ serial' \in Seq(Dept)
    BY <1>4, HeadTailFacts, AppendProperties DEF ToSerial, TypeOK
  <2> QED
    BY <1>4, <2>1 DEF ToSerial, TypeOK
<1>5. CASE NoneResolved
  BY <1>5 DEF NoneResolved, TypeOK, PC, TaskState, WorkState
<1>6. CASE StartDispatch
  BY <1>6 DEF StartDispatch, TypeOK, PC, TaskState, WorkState
<1>7. CASE LaunchParallel
  <2>1. parallel \in Seq(Dept)
    BY DEF TypeOK
  <2>2. batch' \in Seq(Dept) /\ parallel' \in Seq(Dept)
    BY <1>7, <2>1, LaunchFacts DEF LaunchParallel, Launch
  <2>3. task' \in [Dept -> TaskState] /\ expired' \in BOOLEAN /\ pc' \in PC
    BY <1>7 DEF LaunchParallel, Launch, TypeOK, TaskState, PC
  <2> QED
    BY <1>7, <2>2, <2>3 DEF LaunchParallel, TypeOK
<1>8. CASE LaunchSerial
  <2>1. serial \in Seq(Dept)
    BY DEF TypeOK
  <2>2. batch' \in Seq(Dept) /\ serial' \in Seq(Dept)
    BY <1>8, <2>1, LaunchFacts DEF LaunchSerial, Launch
  <2>3. task' \in [Dept -> TaskState] /\ expired' \in BOOLEAN /\ pc' \in PC
    BY <1>8 DEF LaunchSerial, Launch, TypeOK, TaskState, PC
  <2> QED
    BY <1>8, <2>2, <2>3 DEF LaunchSerial, TypeOK
<1>9. CASE Expire
  BY <1>9 DEF Expire, TypeOK, PC, TaskState, WorkState
<1>10. CASE EndBatch
  <2>1. results' \in Seq(Dept)
    BY <1>10, ConcatProperties DEF EndBatch, TypeOK
  <2> QED
    BY <1>10, <2>1 DEF EndBatch, TypeOK, PC, WorkState
<1>11. CASE Drain
  BY <1>11 DEF Drain, TypeOK, PC, TaskState, WorkState
<1>12. CASE DrainTimeout
  BY <1>12 DEF DrainTimeout, TypeOK, PC, TaskState, WorkState
<1>13. CASE Fold
  <2>1. ChildTokens \in Nat /\ ChildWrites \in Seq(Dept \X OpKind)
    BY ChildTypes
  <2>2. token_usage' \in Nat /\ pending_writes' \in Seq(Dept \X OpKind)
    BY <1>13, <2>1, ConcatProperties DEF Fold, TypeOK
  <2>3. audit_log' \in Seq(Seq(Dept \X OpKind))
    BY <1>13, <2>1, AppendProperties DEF Fold, TypeOK
  <2>4. subagent_results' \in Seq(Dept \X Resolved)
    <3>1. /\ Len(results) \in Nat /\ DOMAIN results = 1..Len(results)
          /\ \A i \in 1..Len(results) : results[i] \in Dept
      BY DEF TypeOK
    <3>2. \A i \in 1..Len(results) : <<results[i], task[results[i]]>> \in Dept \X Resolved
      BY <3>1 DEF Tasks, Range
    <3>3. [i \in 1..Len(results) |-> <<results[i], task[results[i]]>>] \in Seq(Dept \X Resolved)
      BY <3>1, <3>2, SeqDef
    <3> QED
      BY <1>13, <3>1, <3>3 DEF Fold
  <2> QED
    BY <1>13, <2>2, <2>3, <2>4 DEF Fold, TypeOK, PC
<1>14. CASE FoldRaises
  BY <1>14 DEF FoldRaises, TypeOK, PC, TaskState, WorkState
<1>15. ASSUME NEW d \in Dept, Submit(d)
      PROVE  TypeOK'
  BY <1>15 DEF Submit, TypeOK, PC, TaskState, WorkState
<1>16. ASSUME NEW d \in Dept, SubmitUnknown(d)
      PROVE  TypeOK'
  BY <1>16 DEF SubmitUnknown, TypeOK, PC, TaskState, WorkState
<1>17. ASSUME NEW d \in Dept, Deliver(d)
      PROVE  TypeOK'
  BY <1>17 DEF Deliver, TypeOK, PC, TaskState, WorkState
<1>18. ASSUME NEW d \in Dept, Timeout(d)
      PROVE  TypeOK'
  BY <1>18 DEF Timeout, TypeOK, PC, TaskState, WorkState
<1>19. CASE Pick
  <2>1. pool' \in Seq(Dept)
    BY <1>19, HeadTailFacts DEF Pick, TypeOK
  <2> QED
    BY <1>19, <2>1 DEF Pick, TypeOK, PC, WorkState
<1>20. CASE SkipCancelled
  <2>1. pool' \in Seq(Dept)
    BY <1>20, HeadTailFacts DEF SkipCancelled, TypeOK
  <2> QED
    BY <1>20, <2>1 DEF SkipCancelled, TypeOK, PC, WorkState
<1>21. ASSUME NEW d \in Dept, Spend(d)
      PROVE  TypeOK'
  <2>1. calls' \in [Dept -> Nat] /\ paid' \in [Dept -> Nat]
    BY <1>21, SMTT(20) DEF Spend, TypeOK, WorkState
  <2> QED
    BY <1>21, <2>1 DEF Spend, TypeOK
<1>22. ASSUME NEW d \in Dept, WorkerReturns(d)
      PROVE  TypeOK'
  <2>1. worker' \in [Dept -> WorkState]
    BY <1>22 DEF WorkerReturns, TypeOK, WorkState
  <2> QED
    BY <1>22, <2>1 DEF WorkerReturns, TypeOK
<1>23. ASSUME NEW d \in Dept, WorkerRaises(d)
      PROVE  TypeOK'
  <2>1. worker' \in [Dept -> WorkState]
    BY <1>23 DEF WorkerRaises, TypeOK, WorkState
  <2> QED
    BY <1>23, <2>1 DEF WorkerRaises, TypeOK
<1>24. ASSUME NEW d \in Dept, NEW k \in OpKind, Write(d, k)
      PROVE  TypeOK'
  <2>1. ops' \in [Dept -> Seq(OpKind)]
    BY <1>24, AppendProperties DEF Write, TypeOK, WorkState
  <2> QED
    BY <1>24, <2>1 DEF Write, TypeOK
<1>30. ASSUME NEW d \in Dept, Sort(d)
      PROVE  TypeOK'
  <2>1. paid' \in [Dept -> Nat]
    BY <1>30 DEF Sort, TypeOK, WorkState
  <2> QED
    BY <1>30, <2>1 DEF Sort, TypeOK
<1>25. CASE Refresh
  <2>1. registered' \subseteq Dept /\ refreshes' \in Nat
    BY <1>25 DEF Refresh, TypeOK
  <2> QED
    BY <1>25, <2>1 DEF Refresh, TypeOK
<1>26. CASE Done
  BY <1>26 DEF Done, vars, TypeOK
<1>27. CASE UNCHANGED vars
  BY <1>27 DEF vars, TypeOK
<1>28. CASE Loop
  BY <1>1, <1>2, <1>3, <1>4, <1>5, <1>6, <1>7, <1>8, <1>9, <1>10, <1>11,
     <1>12, <1>13, <1>14, <1>15, <1>16, <1>17, <1>18, <1>28 DEF Loop
<1>29. CASE Threads
  BY <1>19, <1>20, <1>21, <1>22, <1>23, <1>24, <1>29, <1>30 DEF Threads
<1> QED
  BY <1>25, <1>26, <1>27, <1>28, <1>29 DEF Next

\* Steps that touch neither groups, batch, tasks nor results keep every
\* department in its place.
LEMMA PlaceFrame ==
    ASSUME Cover, Distinct, Tasks,
           UNCHANGED <<department_targets, pc, groups, batch, task, results>>
    PROVE  Cover' /\ Distinct' /\ Tasks'
BY DEF Cover, Distinct, Tasks, InGather, groups

\* At the start no department has been placed anywhere.
LEMMA PlaceInit == ASSUME Init PROVE Cover /\ Distinct /\ Tasks
<1>1. IsInjective(department_targets)
  BY DEF Init, Targets, Injection
<1> QED
  BY <1>1, EmptyFacts DEF Init, Cover, Distinct, Tasks, InGather

\* No step loses a department, puts it in two places or awaits more than
\* max_parallel of them.
LEMMA PlaceNext ==
    ASSUME Dispatch, [Next]_vars
    PROVE  Cover' /\ Distinct' /\ Tasks'
<1> USE DEF registry, groups, threads, channels, Dispatch
<1>1. CASE Bind
  <2>1. /\ pc = "bind" /\ pc' = "split" /\ todo' = department_targets
        /\ todo = <<>> /\ parallel' = <<>> /\ serial' = <<>> /\ results' = <<>>
        /\ results = <<>> /\ department_targets' = department_targets
        /\ task' = task
    BY <1>1 DEF Bind, Cover
  <2>2. Cover'
    BY <2>1, EmptyFacts DEF Cover, InGather
  <2>3. Distinct'
    BY <2>1, EmptyFacts DEF Distinct, InGather
  <2>4. Tasks'
    BY <2>1 DEF Tasks, InGather
  <2> QED
    BY <2>2, <2>3, <2>4
<1>2. CASE DropUnresolved
  <2>1. /\ Head(todo) \in Dept /\ Range(todo) = {Head(todo)} \cup Range(Tail(todo))
        /\ IsInjective(Tail(todo)) /\ Head(todo) \notin Range(Tail(todo))
    BY <1>2, HeadTailFacts DEF DropUnresolved, TypeOK, Distinct
  <2>2. /\ todo' = Tail(todo) /\ pc = "split" /\ pc' = "split"
        /\ known' = known /\ department_targets' = department_targets
        /\ results' = results /\ task' = task /\ batch' = batch
    BY <1>2 DEF DropUnresolved
  <2>0. Range(results) = {} /\ InGather = {}
    BY <2>2, EmptyFacts DEF Cover, InGather
  <2>4. Cover'
    BY <1>2, <2>1, <2>2 DEF DropUnresolved, Cover, InGather
  <2>5. Distinct'
    BY <1>2, <2>0, <2>1, <2>2 DEF DropUnresolved, Distinct, InGather
  <2>6. Tasks'
    BY <2>2 DEF Tasks, InGather
  <2> QED
    BY <2>4, <2>5, <2>6
<1>3. CASE ToParallel
  <2>1. /\ Head(todo) \in Dept /\ Range(todo) = {Head(todo)} \cup Range(Tail(todo))
        /\ IsInjective(Tail(todo)) /\ Head(todo) \notin Range(Tail(todo))
    BY <1>3, HeadTailFacts DEF ToParallel, TypeOK, Distinct
  <2>2. /\ todo' = Tail(todo) /\ pc = "split" /\ pc' = "split"
        /\ known' = known /\ department_targets' = department_targets
        /\ results' = results /\ task' = task /\ batch' = batch
    BY <1>3 DEF ToParallel
  <2>0. Range(results) = {} /\ InGather = {}
    BY <2>2, EmptyFacts DEF Cover, InGather
  <2>3. /\ Range(parallel') = Range(parallel) \cup {Head(todo)}
        /\ IsInjective(parallel')
    <3>1. parallel' = Append(parallel, Head(todo)) /\ Head(todo) \notin Range(parallel)
      BY <1>3, <2>1 DEF ToParallel, Distinct
    <3>2. parallel \in Seq(Dept) /\ IsInjective(parallel)
      BY DEF TypeOK, Distinct
    <3> QED
      BY <2>1, <3>1, <3>2, AppendFacts
  <2>4. Cover'
    BY <1>3, <2>1, <2>2, <2>3 DEF ToParallel, Cover, InGather
  <2>5. Distinct'
    BY <1>3, <2>0, <2>1, <2>2, <2>3 DEF ToParallel, Distinct, InGather
  <2>6. Tasks'
    BY <2>2 DEF Tasks, InGather
  <2> QED
    BY <2>4, <2>5, <2>6
<1>4. CASE ToSerial
  <2>1. /\ Head(todo) \in Dept /\ Range(todo) = {Head(todo)} \cup Range(Tail(todo))
        /\ IsInjective(Tail(todo)) /\ Head(todo) \notin Range(Tail(todo))
    BY <1>4, HeadTailFacts DEF ToSerial, TypeOK, Distinct
  <2>2. /\ todo' = Tail(todo) /\ pc = "split" /\ pc' = "split"
        /\ known' = known /\ department_targets' = department_targets
        /\ results' = results /\ task' = task /\ batch' = batch
    BY <1>4 DEF ToSerial
  <2>0. Range(results) = {} /\ InGather = {}
    BY <2>2, EmptyFacts DEF Cover, InGather
  <2>3. /\ Range(serial') = Range(serial) \cup {Head(todo)}
        /\ IsInjective(serial')
    <3>1. serial' = Append(serial, Head(todo)) /\ Head(todo) \notin Range(serial)
      BY <1>4, <2>1 DEF ToSerial, Distinct
    <3>2. serial \in Seq(Dept) /\ IsInjective(serial)
      BY DEF TypeOK, Distinct
    <3> QED
      BY <2>1, <3>1, <3>2, AppendFacts
  <2>4. Cover'
    BY <1>4, <2>1, <2>2, <2>3 DEF ToSerial, Cover, InGather
  <2>5. Distinct'
    BY <1>4, <2>0, <2>1, <2>2, <2>3 DEF ToSerial, Distinct, InGather
  <2>6. Tasks'
    BY <2>2 DEF Tasks, InGather
  <2> QED
    BY <2>4, <2>5, <2>6
<1>5. CASE NoneResolved
  BY <1>5, EmptyFacts DEF NoneResolved, Cover, Distinct, Tasks, InGather, TypeOK, Resolved, TaskState
<1>6. CASE StartDispatch
  BY <1>6, EmptyFacts DEF StartDispatch, Cover, Distinct, Tasks, InGather, TypeOK, Resolved, TaskState
<1>7. CASE LaunchParallel
  <2>1. /\ pc = "dispatch" /\ pc' = "gather" /\ todo' = todo /\ serial' = serial
        /\ known' = known /\ department_targets' = department_targets
        /\ results' = results
        /\ task' = [d \in Dept |-> IF d \in Range(batch') THEN "launched" ELSE task[d]]
    BY <1>7 DEF LaunchParallel, Launch
  <2>2. /\ batch' \in Seq(Dept) /\ Len(batch') <= MaxParallel
        /\ Range(parallel) = Range(batch') \cup Range(parallel')
        /\ IsInjective(batch') /\ IsInjective(parallel')
        /\ Range(batch') \cap Range(parallel') = {}
    BY <1>7, LaunchFacts DEF LaunchParallel, Launch, TypeOK, Distinct
  <2>3. Cover'
    BY <2>1, <2>2 DEF Cover, InGather
  <2>4. Distinct'
    BY <2>1, <2>2 DEF Distinct, InGather
  <2>5. Tasks'
    <3>1. Range(batch') \cap Range(results) = {}
      BY <2>2 DEF Distinct
    <3>2. \A d \in Range(results) : d \in Dept
      BY RangeOfSeq DEF TypeOK
    <3> QED
      BY <2>1, <2>2, <3>1, <3>2 DEF Tasks, InGather
  <2> QED
    BY <2>3, <2>4, <2>5
<1>8. CASE LaunchSerial
  <2>1. /\ pc = "dispatch" /\ pc' = "gather" /\ todo' = todo /\ parallel' = parallel
        /\ known' = known /\ department_targets' = department_targets
        /\ results' = results
        /\ task' = [d \in Dept |-> IF d \in Range(batch') THEN "launched" ELSE task[d]]
    BY <1>8 DEF LaunchSerial, Launch
  <2>2. /\ batch' \in Seq(Dept) /\ Len(batch') <= MaxParallel
        /\ Range(serial) = Range(batch') \cup Range(serial')
        /\ IsInjective(batch') /\ IsInjective(serial')
        /\ Range(batch') \cap Range(serial') = {}
    BY <1>8, LaunchFacts DEF LaunchSerial, Launch, TypeOK, Distinct
  <2>3. Cover'
    BY <2>1, <2>2 DEF Cover, InGather
  <2>4. Distinct'
    BY <2>1, <2>2 DEF Distinct, InGather
  <2>5. Tasks'
    <3>1. Range(batch') \cap Range(results) = {}
      BY <2>2 DEF Distinct
    <3>2. \A d \in Range(results) : d \in Dept
      BY RangeOfSeq DEF TypeOK
    <3> QED
      BY <2>1, <2>2, <3>1, <3>2 DEF Tasks, InGather
  <2> QED
    BY <2>3, <2>4, <2>5
<1>9. CASE Expire
  BY <1>9, EmptyFacts DEF Expire, Cover, Distinct, Tasks, InGather, TypeOK, Resolved, TaskState
<1>10. CASE EndBatch
  <2>1. /\ pc = "gather" /\ pc' \in {"dispatch", "drain"} /\ todo' = todo
        /\ pc' = "drain" => parallel = <<>> /\ serial = <<>>
        /\ parallel' = parallel /\ serial' = serial
        /\ known' = known /\ department_targets' = department_targets
        /\ results' = results \o batch /\ task' = task
        /\ \A d \in Range(batch) : task[d] \in Resolved
    BY <1>10 DEF EndBatch
  <2>2. /\ Range(results') = Range(results) \cup Range(batch)
        /\ IsInjective(results')
    <3>1. results \in Seq(Dept) /\ batch \in Seq(Dept)
      BY DEF TypeOK
    <3>2. /\ IsInjective(results) /\ IsInjective(batch)
          /\ Range(results) \cap Range(batch) = {}
      BY <2>1 DEF Distinct, InGather
    <3>3. results' = results \o batch
      BY <2>1
    <3> QED
      BY <3>1, <3>2, <3>3, ConcatFacts
  <2>3. Cover'
    BY <2>1, <2>2 DEF Cover, InGather
  <2>4. Distinct'
    BY <2>1, <2>2 DEF Distinct, InGather
  <2>5. Tasks'
    BY <2>1, <2>2 DEF Tasks, InGather
  <2> QED
    BY <2>3, <2>4, <2>5
<1>11. CASE Drain
  BY <1>11, EmptyFacts DEF Drain, Cover, Distinct, Tasks, InGather, TypeOK, Resolved, TaskState
<1>12. CASE DrainTimeout
  BY <1>12, EmptyFacts DEF DrainTimeout, Cover, Distinct, Tasks, InGather, TypeOK, Resolved, TaskState
<1>13. CASE Fold
  BY <1>13, EmptyFacts DEF Fold, Cover, Distinct, Tasks, InGather, TypeOK, Resolved, TaskState
<1>14. CASE FoldRaises
  BY <1>14, EmptyFacts DEF FoldRaises, Cover, Distinct, Tasks, InGather, TypeOK, Resolved, TaskState
<1>15. ASSUME NEW d \in Dept, Submit(d)
      PROVE  Cover' /\ Distinct' /\ Tasks'
  <2>1. /\ pc = "gather" /\ pc' = pc /\ todo' = todo /\ parallel' = parallel
        /\ serial' = serial /\ known' = known /\ batch' = batch
        /\ department_targets' = department_targets /\ results' = results
        /\ task[d] \in {"launched", "waiting"} /\ task' \in [Dept -> TaskState]
        /\ \A e \in Dept \ {d} : task'[e] = task[e]
        /\ task'[d] \in {"waiting", "answered", "error", "timeout"}
    BY <1>15 DEF Submit, TypeOK, TaskState
  <2>2. Cover' /\ Distinct'
    BY <2>1 DEF Cover, Distinct, InGather
  <2>3. d \notin Range(results)
    BY <2>1 DEF Tasks, Resolved
  <2>4. \A e \in Range(results) : e \in Dept
    BY RangeOfSeq DEF TypeOK
  <2>5. Tasks'
    BY <2>1, <2>3, <2>4 DEF Tasks, InGather
  <2> QED
    BY <2>2, <2>5
<1>16. ASSUME NEW d \in Dept, SubmitUnknown(d)
      PROVE  Cover' /\ Distinct' /\ Tasks'
  <2>1. /\ pc = "gather" /\ pc' = pc /\ todo' = todo /\ parallel' = parallel
        /\ serial' = serial /\ known' = known /\ batch' = batch
        /\ department_targets' = department_targets /\ results' = results
        /\ task[d] \in {"launched", "waiting"} /\ task' \in [Dept -> TaskState]
        /\ \A e \in Dept \ {d} : task'[e] = task[e]
        /\ task'[d] \in {"waiting", "answered", "error", "timeout"}
    BY <1>16 DEF SubmitUnknown, TypeOK, TaskState
  <2>2. Cover' /\ Distinct'
    BY <2>1 DEF Cover, Distinct, InGather
  <2>3. d \notin Range(results)
    BY <2>1 DEF Tasks, Resolved
  <2>4. \A e \in Range(results) : e \in Dept
    BY RangeOfSeq DEF TypeOK
  <2>5. Tasks'
    BY <2>1, <2>3, <2>4 DEF Tasks, InGather
  <2> QED
    BY <2>2, <2>5
<1>17. ASSUME NEW d \in Dept, Deliver(d)
      PROVE  Cover' /\ Distinct' /\ Tasks'
  <2>1. /\ pc = "gather" /\ pc' = pc /\ todo' = todo /\ parallel' = parallel
        /\ serial' = serial /\ known' = known /\ batch' = batch
        /\ department_targets' = department_targets /\ results' = results
        /\ task[d] \in {"launched", "waiting"} /\ task' \in [Dept -> TaskState]
        /\ \A e \in Dept \ {d} : task'[e] = task[e]
        /\ task'[d] \in {"waiting", "answered", "error", "timeout"}
    BY <1>17 DEF Deliver, TypeOK, TaskState
  <2>2. Cover' /\ Distinct'
    BY <2>1 DEF Cover, Distinct, InGather
  <2>3. d \notin Range(results)
    BY <2>1 DEF Tasks, Resolved
  <2>4. \A e \in Range(results) : e \in Dept
    BY RangeOfSeq DEF TypeOK
  <2>5. Tasks'
    BY <2>1, <2>3, <2>4 DEF Tasks, InGather
  <2> QED
    BY <2>2, <2>5
<1>18. ASSUME NEW d \in Dept, Timeout(d)
      PROVE  Cover' /\ Distinct' /\ Tasks'
  <2>1. /\ pc = "gather" /\ pc' = pc /\ todo' = todo /\ parallel' = parallel
        /\ serial' = serial /\ known' = known /\ batch' = batch
        /\ department_targets' = department_targets /\ results' = results
        /\ task[d] \in {"launched", "waiting"} /\ task' \in [Dept -> TaskState]
        /\ \A e \in Dept \ {d} : task'[e] = task[e]
        /\ task'[d] \in {"waiting", "answered", "error", "timeout"}
    BY <1>18 DEF Timeout, TypeOK, TaskState
  <2>2. Cover' /\ Distinct'
    BY <2>1 DEF Cover, Distinct, InGather
  <2>3. d \notin Range(results)
    BY <2>1 DEF Tasks, Resolved
  <2>4. \A e \in Range(results) : e \in Dept
    BY RangeOfSeq DEF TypeOK
  <2>5. Tasks'
    BY <2>1, <2>3, <2>4 DEF Tasks, InGather
  <2> QED
    BY <2>2, <2>5
<1>19. CASE Pick
  BY <1>19, PlaceFrame DEF Pick
<1>20. CASE SkipCancelled
  BY <1>20, PlaceFrame DEF SkipCancelled
<1>21. ASSUME NEW d \in Dept, Spend(d)
      PROVE  Cover' /\ Distinct' /\ Tasks'
  BY <1>21, PlaceFrame DEF Spend
<1>22. ASSUME NEW d \in Dept, WorkerReturns(d)
      PROVE  Cover' /\ Distinct' /\ Tasks'
  BY <1>22, PlaceFrame DEF WorkerReturns
<1>23. ASSUME NEW d \in Dept, WorkerRaises(d)
      PROVE  Cover' /\ Distinct' /\ Tasks'
  BY <1>23, PlaceFrame DEF WorkerRaises
<1>24. ASSUME NEW d \in Dept, NEW k \in OpKind, Write(d, k)
      PROVE  Cover' /\ Distinct' /\ Tasks'
  BY <1>24, PlaceFrame DEF Write
<1>30. ASSUME NEW d \in Dept, Sort(d)
      PROVE  Cover' /\ Distinct' /\ Tasks'
  BY <1>30, PlaceFrame DEF Sort
<1>25. CASE Refresh
  BY <1>25, PlaceFrame DEF Refresh
<1>26. CASE Done
  BY <1>26, PlaceFrame DEF Done, vars
<1>27. CASE UNCHANGED vars
  BY <1>27, PlaceFrame DEF Done, vars
<1>28. CASE Loop
  BY <1>1, <1>2, <1>3, <1>4, <1>5, <1>6, <1>7, <1>8, <1>9, <1>10, <1>11,
     <1>12, <1>13, <1>14, <1>15, <1>16, <1>17, <1>18, <1>28 DEF Loop
<1>29. CASE Threads
  BY <1>19, <1>20, <1>21, <1>22, <1>23, <1>24, <1>29, <1>30 DEF Threads
<1> QED
  BY <1>25, <1>26, <1>27, <1>28, <1>29 DEF Next

\* Every variable keeps its type, and each department is in exactly one place
\* of the dispatch (subagent_engine.invoke_parallel).
THEOREM DispatchInvariant == Spec => []Dispatch
<1>1. Init => Dispatch
  BY TypeInit, PlaceInit DEF Dispatch
<1>2. Dispatch /\ [Next]_vars => Dispatch'
  BY TypeNext, PlaceNext DEF Dispatch
<1> QED
  BY <1>1, <1>2, PTL DEF Spec

\* Every variable of the engine keeps its type.
THEOREM TypeCorrect == Spec => []TypeOK
<1>1. Dispatch => TypeOK
  BY DEF Dispatch
<1> QED
  BY <1>1, DispatchInvariant, PTL

-----------------------------------------------------------------------------
(* Threads: what has run, and what the parent is told of it                *)

\* At the start no thread exists.
LEMMA WorkInit == ASSUME Init PROVE Work
BY DEF Init, Work

\* What the parent is told of a thread never contradicts what the thread does.
LEMMA WorkNext ==
    ASSUME Dispatch, Work, [Next]_vars
    PROVE  Work'
<1> USE DEF registry, groups, threads, channels, Dispatch
<1>1. CASE Bind
  BY <1>1 DEF Bind, Work
<1>2. CASE DropUnresolved
  BY <1>2 DEF DropUnresolved, Work
<1>3. CASE ToParallel
  BY <1>3 DEF ToParallel, Work
<1>4. CASE ToSerial
  BY <1>4 DEF ToSerial, Work
<1>5. CASE NoneResolved
  BY <1>5 DEF NoneResolved, Work
<1>6. CASE StartDispatch
  BY <1>6 DEF StartDispatch, Work
<1>7. CASE LaunchParallel
  <2>1. /\ worker' = worker /\ calls' = calls /\ paid' = paid /\ ops' = ops
        /\ task' = [d \in Dept |-> IF d \in Range(batch') THEN "launched" ELSE task[d]]
    BY <1>7 DEF LaunchParallel, Launch
  <2>2. Range(batch') \subseteq Range(parallel)
    BY <1>7, LaunchFacts DEF LaunchParallel, Launch, TypeOK
  <2>3. \A d \in Dept : d \in Range(batch') => task[d] = "none"
    BY <2>2 DEF Distinct, Tasks
  <2> QED
    BY <2>1, <2>3 DEF Work
<1>8. CASE LaunchSerial
  <2>1. /\ worker' = worker /\ calls' = calls /\ paid' = paid /\ ops' = ops
        /\ task' = [d \in Dept |-> IF d \in Range(batch') THEN "launched" ELSE task[d]]
    BY <1>8 DEF LaunchSerial, Launch
  <2>2. Range(batch') \subseteq Range(serial)
    BY <1>8, LaunchFacts DEF LaunchSerial, Launch, TypeOK
  <2>3. \A d \in Dept : d \in Range(batch') => task[d] = "none"
    BY <2>2 DEF Distinct, Tasks
  <2> QED
    BY <2>1, <2>3 DEF Work
<1>9. CASE Expire
  BY <1>9 DEF Expire, Work
<1>10. CASE EndBatch
  BY <1>10 DEF EndBatch, Work
<1>11. CASE Drain
  BY <1>11 DEF Drain, Work
<1>12. CASE DrainTimeout
  BY <1>12 DEF DrainTimeout, Work
<1>13. CASE Fold
  BY <1>13 DEF Fold, Work
<1>14. CASE FoldRaises
  BY <1>14 DEF FoldRaises, Work
<1>15. ASSUME NEW d \in Dept, Submit(d)
      PROVE  Work'
  BY <1>15, HeadTailFacts DEF Submit, Work, TypeOK, TaskState, WorkState
<1>16. ASSUME NEW d \in Dept, SubmitUnknown(d)
      PROVE  Work'
  BY <1>16, HeadTailFacts DEF SubmitUnknown, Work, TypeOK, TaskState, WorkState
<1>17. ASSUME NEW d \in Dept, Deliver(d)
      PROVE  Work'
  BY <1>17, HeadTailFacts DEF Deliver, Work, TypeOK, TaskState, WorkState
<1>18. ASSUME NEW d \in Dept, Timeout(d)
      PROVE  Work'
  BY <1>18, HeadTailFacts DEF Timeout, Work, TypeOK, TaskState, WorkState
<1>19. CASE Pick
  BY <1>19, HeadTailFacts DEF Pick, Work, TypeOK, TaskState, WorkState
<1>20. CASE SkipCancelled
  BY <1>20 DEF SkipCancelled, Work
<1>21. ASSUME NEW d \in Dept, Spend(d)
      PROVE  Work'
  BY <1>21, HeadTailFacts DEF Spend, Work, TypeOK, TaskState, WorkState
<1>22. ASSUME NEW d \in Dept, WorkerReturns(d)
      PROVE  Work'
  BY <1>22, HeadTailFacts DEF WorkerReturns, Work, TypeOK, TaskState, WorkState
<1>23. ASSUME NEW d \in Dept, WorkerRaises(d)
      PROVE  Work'
  BY <1>23, HeadTailFacts DEF WorkerRaises, Work, TypeOK, TaskState, WorkState
<1>24. ASSUME NEW d \in Dept, NEW k \in OpKind, Write(d, k)
      PROVE  Work'
  BY <1>24, HeadTailFacts DEF Write, Work, TypeOK, TaskState, WorkState
<1>30. ASSUME NEW d \in Dept, Sort(d)
      PROVE  Work'
  BY <1>30, SMTT(20), EngineAssumption DEF Sort, Work, TypeOK, TaskState, WorkState
<1>25. CASE Refresh
  BY <1>25 DEF Refresh, Work
<1>26. CASE Done
  BY <1>26 DEF Done, vars, Work
<1>27. CASE UNCHANGED vars
  BY <1>27 DEF Done, vars, Work
<1>28. CASE Loop
  BY <1>1, <1>2, <1>3, <1>4, <1>5, <1>6, <1>7, <1>8, <1>9, <1>10, <1>11,
     <1>12, <1>13, <1>14, <1>15, <1>16, <1>17, <1>18, <1>28 DEF Loop
<1>29. CASE Threads
  BY <1>19, <1>20, <1>21, <1>22, <1>23, <1>24, <1>29, <1>30 DEF Threads
<1> QED
  BY <1>25, <1>26, <1>27, <1>28, <1>29 DEF Next

\* The parent's accounting depends on nothing but the departments that answered.
LEMMA ChildFrame ==
    ASSUME results' = results, task' = task,
           \A d \in Counted : calls'[d] = calls[d] /\ ops'[d] = ops[d]
    PROVE  ChildTokens' = ChildTokens /\ ChildWrites' = ChildWrites
<1>1. Counted' = Counted
  BY DEF Counted
<1>2. ChildTokens' = ChildTokens
  BY <1>1, SumCongruence DEF ChildTokens
<1>3. \A d : RunWrites(d)' = RunWrites(d)
  BY <1>1 DEF RunWrites
<1>4. ChildWrites' = ChildWrites
  BY <1>3 DEF ChildWrites
<1> QED
  BY <1>2, <1>4

\* Without results nothing is folded into the parent's channels.
LEMMA NothingCounted ==
    ASSUME results = <<>>
    PROVE  ChildTokens = 0 /\ ChildWrites = <<>>
<1>1. Counted = {}
  BY EmptyFacts DEF Counted
<1>2. [i \in DOMAIN results |-> RunWrites(results[i])] = <<>>
  OBVIOUS
<1> QED
  BY <1>1, <1>2, SumEmpty, FlattenEmpty DEF ChildTokens, ChildWrites

\* At the start the channels hold what the router left there.
LEMMA AccountsInit == ASSUME Init PROVE Accounts
BY DEF Init, Accounts

\* Only the fold changes the channels, and what it has folded no thread can
\* change afterwards.
LEMMA AccountsNext ==
    ASSUME Dispatch, Work, Accounts, [Next]_vars
    PROVE  Accounts'
<1> USE DEF registry, groups, threads, channels, Dispatch
<1>1. CASE Bind
  BY <1>1 DEF Bind, Accounts
<1>2. CASE DropUnresolved
  BY <1>2 DEF DropUnresolved, Accounts
<1>3. CASE ToParallel
  BY <1>3 DEF ToParallel, Accounts
<1>4. CASE ToSerial
  BY <1>4 DEF ToSerial, Accounts
<1>5. CASE NoneResolved
  <2>1. results' = <<>> /\ pc' = "returned" /\ subagent_results' = <<>>
    BY <1>5 DEF NoneResolved, Cover
  <2>2. ChildTokens' = 0 /\ ChildWrites' = <<>>
    <3>1. ChildTokens = 0 /\ ChildWrites = <<>>
      BY <1>5, NothingCounted DEF NoneResolved, Cover
    <3>2. ChildTokens' = ChildTokens /\ ChildWrites' = ChildWrites
      BY <1>5, ChildFrame DEF NoneResolved
    <3> QED
      BY <3>1, <3>2
  <2>3. token_usage' = RouterTokens /\ pending_writes' = <<>> /\ audit_log' = <<>>
    BY <1>5 DEF NoneResolved, Accounts
  <2> QED
    BY <2>1, <2>2, <2>3, FlattenEmpty DEF Accounts, RouterTokens
<1>6. CASE StartDispatch
  BY <1>6 DEF StartDispatch, Accounts
<1>7. CASE LaunchParallel
  BY <1>7 DEF LaunchParallel, Launch, Accounts
<1>8. CASE LaunchSerial
  BY <1>8 DEF LaunchSerial, Launch, Accounts
<1>9. CASE Expire
  BY <1>9 DEF Expire, Accounts
<1>10. CASE EndBatch
  BY <1>10 DEF EndBatch, Accounts
<1>11. CASE Drain
  BY <1>11 DEF Drain, Accounts
<1>12. CASE DrainTimeout
  BY <1>12 DEF DrainTimeout, Accounts
<1>13. CASE Fold
  <2>1. /\ pc = "fold" /\ pc' = "returned" /\ results' = results /\ task' = task
        /\ subagent_results' = [i \in DOMAIN results |-> <<results[i], task[results[i]]>>]
        /\ token_usage' = RouterTokens + ChildTokens
        /\ pending_writes' = <<>> \o ChildWrites
        /\ audit_log' = IF ChildWrites = <<>> THEN <<>> ELSE Append(<<>>, ChildWrites)
    BY <1>13 DEF Fold, Accounts
  <2>2. ChildTokens' = ChildTokens /\ ChildWrites' = ChildWrites
    BY <1>13, ChildFrame DEF Fold
  <2>3. ChildWrites \in Seq(Dept \X OpKind)
    BY ChildTypes
  <2>4. pending_writes' = ChildWrites
    BY <2>1, <2>3, ConcatEmptySeq
  <2>5. FlattenSeq(audit_log') = ChildWrites
    <3>1. CASE ChildWrites = <<>>
      BY <2>1, <3>1, FlattenEmpty
    <3>2. CASE ChildWrites # <<>>
      <4>1. <<>> \in Seq(Seq(Dept \X OpKind))
        BY EmptySeq
      <4>2. FlattenSeq(Append(<<>>, ChildWrites)) = FlattenSeq(<<>>) \o ChildWrites
        BY <2>3, <4>1, FlattenAppend
      <4> QED
        BY <2>1, <2>3, <3>2, <4>2, FlattenEmpty, ConcatEmptySeq
    <3> QED
      BY <3>1, <3>2
  <2> QED
    BY <2>1, <2>2, <2>4, <2>5 DEF Accounts
<1>14. CASE FoldRaises
  BY <1>14 DEF FoldRaises, Accounts
<1>15. ASSUME NEW d \in Dept, Submit(d)
      PROVE  Accounts'
  BY <1>15 DEF Submit, Accounts
<1>16. ASSUME NEW d \in Dept, SubmitUnknown(d)
      PROVE  Accounts'
  BY <1>16 DEF SubmitUnknown, Accounts
<1>17. ASSUME NEW d \in Dept, Deliver(d)
      PROVE  Accounts'
  BY <1>17 DEF Deliver, Accounts
<1>18. ASSUME NEW d \in Dept, Timeout(d)
      PROVE  Accounts'
  BY <1>18 DEF Timeout, Accounts
<1>19. CASE Pick
  BY <1>19, ChildFrame DEF Pick, Accounts
<1>20. CASE SkipCancelled
  BY <1>20, ChildFrame DEF SkipCancelled, Accounts
<1>21. ASSUME NEW d \in Dept, Spend(d)
      PROVE  Accounts'
  <2>1. /\ pc' = pc /\ task' = task /\ results' = results /\ worker[d] = "busy"
        /\ \A e \in Dept \ {d} : calls'[e] = calls[e] /\ ops'[e] = ops[e]
        /\ subagent_results' = subagent_results /\ token_usage' = token_usage
        /\ pending_writes' = pending_writes /\ audit_log' = audit_log
    BY <1>21 DEF Spend, TypeOK
  <2>2. Counted \subseteq Dept /\ d \notin Counted
    BY <2>1, RangeOfSeq DEF Counted, Work, TypeOK
  <2>3. ChildTokens' = ChildTokens /\ ChildWrites' = ChildWrites
    BY <2>1, <2>2, ChildFrame
  <2> QED
    BY <2>1, <2>3 DEF Accounts
<1>22. ASSUME NEW d \in Dept, WorkerReturns(d)
      PROVE  Accounts'
  BY <1>22, ChildFrame DEF WorkerReturns, Accounts
<1>23. ASSUME NEW d \in Dept, WorkerRaises(d)
      PROVE  Accounts'
  BY <1>23, ChildFrame DEF WorkerRaises, Accounts
<1>24. ASSUME NEW d \in Dept, NEW k \in OpKind, Write(d, k)
      PROVE  Accounts'
  <2>1. /\ pc' = pc /\ task' = task /\ results' = results /\ worker[d] = "busy"
        /\ \A e \in Dept \ {d} : calls'[e] = calls[e] /\ ops'[e] = ops[e]
        /\ subagent_results' = subagent_results /\ token_usage' = token_usage
        /\ pending_writes' = pending_writes /\ audit_log' = audit_log
    BY <1>24 DEF Write, TypeOK
  <2>2. Counted \subseteq Dept /\ d \notin Counted
    BY <2>1, RangeOfSeq DEF Counted, Work, TypeOK
  <2>3. ChildTokens' = ChildTokens /\ ChildWrites' = ChildWrites
    BY <2>1, <2>2, ChildFrame
  <2> QED
    BY <2>1, <2>3 DEF Accounts
<1>30. ASSUME NEW d \in Dept, Sort(d)
      PROVE  Accounts'
  BY <1>30, ChildFrame DEF Sort, Accounts
<1>25. CASE Refresh
  BY <1>25 DEF Refresh, Accounts
<1>26. CASE Done
  BY <1>26, ChildFrame DEF Done, vars, Accounts
<1>27. CASE UNCHANGED vars
  BY <1>27, ChildFrame DEF Done, vars, Accounts
<1>28. CASE Loop
  BY <1>1, <1>2, <1>3, <1>4, <1>5, <1>6, <1>7, <1>8, <1>9, <1>10, <1>11,
     <1>12, <1>13, <1>14, <1>15, <1>16, <1>17, <1>18, <1>28 DEF Loop
<1>29. CASE Threads
  BY <1>19, <1>20, <1>21, <1>22, <1>23, <1>24, <1>29, <1>30 DEF Threads
<1> QED
  BY <1>25, <1>26, <1>27, <1>28, <1>29 DEF Next

\* The three parts of the inductive invariant together.
EngineInv == Dispatch /\ Work /\ Accounts

\* The inductive invariant of the engine: dispatch, threads and accounting.
THEOREM EngineInvariant == Spec => []EngineInv
<1>1. Init => EngineInv
  BY TypeInit, PlaceInit, WorkInit, AccountsInit DEF EngineInv, Dispatch
<1>2. EngineInv /\ [Next]_vars => EngineInv'
  BY TypeNext, PlaceNext, WorkNext, AccountsNext DEF EngineInv, Dispatch
<1> QED
  BY <1>1, <1>2, PTL DEF Spec

-----------------------------------------------------------------------------
(* What the engine guarantees                                              *)

\* graph._subagent_fanout_node folds exactly what the departments that
\* answered have written and what their loops' replies cost; all that they
\* have paid beside it is one call of the sorter each, and a thread abandoned
\* at a deadline cannot make the parent's accounting wrong afterwards.
THEOREM AccountingCorrect == Spec => []AccountingExact
<1>1. ASSUME EngineInv PROVE AccountingExact
  <2>1. \A d \in Counted : paid[d] - calls[d] \in (IF d \in Choosy THEN {0, 1} ELSE {0})
    <3>1. SUFFICES ASSUME NEW d \in Counted
                   PROVE  paid[d] - calls[d] \in (IF d \in Choosy THEN {0, 1} ELSE {0})
      OBVIOUS
    <3>2. d \in Dept
      BY <1>1, RangeOfSeq DEF EngineInv, Dispatch, TypeOK, Counted
    <3>3. /\ calls[d] \in Nat /\ paid[d] \in Nat
          /\ \/ paid[d] = calls[d]
             \/ d \in Choosy /\ paid[d] = calls[d] + 1
      BY <1>1, <3>2 DEF EngineInv, Dispatch, TypeOK, Work
    <3> QED
      BY <3>3
  <2> QED
    BY <1>1, <2>1 DEF EngineInv, Accounts, AccountingExact
<1> QED
  BY <1>1, EngineInvariant, PTL

\* MAX_PARALLEL_TASKS bounds the departments under gather, whatever the
\* number of departments requested and of either group.
THEOREM CapRespected == Spec => []InFlightCap
<1>1. ASSUME EngineInv PROVE InFlightCap
  <2>1. InFlight \subseteq InGather
    BY <1>1 DEF EngineInv, Dispatch, Tasks, InFlight, Resolved
  <2>2. MaxParallel \in Nat
    BY EngineAssumption
  <2>3. CASE pc = "gather"
    <3>1. IsFiniteSet(Range(batch)) /\ Cardinality(Range(batch)) <= Len(batch)
      BY <1>1, RangeFinite DEF EngineInv, Dispatch, TypeOK
    <3>2. Len(batch) \in Nat /\ Len(batch) <= MaxParallel
      BY <1>1, <2>3 DEF EngineInv, Dispatch, TypeOK, Tasks
    <3>3. IsFiniteSet(InFlight) /\ Cardinality(InFlight) <= Cardinality(Range(batch))
      BY <2>1, <2>3, <3>1, FS_Subset DEF InGather
    <3>4. Cardinality(InFlight) \in Nat /\ Cardinality(Range(batch)) \in Nat
      BY <3>1, <3>3, FS_CardinalityType
    <3> QED
      BY <2>2, <3>1, <3>2, <3>3, <3>4 DEF InFlightCap
  <2>4. CASE pc # "gather"
    <3>1. InFlight = {}
      BY <2>1, <2>4 DEF InGather
    <3> QED
      BY <2>2, <3>1, FS_EmptySet DEF InFlightCap
  <2> QED
    BY <2>3, <2>4
<1> QED
  BY <1>1, EngineInvariant, PTL

\* "so every requested department is represented in the returned dict": one
\* entry each, whatever the batches, the deadlines and a registry refresh.
THEOREM AllReported == Spec => []EveryDepartmentReported
<1>1. ASSUME EngineInv PROVE EveryDepartmentReported
  <2>1. SUFFICES ASSUME pc = "returned"
                 PROVE  /\ {r[1] : r \in Range(subagent_results)}
                              = Range(department_targets) \cap known
                        /\ IsInjective(results)
    BY DEF EveryDepartmentReported
  <2>2. IsInjective(results)
    BY <1>1 DEF EngineInv, Dispatch, Distinct
  <2>3. Range(department_targets) \cap known = Range(results)
    BY <1>1, <2>1, EmptyFacts DEF EngineInv, Dispatch, Cover, InGather
  <2>4. {r[1] : r \in Range(subagent_results)} = Range(results)
    BY <1>1, <2>1 DEF EngineInv, Accounts, Range
  <2> QED
    BY <2>2, <2>3, <2>4
<1> QED
  BY <1>1, EngineInvariant, PTL

\* A department that missed its deadline in the executor's queue never runs.
THEOREM NeverLate == Spec => NoLateStart
<1> DEFINE OnTime == \A d \in Dept :
                        task[d] = "timeout" /\ worker'[d] = "busy" => worker[d] = "busy"
<1>1. ASSUME EngineInv, [Next]_vars PROVE [OnTime]_vars
  <2> USE DEF registry, groups, threads, channels
  <2>1. ASSUME NEW d \in Dept, task[d] = "timeout"
        PROVE  worker'[d] = worker[d] \/ worker'[d] # "busy"
    <3>1. worker[d] # "queued" /\ worker \in [Dept -> WorkState]
      BY <1>1, <2>1 DEF EngineInv, Work, Dispatch, TypeOK
    <3>2. CASE Loop
      BY <3>1, <3>2, <2>1 DEF Loop, Bind, DropUnresolved, ToParallel, ToSerial,
         NoneResolved, StartDispatch, LaunchParallel, LaunchSerial, Expire,
         EndBatch, Drain, DrainTimeout, Fold, FoldRaises, Submit,
         SubmitUnknown, Deliver, Timeout
    <3>3. CASE Threads
      BY <3>1, <3>3, <2>1 DEF Threads, Pick, SkipCancelled, Sort, Spend, Write,
         WorkerReturns, WorkerRaises
    <3>4. CASE Refresh \/ Done \/ UNCHANGED vars
      BY <3>4 DEF Refresh, Done, vars
    <3> QED
      BY <1>1, <3>2, <3>3, <3>4 DEF Next
  <2> QED
    BY <2>1
<1>2. EngineInv /\ [Next]_vars => [OnTime]_vars
  BY <1>1
<1>3. Spec => [][OnTime]_vars
  BY <1>2, EngineInvariant, PTL DEF Spec
<1> QED
  BY <1>3 DEF NoLateStart

-----------------------------------------------------------------------------
(* The engine implements FanoutContract                                    *)

\* A step that touches none of what the contract talks about stutters.
LEMMA ContractFrame ==
    ASSUME UNCHANGED <<department_targets, known, subagent_results>>,
           ContractStatus' = ContractStatus, ContractAsked' = ContractAsked,
           ContractOutcome' = ContractOutcome
    PROVE  UNCHANGED Contract!cvars
BY DEF Contract!cvars, ContractDelivered

\* What a status stands for.
LEMMA StatusFacts ==
    /\ pc \in {"bind", "split"} <=> ContractStatus = "open"
    /\ pc = "returned" <=> ContractStatus = "closed"
    /\ pc = "failed" <=> ContractStatus = "aborted"
    /\ pc \notin {"bind", "split", "returned", "failed"} <=> ContractStatus = "running"
BY DEF ContractStatus

\* Once the fanout is under way the outcome of a department the engine has
\* launched is one the contract asks for; when it is over, all of them are.
LEMMA AskedFacts ==
    ASSUME EngineInv
    PROVE  /\ ContractAsked \subseteq Dept
           /\ pc \notin {"bind", "split"} =>
                 \A d \in Dept : task[d] # "none" => d \in ContractAsked
           /\ pc \in {"drain", "fold"} => ContractAsked = Range(results)
           /\ pc # "returned" => ContractDelivered = {}
<1>1. Range(department_targets) \subseteq Dept
  BY RangeOfSeq DEF EngineInv, Dispatch, TypeOK
<1>2. pc \notin {"bind", "split"} =>
          ContractAsked = Range(parallel) \cup Range(serial) \cup InGather \cup Range(results)
  BY EmptyFacts DEF EngineInv, Dispatch, Cover, ContractAsked
<1>3. \A d \in Dept : task[d] # "none" => d \in InGather \cup Range(results)
  BY DEF EngineInv, Dispatch, Tasks
<1>4. pc \in {"drain", "fold"} => ContractAsked = Range(results)
  BY <1>2, EmptyFacts DEF EngineInv, Dispatch, Cover, InGather
<1>5. pc # "returned" => ContractDelivered = {}
  BY EmptyFacts DEF EngineInv, Accounts, ContractDelivered
<1> QED
  BY <1>1, <1>2, <1>3, <1>4, <1>5 DEF ContractAsked

\* The initial states of the engine are initial states of the contract.
LEMMA ContractInit == ASSUME Init PROVE Contract!Init
BY EmptyFacts DEF Init, Contract!Init, ContractStatus, ContractAsked,
   ContractOutcome, ContractDelivered, Resolved

\* Every step of the engine is a step of the contract or leaves it alone.
LEMMA ContractNext ==
    ASSUME EngineInv, [Next]_vars
    PROVE  Contract!Next \/ UNCHANGED Contract!cvars
<1> USE DEF registry, groups, threads, channels
<1>1. CASE Bind
  <2>1. /\ pc \in {"bind", "split"} /\ pc' \in {"bind", "split"}
        /\ UNCHANGED <<task, subagent_results>>
    BY <1>1 DEF Bind
  <2>2. UNCHANGED Contract!cvars
    BY <2>1 DEF Contract!cvars, ContractStatus, ContractAsked, ContractOutcome, ContractDelivered
  <2> QED
    BY <2>2
<1>2. CASE DropUnresolved
  <2>1. /\ pc \in {"bind", "split"} /\ pc' \in {"bind", "split"}
        /\ UNCHANGED <<task, subagent_results>>
    BY <1>2 DEF DropUnresolved
  <2>2. UNCHANGED Contract!cvars
    BY <2>1 DEF Contract!cvars, ContractStatus, ContractAsked, ContractOutcome, ContractDelivered
  <2> QED
    BY <2>2
<1>3. CASE ToParallel
  <2>1. /\ pc \in {"bind", "split"} /\ pc' \in {"bind", "split"}
        /\ UNCHANGED <<task, subagent_results>>
    BY <1>3 DEF ToParallel
  <2>2. UNCHANGED Contract!cvars
    BY <2>1 DEF Contract!cvars, ContractStatus, ContractAsked, ContractOutcome, ContractDelivered
  <2> QED
    BY <2>2
<1>4. CASE ToSerial
  <2>1. /\ pc \in {"bind", "split"} /\ pc' \in {"bind", "split"}
        /\ UNCHANGED <<task, subagent_results>>
    BY <1>4 DEF ToSerial
  <2>2. UNCHANGED Contract!cvars
    BY <2>1 DEF Contract!cvars, ContractStatus, ContractAsked, ContractOutcome, ContractDelivered
  <2> QED
    BY <2>2
<1>5. CASE NoneResolved
  <2>1. /\ pc = "split" /\ pc' = "returned" /\ subagent_results' = <<>>
        /\ UNCHANGED <<department_targets, known, task>>
        /\ Range(department_targets) \cap known = {}
    BY <1>5, EmptyFacts DEF NoneResolved, EngineInv, Dispatch, Cover, InGather
  <2>2. /\ ContractStatus = "open" /\ ContractStatus' = "closed"
        /\ UNCHANGED <<ContractAsked, ContractOutcome>>
    BY <2>1 DEF ContractStatus, ContractAsked, ContractOutcome
  <2>3. ContractDelivered' = ContractDelivered
    BY <2>1, AskedFacts, EmptyFacts DEF ContractDelivered
  <2>4. Contract!Decline
    BY <2>2, <2>3 DEF Contract!Decline
  <2> QED
    BY <2>4 DEF Contract!Next
<1>6. CASE StartDispatch
  <2>1. /\ pc = "split" /\ pc' = "dispatch" /\ todo = <<>>
        /\ parallel # <<>> \/ serial # <<>>
        /\ UNCHANGED <<department_targets, known, task, subagent_results>>
    BY <1>6 DEF StartDispatch
  <2>2. Range(parallel) # {} \/ Range(serial) # {}
    BY <2>1, RangeEmpty DEF EngineInv, Dispatch, TypeOK
  <2>3. Range(department_targets) \cap known # {}
    BY <2>1, <2>2 DEF EngineInv, Dispatch, Cover
  <2>4. Range(department_targets) \subseteq Dept
    BY RangeOfSeq DEF EngineInv, Dispatch, TypeOK
  <2>5. ContractAsked' \in (SUBSET Dept) \ {{}}
    <3>1. ContractAsked' = Range(department_targets) \cap known
      BY <2>1 DEF ContractAsked
    <3>2. ContractAsked' \subseteq Dept /\ ContractAsked' # {}
      BY <2>3, <2>4, <3>1
    <3>3. \A S : S \subseteq Dept /\ S # {} => S \in (SUBSET Dept) \ {{}}
      OBVIOUS
    <3> QED
      BY <3>2, <3>3
  <2>6. /\ ContractStatus = "open" /\ ContractStatus' = "running"
        /\ UNCHANGED <<ContractOutcome, ContractDelivered>>
    BY <2>1 DEF ContractStatus, ContractOutcome, ContractDelivered
  <2>7. Contract!Undertake
    BY <2>5, <2>6 DEF Contract!Undertake
  <2> QED
    BY <2>7 DEF Contract!Next
<1>7. CASE LaunchParallel
  <2>1. /\ pc = "dispatch" /\ pc' = "gather"
        /\ UNCHANGED <<department_targets, known, subagent_results>>
        /\ task' = [d \in Dept |-> IF d \in Range(batch') THEN "launched" ELSE task[d]]
    BY <1>7 DEF LaunchParallel, Launch
  <2>2. Range(batch') \subseteq Range(parallel)
    BY <1>7, LaunchFacts DEF LaunchParallel, Launch, EngineInv, Dispatch, TypeOK
  <2>3. \A d \in Dept : d \in Range(batch') => task[d] = "none"
    BY <2>2 DEF EngineInv, Dispatch, Distinct, Tasks
  <2>4. ContractOutcome' = ContractOutcome
    BY <2>1, <2>3 DEF ContractOutcome, Resolved
  <2> QED
    BY <2>1, <2>4, ContractFrame DEF ContractStatus, ContractAsked
<1>8. CASE LaunchSerial
  <2>1. /\ pc = "dispatch" /\ pc' = "gather"
        /\ UNCHANGED <<department_targets, known, subagent_results>>
        /\ task' = [d \in Dept |-> IF d \in Range(batch') THEN "launched" ELSE task[d]]
    BY <1>8 DEF LaunchSerial, Launch
  <2>2. Range(batch') \subseteq Range(serial)
    BY <1>8, LaunchFacts DEF LaunchSerial, Launch, EngineInv, Dispatch, TypeOK
  <2>3. \A d \in Dept : d \in Range(batch') => task[d] = "none"
    BY <2>2 DEF EngineInv, Dispatch, Distinct, Tasks
  <2>4. ContractOutcome' = ContractOutcome
    BY <2>1, <2>3 DEF ContractOutcome, Resolved
  <2> QED
    BY <2>1, <2>4, ContractFrame DEF ContractStatus, ContractAsked
<1>9. CASE Expire
  <2>1. /\ pc \in {"gather", "drain"} /\ pc' \in {"gather", "dispatch", "drain", "fold"}
        /\ UNCHANGED <<department_targets, known, task, subagent_results>>
    BY <1>9 DEF Expire
  <2> QED
    BY <2>1, ContractFrame DEF ContractStatus, ContractAsked, ContractOutcome
<1>10. CASE EndBatch
  <2>1. /\ pc \in {"gather", "drain"} /\ pc' \in {"gather", "dispatch", "drain", "fold"}
        /\ UNCHANGED <<department_targets, known, task, subagent_results>>
    BY <1>10 DEF EndBatch
  <2> QED
    BY <2>1, ContractFrame DEF ContractStatus, ContractAsked, ContractOutcome
<1>11. CASE Drain
  <2>1. /\ pc \in {"gather", "drain"} /\ pc' \in {"gather", "dispatch", "drain", "fold"}
        /\ UNCHANGED <<department_targets, known, task, subagent_results>>
    BY <1>11 DEF Drain
  <2> QED
    BY <2>1, ContractFrame DEF ContractStatus, ContractAsked, ContractOutcome
<1>12. CASE DrainTimeout
  <2>1. /\ pc \in {"gather", "drain"} /\ pc' \in {"gather", "dispatch", "drain", "fold"}
        /\ UNCHANGED <<department_targets, known, task, subagent_results>>
    BY <1>12 DEF DrainTimeout
  <2> QED
    BY <2>1, ContractFrame DEF ContractStatus, ContractAsked, ContractOutcome
<1>13. CASE Fold
  <2>1. /\ pc = "fold" /\ pc' = "returned"
        /\ UNCHANGED <<department_targets, known, task>>
    BY <1>13 DEF Fold
  <2>2. /\ ContractStatus = "running" /\ ContractStatus' = "closed"
        /\ UNCHANGED <<ContractAsked, ContractOutcome>>
    BY <2>1 DEF ContractStatus, ContractAsked, ContractOutcome
  <2>3. \A d \in Range(results) : d \in Dept /\ task[d] \in Resolved
    BY RangeOfSeq DEF EngineInv, Dispatch, Tasks, TypeOK
  <2>4. \A d \in ContractAsked : ContractOutcome[d] \in Contract!Outcome
    BY <2>1, <2>3, AskedFacts DEF ContractOutcome, Contract!Outcome, Resolved
  <2>5. ContractDelivered' = ContractAsked
    <3>1. subagent_results' = [i \in DOMAIN results |-> <<results[i], task[results[i]]>>]
      BY <1>13 DEF Fold
    <3>2. ContractDelivered' = Range(results)
      BY <3>1 DEF ContractDelivered, Range
    <3> QED
      BY <2>1, <3>2, AskedFacts
  <2>6. Contract!Close
    BY <2>2, <2>4, <2>5 DEF Contract!Close
  <2> QED
    BY <2>6 DEF Contract!Next
<1>14. CASE FoldRaises
  <2>1. /\ pc = "fold" /\ pc' = "failed"
        /\ UNCHANGED <<department_targets, known, task>>
    BY <1>14 DEF FoldRaises
  <2>2. /\ ContractStatus = "running" /\ ContractStatus' = "aborted"
        /\ UNCHANGED <<ContractAsked, ContractOutcome>>
    BY <2>1 DEF ContractStatus, ContractAsked, ContractOutcome
  <2>3. \A d \in Range(results) : d \in Dept /\ task[d] \in Resolved
    BY RangeOfSeq DEF EngineInv, Dispatch, Tasks, TypeOK
  <2>4. \A d \in ContractAsked : ContractOutcome[d] \in Contract!Outcome
    BY <2>1, <2>3, AskedFacts DEF ContractOutcome, Contract!Outcome, Resolved
  <2>5. ContractDelivered' = ContractDelivered
    BY <1>14 DEF FoldRaises, ContractDelivered
  <2>6. Contract!Abort
    BY <2>2, <2>4, <2>5 DEF Contract!Abort
  <2> QED
    BY <2>6 DEF Contract!Next
<1>15. ASSUME NEW d \in Dept, Submit(d)
      PROVE  Contract!Next \/ UNCHANGED Contract!cvars
  <2>1. /\ pc' = pc /\ task \in [Dept -> TaskState] /\ task[d] = "launched"
        /\ UNCHANGED <<department_targets, known, subagent_results>>
        /\ task' = [task EXCEPT ![d] = "waiting"]
    BY <1>15 DEF Submit, EngineInv, Dispatch, TypeOK
  <2>2. ContractOutcome' = ContractOutcome
    BY <2>1 DEF ContractOutcome, Resolved
  <2> QED
    BY <2>1, <2>2, ContractFrame DEF ContractStatus, ContractAsked
<1>16. ASSUME NEW d \in Dept, SubmitUnknown(d)
      PROVE  Contract!Next \/ UNCHANGED Contract!cvars
  <2>1. /\ pc = "gather" /\ pc' = pc /\ task \in [Dept -> TaskState]
        /\ task[d] \in {"launched", "waiting"}
        /\ UNCHANGED <<department_targets, known, subagent_results>>
    BY <1>16 DEF SubmitUnknown, EngineInv, Dispatch, TypeOK
  <2>2. PICK o \in Contract!Outcome : task' = [task EXCEPT ![d] = o]
    BY <1>16 DEF SubmitUnknown, Contract!Outcome
  <2>3. d \in ContractAsked /\ ContractStatus = "running"
    BY <2>1, AskedFacts, StatusFacts
  <2>4. ContractOutcome[d] = "none"
    BY <2>1 DEF ContractOutcome, Resolved
  <2>5. ContractOutcome' = [ContractOutcome EXCEPT ![d] = o]
    BY <2>1, <2>2 DEF ContractOutcome, Contract!Outcome, Resolved
  <2>6. UNCHANGED <<ContractStatus, ContractAsked, ContractDelivered>>
    BY <2>1 DEF ContractStatus, ContractAsked, ContractDelivered
  <2>7. Contract!Report(d)
    BY <2>3, <2>4, <2>5, <2>6 DEF Contract!Report
  <2> QED
    BY <2>7 DEF Contract!Next
<1>17. ASSUME NEW d \in Dept, Deliver(d)
      PROVE  Contract!Next \/ UNCHANGED Contract!cvars
  <2>1. /\ pc = "gather" /\ pc' = pc /\ task \in [Dept -> TaskState]
        /\ task[d] \in {"launched", "waiting"}
        /\ UNCHANGED <<department_targets, known, subagent_results>>
    BY <1>17 DEF Deliver, EngineInv, Dispatch, TypeOK
  <2>2. PICK o \in Contract!Outcome : task' = [task EXCEPT ![d] = o]
    BY <1>17 DEF Deliver, Contract!Outcome
  <2>3. d \in ContractAsked /\ ContractStatus = "running"
    BY <2>1, AskedFacts, StatusFacts
  <2>4. ContractOutcome[d] = "none"
    BY <2>1 DEF ContractOutcome, Resolved
  <2>5. ContractOutcome' = [ContractOutcome EXCEPT ![d] = o]
    BY <2>1, <2>2 DEF ContractOutcome, Contract!Outcome, Resolved
  <2>6. UNCHANGED <<ContractStatus, ContractAsked, ContractDelivered>>
    BY <2>1 DEF ContractStatus, ContractAsked, ContractDelivered
  <2>7. Contract!Report(d)
    BY <2>3, <2>4, <2>5, <2>6 DEF Contract!Report
  <2> QED
    BY <2>7 DEF Contract!Next
<1>18. ASSUME NEW d \in Dept, Timeout(d)
      PROVE  Contract!Next \/ UNCHANGED Contract!cvars
  <2>1. /\ pc = "gather" /\ pc' = pc /\ task \in [Dept -> TaskState]
        /\ task[d] \in {"launched", "waiting"}
        /\ UNCHANGED <<department_targets, known, subagent_results>>
    BY <1>18 DEF Timeout, EngineInv, Dispatch, TypeOK
  <2>2. PICK o \in Contract!Outcome : task' = [task EXCEPT ![d] = o]
    BY <1>18 DEF Timeout, Contract!Outcome
  <2>3. d \in ContractAsked /\ ContractStatus = "running"
    BY <2>1, AskedFacts, StatusFacts
  <2>4. ContractOutcome[d] = "none"
    BY <2>1 DEF ContractOutcome, Resolved
  <2>5. ContractOutcome' = [ContractOutcome EXCEPT ![d] = o]
    BY <2>1, <2>2 DEF ContractOutcome, Contract!Outcome, Resolved
  <2>6. UNCHANGED <<ContractStatus, ContractAsked, ContractDelivered>>
    BY <2>1 DEF ContractStatus, ContractAsked, ContractDelivered
  <2>7. Contract!Report(d)
    BY <2>3, <2>4, <2>5, <2>6 DEF Contract!Report
  <2> QED
    BY <2>7 DEF Contract!Next
<1>19. CASE Pick
  <2>1. UNCHANGED <<pc, department_targets, known, task, subagent_results>>
    BY <1>19 DEF Pick
  <2> QED
    BY <2>1, ContractFrame DEF ContractStatus, ContractAsked, ContractOutcome
<1>20. CASE SkipCancelled
  <2>1. UNCHANGED <<pc, department_targets, known, task, subagent_results>>
    BY <1>20 DEF SkipCancelled
  <2> QED
    BY <2>1, ContractFrame DEF ContractStatus, ContractAsked, ContractOutcome
<1>21. ASSUME NEW d \in Dept, Spend(d)
      PROVE  Contract!Next \/ UNCHANGED Contract!cvars
  <2>1. UNCHANGED <<pc, department_targets, known, task, subagent_results>>
    BY <1>21 DEF Spend
  <2> QED
    BY <2>1, ContractFrame DEF ContractStatus, ContractAsked, ContractOutcome
<1>22. ASSUME NEW d \in Dept, WorkerReturns(d)
      PROVE  Contract!Next \/ UNCHANGED Contract!cvars
  <2>1. UNCHANGED <<pc, department_targets, known, task, subagent_results>>
    BY <1>22 DEF WorkerReturns
  <2> QED
    BY <2>1, ContractFrame DEF ContractStatus, ContractAsked, ContractOutcome
<1>23. ASSUME NEW d \in Dept, WorkerRaises(d)
      PROVE  Contract!Next \/ UNCHANGED Contract!cvars
  <2>1. UNCHANGED <<pc, department_targets, known, task, subagent_results>>
    BY <1>23 DEF WorkerRaises
  <2> QED
    BY <2>1, ContractFrame DEF ContractStatus, ContractAsked, ContractOutcome
<1>24. ASSUME NEW d \in Dept, NEW k \in OpKind, Write(d, k)
      PROVE  Contract!Next \/ UNCHANGED Contract!cvars
  <2>1. UNCHANGED <<pc, department_targets, known, task, subagent_results>>
    BY <1>24 DEF Write
  <2> QED
    BY <2>1, ContractFrame DEF ContractStatus, ContractAsked, ContractOutcome
<1>30. ASSUME NEW d \in Dept, Sort(d)
      PROVE  Contract!Next \/ UNCHANGED Contract!cvars
  <2>1. UNCHANGED <<pc, department_targets, known, task, subagent_results>>
    BY <1>30 DEF Sort
  <2> QED
    BY <2>1, ContractFrame DEF ContractStatus, ContractAsked, ContractOutcome
<1>25. CASE Refresh
  <2>1. UNCHANGED <<pc, department_targets, known, task, subagent_results>>
    BY <1>25 DEF Refresh
  <2> QED
    BY <2>1, ContractFrame DEF ContractStatus, ContractAsked, ContractOutcome
<1>26. CASE Done
  <2>1. UNCHANGED <<pc, department_targets, known, task, subagent_results>>
    BY <1>26 DEF Done, vars
  <2> QED
    BY <2>1, ContractFrame DEF ContractStatus, ContractAsked, ContractOutcome
<1>27. CASE UNCHANGED vars
  <2>1. UNCHANGED <<pc, department_targets, known, task, subagent_results>>
    BY <1>27 DEF Done, vars
  <2> QED
    BY <2>1, ContractFrame DEF ContractStatus, ContractAsked, ContractOutcome
<1>28. CASE Loop
  BY <1>1, <1>2, <1>3, <1>4, <1>5, <1>6, <1>7, <1>8, <1>9, <1>10, <1>11,
     <1>12, <1>13, <1>14, <1>15, <1>16, <1>17, <1>18, <1>28 DEF Loop
<1>29. CASE Threads
  BY <1>19, <1>20, <1>21, <1>22, <1>23, <1>24, <1>29, <1>30 DEF Threads
<1> QED
  BY <1>25, <1>26, <1>27, <1>28, <1>29 DEF Next

\* What the graph relies on: each requested department gets one outcome that
\* never changes, and the node hands over all of them or none.
THEOREM EngineMeetsContract == Spec => MeetsContract
<1>1. Init => Contract!Init
  BY ContractInit
<1>2. EngineInv /\ [Next]_vars => [Contract!Next]_Contract!cvars
  BY ContractNext
<1> QED
  BY <1>1, <1>2, EngineInvariant, PTL DEF Spec, MeetsContract, Contract!Spec

-----------------------------------------------------------------------------
(* The order of the groups and of the results                              *)

\* Where the router named a department
Position(d) == CHOOSE i \in DOMAIN department_targets : department_targets[i] = d

\* Pairs of departments in the router's order, and in the order of the merged
\* dict
Named == {p \in Dept \X Dept : Position(p[1]) < Position(p[2])}
Merged ==
    {p \in Dept \X Dept :
        IF p[1] \in Serial <=> p[2] \in Serial
        THEN Position(p[1]) < Position(p[2])
        ELSE p[2] \in Serial}

Gathered == IF pc = "gather" THEN batch ELSE <<>>

\* While the registry stands still, names are grouped by what it says of them
\* and in the router's order, a batch is of one group, and whatever is merged
\* or under gather comes before whatever is not.
Order ==
    refreshes = 0 =>
        /\ pc # "bind" => known = registered
        /\ Range(parallel) \cap Serial = {} /\ Range(serial) \subseteq Serial
        /\ Range(Gathered) \cap Serial = {} \/ Range(Gathered) \subseteq Serial
        /\ Sorted(todo, Named) /\ Sorted(parallel, Named) /\ Sorted(serial, Named)
        /\ Sorted(Gathered, Merged) /\ Sorted(results, Merged)
        /\ Precedes(parallel, todo, Named) /\ Precedes(serial, todo, Named)
        /\ Precedes(results, Gathered, Merged)
        /\ Precedes(results, parallel, Merged) /\ Precedes(results, serial, Merged)
        /\ Precedes(Gathered, parallel, Merged) /\ Precedes(Gathered, serial, Merged)

\* No position is between two names the router has not given twice.
LEMMA TargetsSorted ==
    ASSUME department_targets \in Seq(Dept), IsInjective(department_targets)
    PROVE  Sorted(department_targets, Named)
<1>1. /\ DOMAIN department_targets = 1..Len(department_targets) /\ Len(department_targets) \in Nat
      /\ \A i \in DOMAIN department_targets : department_targets[i] \in Dept
  OBVIOUS
<1>2. ASSUME NEW i \in DOMAIN department_targets
      PROVE  Position(department_targets[i]) = i
  <2> DEFINE p == Position(department_targets[i])
  <2>1. p \in DOMAIN department_targets /\ department_targets[p] = department_targets[i]
    BY DEF Position
  <2> HIDE DEF p
  <2>2. p = i
    BY <2>1 DEF IsInjective
  <2> QED
    BY <2>2 DEF p
<1> QED
  BY <1>1, <1>2 DEF Sorted, Named

\* Within one group the router's order is the order of the merged dict, and a
\* department of the serial group is merged behind one that is not.
LEMMA GroupMerged ==
    /\ \A s \in Seq(Dept) :
          /\ Sorted(s, Named)
          /\ Range(s) \cap Serial = {} \/ Range(s) \subseteq Serial
          => Sorted(s, Merged)
    /\ \A s, t \in Seq(Dept) :
          Range(s) \cap Serial = {} /\ Range(t) \subseteq Serial => Precedes(s, t, Merged)
<1>1. ASSUME NEW s \in Seq(Dept), Sorted(s, Named),
             Range(s) \cap Serial = {} \/ Range(s) \subseteq Serial
      PROVE  Sorted(s, Merged)
  <2> SUFFICES ASSUME NEW i \in DOMAIN s, NEW j \in DOMAIN s, i < j
               PROVE  <<s[i], s[j]>> \in Merged
    BY DEF Sorted
  <2>1. s[i] \in Range(s) /\ s[j] \in Range(s)
    BY DEF Range
  <2>2. s[i] \in Serial <=> s[j] \in Serial
    BY <1>1, <2>1
  <2>3. <<s[i], s[j]>> \in Named
    BY <1>1 DEF Sorted
  <2> QED
    BY <2>2, <2>3 DEF Named, Merged
<1>2. ASSUME NEW s \in Seq(Dept), NEW t \in Seq(Dept),
             Range(s) \cap Serial = {}, Range(t) \subseteq Serial
      PROVE  Precedes(s, t, Merged)
  <2> SUFFICES ASSUME NEW a \in Range(s), NEW b \in Range(t)
               PROVE  <<a, b>> \in Merged
    BY DEF Precedes
  <2>1. a \in Dept /\ b \in Dept
    BY RangeOfSeq
  <2>2. a \notin Serial /\ b \in Serial
    BY <1>2
  <2> QED
    BY <2>1, <2>2 DEF Merged
<1> QED
  BY <1>1, <1>2

LEMMA OrderInit == ASSUME Init PROVE Order
BY EmptyFacts, EmptySorted DEF Init, Order, Gathered

\* Steps that leave the groups, the batch and the results alone.
LEMMA OrderFrame ==
    ASSUME Order, UNCHANGED <<department_targets, known, todo, parallel, serial, results>>,
           Gathered' = Gathered, pc = "bind" => pc' = "bind",
           refreshes' = 0 => refreshes = 0 /\ registered' = registered
    PROVE  Order'
<1>1. Named' = Named /\ Merged' = Merged
  BY DEF Named, Merged, Position
<1> HIDE DEF Named, Merged, Gathered, Sorted, Precedes
<1> QED
  BY <1>1 DEF Order

\* The groups keep the router's order, name by name.
LEMMA OrderSplit ==
    ASSUME Dispatch, Order, ToParallel \/ ToSerial, refreshes = 0
    PROVE  Order'
<1> USE DEF registry, groups, threads, channels
<1> DEFINE h == Head(todo)
           rest == Tail(todo)
<1>1. /\ todo # <<>> /\ todo' = rest /\ todo \in Seq(Dept) /\ h \in known
      /\ parallel \in Seq(Dept) /\ serial \in Seq(Dept)
      /\ pc = "split" /\ pc' = "split" /\ refreshes' = 0 /\ registered' = registered
      /\ UNCHANGED <<department_targets, known, batch, results>>
      /\ known = registered
  BY DEF ToParallel, ToSerial, Dispatch, TypeOK, Order
<1>2. h \in Dept /\ Range(todo) = {h} \cup Range(rest)
  BY <1>1, HeadTailFacts
<1>3. Named' = Named /\ Merged' = Merged
  BY <1>1 DEF Named, Merged, Position
<1>4. Gathered' = <<>> /\ results' = <<>>
  BY <1>1 DEF Gathered, Dispatch, Cover
<1>5. /\ Range(parallel) \cap Serial = {} /\ Range(serial) \subseteq Serial
      /\ Sorted(todo, Named) /\ Sorted(parallel, Named) /\ Sorted(serial, Named)
      /\ Precedes(parallel, todo, Named) /\ Precedes(serial, todo, Named)
  BY DEF Order
<1> HIDE DEF Named, Merged, h, rest
<1>6. Sorted(rest, Named) /\ \A b \in Range(rest) : <<h, b>> \in Named
  BY <1>1, <1>5, TailSorted DEF h, rest
<1>7. /\ \A a \in Range(parallel) : <<a, h>> \in Named
      /\ \A a \in Range(serial) : <<a, h>> \in Named
      /\ Precedes(parallel, rest, Named) /\ Precedes(serial, rest, Named)
  BY <1>2, <1>5 DEF Precedes
<1>8. CASE ToParallel
  <2>1. parallel' = Append(parallel, h) /\ serial' = serial /\ h \notin Serial
    BY <1>8 DEF ToParallel, IsParallelizable, h
  <2>2. Sorted(parallel', Named)
    BY <1>1, <1>2, <1>5, <1>7, <2>1, AppendSorted
  <2>3. Range(parallel') = Range(parallel) \cup {h}
    BY <1>1, <1>2, <2>1, AppendFacts
  <2>4. Precedes(parallel', rest, Named)
    BY <1>6, <1>7, <2>3 DEF Precedes
  <2>5. Range(parallel') \cap Serial = {}
    BY <1>5, <2>1, <2>3
  <2> QED
    BY <1>1, <1>3, <1>4, <1>5, <1>6, <1>7, <2>1, <2>2, <2>4, <2>5, EmptyFacts, EmptySorted
    DEF Order
<1>9. CASE ToSerial
  <2>1. serial' = Append(serial, h) /\ parallel' = parallel /\ h \in Serial
    BY <1>1, <1>9 DEF ToSerial, IsParallelizable, h
  <2>2. Sorted(serial', Named)
    BY <1>1, <1>2, <1>5, <1>7, <2>1, AppendSorted
  <2>3. Range(serial') = Range(serial) \cup {h}
    BY <1>1, <1>2, <2>1, AppendFacts
  <2>4. Precedes(serial', rest, Named)
    BY <1>6, <1>7, <2>3 DEF Precedes
  <2>5. Range(serial') \subseteq Serial
    BY <1>5, <2>1, <2>3
  <2> QED
    BY <1>1, <1>3, <1>4, <1>5, <1>6, <1>7, <2>1, <2>2, <2>4, <2>5, EmptyFacts, EmptySorted
    DEF Order
<1> QED
  BY <1>8, <1>9

\* What a launch makes of a group of one kind
LEMMA LaunchOrder ==
    ASSUME NEW group \in Seq(Dept), Sorted(group, Named),
           Range(group) \cap Serial = {} \/ Range(group) \subseteq Serial
    PROVE  LET b == SubSeq(group, 1, Min2(MaxParallel, Len(group)))
               rest == AfterBatch(group)
           IN  /\ Sorted(rest, Named) /\ Sorted(b, Merged) /\ Precedes(b, rest, Merged)
               /\ Range(b) \subseteq Range(group) /\ Range(rest) \subseteq Range(group)
               /\ b \in Seq(Dept) /\ rest \in Seq(Dept)
<1> DEFINE k == Min2(MaxParallel, Len(group))
           b == SubSeq(group, 1, k)
           rest == SubSeq(group, k + 1, Len(group))
<1>1. k \in 0..Len(group)
  BY EngineAssumption DEF Min2
<1>2. Sorted(group, Merged)
  BY GroupMerged
<1> HIDE DEF k, Named, Merged
<1>3. Sorted(rest, Named) /\ Sorted(b, Merged) /\ Precedes(b, rest, Merged)
  BY <1>1, <1>2, SplitSorted
<1>4. /\ Range(b) \subseteq Range(group) /\ Range(rest) \subseteq Range(group)
      /\ b \in Seq(Dept) /\ rest \in Seq(Dept)
  BY <1>1, SplitFacts
<1> QED
  BY <1>3, <1>4 DEF k, AfterBatch

LEMMA OrderLaunch ==
    ASSUME Dispatch, Order, LaunchParallel \/ LaunchSerial, refreshes = 0
    PROVE  Order'
<1> USE DEF registry, groups, threads, channels
<1>1. /\ pc = "dispatch" /\ pc' = "gather" /\ refreshes' = 0 /\ registered' = registered
      /\ UNCHANGED <<department_targets, known, todo, results>>
      /\ parallel \in Seq(Dept) /\ serial \in Seq(Dept) /\ results \in Seq(Dept)
      /\ todo = <<>> /\ known = registered
  BY DEF LaunchParallel, LaunchSerial, Launch, Dispatch, TypeOK, Cover, Order
<1>2. Named' = Named /\ Merged' = Merged /\ Gathered' = batch'
  BY <1>1 DEF Named, Merged, Position, Gathered
<1>3. /\ Range(parallel) \cap Serial = {} /\ Range(serial) \subseteq Serial
      /\ Sorted(todo, Named) /\ Sorted(parallel, Named) /\ Sorted(serial, Named)
      /\ Sorted(results, Merged)
      /\ Precedes(results, parallel, Merged) /\ Precedes(results, serial, Merged)
  BY DEF Order
<1> HIDE DEF Named, Merged
<1>4. CASE LaunchParallel
  <2>1. /\ batch' = SubSeq(parallel, 1, Min2(MaxParallel, Len(parallel)))
        /\ parallel' = AfterBatch(parallel) /\ serial' = serial
    BY <1>4 DEF LaunchParallel, Launch
  <2>2. /\ Sorted(parallel', Named) /\ Sorted(batch', Merged) /\ Precedes(batch', parallel', Merged)
        /\ Range(batch') \subseteq Range(parallel) /\ Range(parallel') \subseteq Range(parallel)
        /\ batch' \in Seq(Dept)
    BY <1>1, <1>3, <2>1, LaunchOrder
  <2>3. Range(batch') \cap Serial = {} /\ Range(parallel') \cap Serial = {}
    BY <1>3, <2>2
  <2>4. Precedes(batch', serial, Merged)
    BY <1>1, <1>3, <2>2, <2>3, GroupMerged
  <2>5. Precedes(results, batch', Merged) /\ Precedes(results, parallel', Merged)
    BY <1>3, <2>2 DEF Precedes
  <2> QED
    BY <1>1, <1>2, <1>3, <2>1, <2>2, <2>3, <2>4, <2>5, EmptySorted DEF Order
<1>5. CASE LaunchSerial
  <2>1. /\ batch' = SubSeq(serial, 1, Min2(MaxParallel, Len(serial)))
        /\ serial' = AfterBatch(serial) /\ parallel' = <<>> /\ parallel = <<>>
    BY <1>5 DEF LaunchSerial, Launch
  <2>2. /\ Sorted(serial', Named) /\ Sorted(batch', Merged) /\ Precedes(batch', serial', Merged)
        /\ Range(batch') \subseteq Range(serial) /\ Range(serial') \subseteq Range(serial)
    BY <1>1, <1>3, <2>1, LaunchOrder
  <2>3. Range(batch') \subseteq Serial /\ Range(serial') \subseteq Serial
    BY <1>3, <2>2
  <2>4. Precedes(results, batch', Merged) /\ Precedes(results, serial', Merged)
    BY <1>3, <2>2 DEF Precedes
  <2> QED
    BY <1>1, <1>2, <1>3, <2>1, <2>2, <2>3, <2>4, EmptyFacts, EmptySorted DEF Order
<1> QED
  BY <1>4, <1>5

\* A batch is merged behind what was merged before it.
LEMMA OrderEndBatch ==
    ASSUME Dispatch, Order, EndBatch, refreshes = 0
    PROVE  Order'
<1> USE DEF registry, groups, threads, channels
<1>1. /\ pc = "gather" /\ pc' \notin {"bind", "gather"} /\ refreshes' = 0
      /\ registered' = registered /\ results' = results \o batch
      /\ UNCHANGED <<department_targets, known, todo, parallel, serial>>
      /\ batch \in Seq(Dept) /\ results \in Seq(Dept) /\ Gathered = batch
  BY DEF EndBatch, Dispatch, TypeOK, Gathered
<1>2. Named' = Named /\ Merged' = Merged /\ Gathered' = <<>>
  BY <1>1 DEF Named, Merged, Position, Gathered
<1>3. /\ Sorted(batch, Merged) /\ Sorted(results, Merged) /\ Precedes(results, batch, Merged)
      /\ Precedes(results, parallel, Merged) /\ Precedes(results, serial, Merged)
      /\ Precedes(batch, parallel, Merged) /\ Precedes(batch, serial, Merged)
  BY <1>1 DEF Order
<1> HIDE DEF Named, Merged
<1>4. Sorted(results', Merged)
  BY <1>1, <1>3, ConcatSorted
<1>5. Range(results') = Range(results) \cup Range(batch)
  BY <1>1, ConcatFacts
<1>6. Precedes(results', parallel, Merged) /\ Precedes(results', serial, Merged)
  BY <1>3, <1>5 DEF Precedes
<1> QED
  BY <1>1, <1>2, <1>4, <1>6, EmptyFacts, EmptySorted DEF Order

LEMMA OrderNext ==
    ASSUME Dispatch, Order, [Next]_vars
    PROVE  Order'
<1> USE DEF registry, groups, threads, channels
<1>1. refreshes \in Nat
  BY DEF Dispatch, TypeOK
<1>2. (refreshes' = refreshes /\ registered' = registered) \/ refreshes' = refreshes + 1
  BY DEF Next, Loop, Threads, Bind, DropUnresolved, ToParallel, ToSerial, NoneResolved,
     StartDispatch, LaunchParallel, LaunchSerial, Expire, EndBatch, Drain, DrainTimeout, Fold,
     FoldRaises, Submit, SubmitUnknown, Deliver, Timeout, Pick, SkipCancelled, Sort, Spend,
     WorkerReturns, WorkerRaises, Write, Refresh, Done, vars
<1>3. SUFFICES ASSUME refreshes' = 0 PROVE Order'
  BY DEF Order
<1>4. refreshes = 0 /\ refreshes' = 0 /\ registered' = registered
  BY <1>1, <1>2, <1>3
<1>5. CASE Bind
  <2>1. /\ todo' = department_targets /\ department_targets' = department_targets
        /\ known' = registered /\ parallel' = <<>> /\ serial' = <<>> /\ results' = <<>>
        /\ Gathered' = <<>>
    BY <1>5 DEF Bind, Dispatch, Cover, Gathered
  <2>2. Named' = Named
    BY <2>1 DEF Named, Position
  <2>3. Sorted(department_targets, Named)
    BY TargetsSorted DEF Dispatch, TypeOK, Distinct
  <2> HIDE DEF Named, Merged
  <2> QED
    BY <1>4, <2>1, <2>2, <2>3, EmptyFacts, EmptySorted DEF Order
<1>6. CASE DropUnresolved
  <2>1. /\ todo # <<>> /\ todo' = Tail(todo) /\ todo \in Seq(Dept)
        /\ UNCHANGED <<department_targets, pc, known, parallel, serial, batch, results>>
    BY <1>6 DEF DropUnresolved, Dispatch, TypeOK
  <2>2. Named' = Named /\ Merged' = Merged /\ Gathered' = Gathered
    BY <2>1 DEF Named, Merged, Position, Gathered
  <2>3. Sorted(todo, Named) /\ Precedes(parallel, todo, Named) /\ Precedes(serial, todo, Named)
    BY <1>4 DEF Order
  <2> HIDE DEF Named, Merged, Gathered
  <2>4. Sorted(todo', Named) /\ Range(todo') \subseteq Range(todo)
    BY <2>1, <2>3, TailSorted, HeadTailFacts
  <2>5. Precedes(parallel, todo', Named) /\ Precedes(serial, todo', Named)
    BY <2>3, <2>4 DEF Precedes
  <2> QED
    BY <1>4, <2>1, <2>2, <2>4, <2>5 DEF Order
<1>7. CASE ToParallel \/ ToSerial
  BY <1>4, <1>7, OrderSplit
<1>8. CASE LaunchParallel \/ LaunchSerial
  BY <1>4, <1>8, OrderLaunch
<1>9. CASE EndBatch
  BY <1>4, <1>9, OrderEndBatch
<1>10. CASE NoneResolved \/ StartDispatch \/ Drain \/ DrainTimeout \/ Fold \/ FoldRaises
  <2>1. /\ UNCHANGED <<department_targets, known, todo, parallel, serial, results>>
        /\ pc \notin {"bind", "gather"} /\ pc' \notin {"bind", "gather"}
    BY <1>10 DEF NoneResolved, StartDispatch, Drain, DrainTimeout, Fold, FoldRaises
  <2>2. Gathered' = Gathered
    BY <2>1 DEF Gathered
  <2> QED
    BY <1>4, <2>1, <2>2, OrderFrame
<1>11. CASE \/ Expire \/ Threads \/ Refresh \/ Done \/ UNCHANGED vars
            \/ \E d \in Dept : Submit(d) \/ SubmitUnknown(d) \/ Deliver(d) \/ Timeout(d)
  <2>1. UNCHANGED <<department_targets, pc, known, todo, parallel, serial, batch, results>>
    BY <1>11 DEF Expire, Threads, Pick, SkipCancelled, Sort, Spend, WorkerReturns, WorkerRaises, Write,
       Refresh, Done, vars, Submit, SubmitUnknown, Deliver, Timeout
  <2>2. Gathered' = Gathered
    BY <2>1 DEF Gathered
  <2> QED
    BY <1>4, <2>1, <2>2, OrderFrame
<1> QED
  BY <1>5, <1>6, <1>7, <1>8, <1>9, <1>10, <1>11 DEF Next, Loop

\* The groups and the merged dict keep the router's order as long as the
\* registry stands still (subagent_engine.py:110-139).
THEOREM OrderInvariant == Spec => []Order
<1>1. Init => Order
  BY OrderInit
<1>2. Dispatch /\ Order /\ [Next]_vars => Order'
  BY OrderNext
<1> QED
  BY <1>1, <1>2, DispatchInvariant, PTL DEF Spec

\* The merged dict lists the parallel group, then the serial one, each in the
\* order the router named them, however the departments finish
\* (subagent_engine.py:136).
THEOREM ResultsAreOrdered == Spec => []RequestOrder
<1>1. ASSUME Dispatch, Order PROVE RequestOrder
  <2>1. SUFFICES ASSUME refreshes = 0, NEW i \in DOMAIN results, NEW j \in DOMAIN results, i < j
                 PROVE  IF results[i] \in Serial <=> results[j] \in Serial
                        THEN Position(results[i]) < Position(results[j])
                        ELSE results[j] \in Serial
    BY DEF RequestOrder, Position
  <2>2. <<results[i], results[j]>> \in Merged
    BY <1>1, <2>1 DEF Order, Sorted
  <2> QED
    BY <2>2 DEF Merged
<1> QED
  BY <1>1, DispatchInvariant, OrderInvariant, PTL

\* A department that may not run beside others is launched when every other one
\* has its outcome (subagent_engine.py:127-139).
THEOREM SerialComesLast == Spec => []SerialAfterParallel
<1>1. ASSUME Dispatch, Order PROVE SerialAfterParallel
  <2>1. SUFFICES ASSUME refreshes = 0, NEW s \in Serial \cap known,
                        NEW p \in Range(department_targets) \cap known,
                        task[s] # "none", p \notin Serial
                 PROVE  task[p] \in Resolved
    BY DEF SerialAfterParallel
  <2>2. s \in InGather \cup Range(results) /\ p \in Dept
    BY <1>1, <2>1 DEF Dispatch, TypeOK, Tasks
  <2>3. InGather = Range(Gathered)
    BY EmptyFacts DEF InGather, Gathered
  <2>4. pc \notin {"bind", "split"} /\ todo = <<>>
    BY <1>1, <2>2, EmptyFacts DEF Dispatch, Cover, InGather
  <2>5. p \in Range(parallel) \cup Range(serial) \cup InGather \cup Range(results)
    BY <1>1, <2>1, <2>4, EmptyFacts DEF Dispatch, Cover
  <2>6. p \notin Range(serial)
    BY <1>1, <2>1 DEF Order
  <2>7. <<s, p>> \notin Merged
    BY <2>1 DEF Merged
  <2> HIDE DEF Merged
  <2>8. p \notin Range(parallel)
    BY <1>1, <2>1, <2>2, <2>3, <2>7 DEF Order, Precedes
  <2>9. p \notin InGather
    BY <1>1, <2>1, <2>2, <2>3, <2>7 DEF Order, Precedes
  <2> QED
    BY <1>1, <2>5, <2>6, <2>8, <2>9 DEF Dispatch, Tasks
<1> QED
  BY <1>1, DispatchInvariant, OrderInvariant, PTL
=============================================================================
