------------------------- MODULE RemoteCalls_proofs -------------------------
(***************************************************************************)
(* The types of RemoteCalls, the life of the bridge under a close, and     *)
(* that an answer is the remote agent's, for any number of threads, loops, *)
(* artifacts, polls, redirects and bytes.                                  *)
(***************************************************************************)
EXTENDS RemoteCalls, SequenceTheorems, TLAPS

-----------------------------------------------------------------------------
(* Records of a view and of a page                                         *)

Views == [state : TaskStates, named : BOOLEAN, polls : 0 .. MaxPolls,
          streamed : 0 .. MaxArtifacts, parts : Seq(1 .. MaxArtifacts), beat : BOOLEAN]

\* The artifacts made so far are a sequence of artifacts.
LEMMA TextsType ==
    ASSUME NEW n \in 0 .. MaxArtifacts
    PROVE  Texts(n) \in Seq(1 .. MaxArtifacts) /\ Len(Texts(n)) = n
BY RemoteAssumption DEF Texts

\* One more artifact makes the next text.
LEMMA TextsAppend ==
    ASSUME NEW n \in Nat
    PROVE  Append(Texts(n), n + 1) = Texts(n + 1)
BY DEF Texts

\* Nothing made, nothing said.
LEMMA TextsEmpty == Texts(0) = <<>>
BY DEF Texts

\* Texts of fewer artifacts are a prefix of those of more.
LEMMA TextsPrefix ==
    ASSUME NEW n \in Nat, NEW m \in Nat, n <= m
    PROVE  IsPrefix(Texts(n), Texts(m))
BY DEF Texts, IsPrefix

\* What one poll makes of a view is a view, if a poll was left.
LEMMA AfterPollType ==
    ASSUME TypeOK, NEW a \in Agents, view[a].polls < MaxPolls
    PROVE  AfterPoll(a) \in Views
<1>1. view[a] \in Views /\ remote[a].state \in TaskStates /\ remote[a].made \in 0 .. MaxArtifacts
  BY DEF TypeOK, Views
<1>2. Texts(remote[a].made) \in Seq(1 .. MaxArtifacts)
  BY <1>1, TextsType
<1>3. view[a].polls + 1 \in 0 .. MaxPolls
  BY <1>1, RemoteAssumption DEF Views
<1> QED
  BY <1>1, <1>2, <1>3 DEF AfterPoll, Views

-----------------------------------------------------------------------------
(* The invariant                                                           *)

\* The loop a close is at is one that was made and that nobody is given.
CloseInv ==
    closing.at # "idle" =>
        /\ closing.loop \in Loops /\ closing.loop # current
        /\ loop[closing.loop] # "none"

Untouched == [state |-> "unknown", named |-> FALSE, polls |-> 0, streamed |-> 0, parts |-> <<>>,
              beat |-> FALSE]

\* What a call knows of the task, by where it is.
AgentInv(a) ==
    /\ pc[a] \in {"idle", "holding", "connect"} =>
           view[a] = Untouched /\ remote[a] = [state |-> "unknown", made |-> 0]
    /\ pc[a] \in {"stream", "poll"} =>
           view[a].parts = Texts(view[a].streamed) /\ view[a].streamed <= remote[a].made
    /\ pc[a] = "stream" =>
           /\ view[a].polls = 0
           /\ view[a].state \in Final =>
                  remote[a].state = view[a].state /\ view[a].streamed = remote[a].made
    /\ pc[a] = "poll" => MustPoll(view[a])
    /\ pc[a] = "answered" =>
           \E n \in 0 .. remote[a].made :
               /\ view[a].parts = Texts(n)
               /\ \/ remote[a].state = "completed" /\ n = remote[a].made
                  \/ view[a].state \notin Final /\ (view[a].named => view[a].polls = MaxPolls)

\* What a fetch has read, by where it is.
PageInv(f) ==
    /\ pc[f] \in {"idle", "holding", "request"} => page[f].got = 0
    /\ pc[f] = "body" => page[f].got < MaxBytes
    /\ pc[f] = "answered" /\ ~page[f].cut => page[f].got = page[f].size

CallsInv ==
    /\ TypeOK /\ BridgeAlive /\ CloseInv
    /\ \A a \in Agents : AgentInv(a)
    /\ \A f \in Fetchers : PageInv(f)

-----------------------------------------------------------------------------
(* Steps of the bridge                                                     *)

LEMMA InitInv == Init => CallsInv
<1> SUFFICES ASSUME Init PROVE CallsInv
  OBVIOUS
<1>1. <<>> \in Seq(1 .. MaxArtifacts)
  OBVIOUS
<1>2. TypeOK
  <2>1. current \in 0 .. MaxLoops /\ closing \in [at : {"idle", "taken", "joining", "over"}, loop : 0 .. MaxLoops]
    BY RemoteAssumption DEF Init
  <2>2. loop \in [Loops -> {"none", "running", "stopped", "closed"}]
    BY DEF Init
  <2>3. pc \in [Thread -> {"idle", "holding"} \cup OnLoop \cup Ended] /\ home \in [Thread -> 0 .. MaxLoops]
    BY RemoteAssumption DEF Init
  <2>4. remote \in [Agents -> [state : TaskStates, made : 0 .. MaxArtifacts]]
    BY RemoteAssumption DEF Init, TaskStates
  <2>5. view \in [Agents -> Views]
    BY <1>1, RemoteAssumption DEF Init, TaskStates, Views
  <2>6. page \in [Fetchers -> [size : 0 .. MaxBytes + 1, hop : 0 .. MaxRedirects,
                               got : 0 .. MaxBytes, cut : BOOLEAN]]
    <3>1. {0} \subseteq 0 .. MaxRedirects /\ {0} \subseteq 0 .. MaxBytes /\ {FALSE} \subseteq BOOLEAN
      BY RemoteAssumption
    <3>2. ASSUME NEW f \in Fetchers
          PROVE  page[f] \in [size : 0 .. MaxBytes + 1, hop : 0 .. MaxRedirects,
                              got : 0 .. MaxBytes, cut : BOOLEAN]
      <4>1. page[f] \in [size : 0 .. MaxBytes + 1, hop : {0}, got : {0}, cut : {FALSE}]
        BY DEF Init
      <4> QED
        BY <3>1, <4>1
    <3> QED
      BY <3>2 DEF Init
  <2> QED
    BY <2>1, <2>2, <2>3, <2>4, <2>5, <2>6, Zenon DEF TypeOK, Views
<1>3. \A a \in Agents : AgentInv(a)
  BY DEF Init, AgentInv, Thread, Untouched
<1>4. \A f \in Fetchers : PageInv(f)
  BY DEF Init, PageInv, Thread
<1> QED
  BY <1>2, <1>3, <1>4 DEF Init, CallsInv, BridgeAlive, CloseInv

\* The step gives a thread its loop.
LEMMA GetLoopInv ==
    ASSUME CallsInv, NEW t \in Thread, GetLoop(t)
    PROVE  CallsInv'
<1> USE DEF CallsInv
<1>1. TypeOK'
  <2>1. current' \in 0 .. MaxLoops /\ home' \in [Thread -> 0 .. MaxLoops]
    <3>1. CASE current # 0 /\ loop[current] # "closed"
      <4>1. current' = current /\ home' = [home EXCEPT ![t] = current]
        BY <3>1 DEF GetLoop
      <4> QED
        BY <4>1 DEF TypeOK
    <3>2. ASSUME NEW l \in Loops, current' = l, home' = [home EXCEPT ![t] = l]
          PROVE  current' \in 0 .. MaxLoops /\ home' \in [Thread -> 0 .. MaxLoops]
      BY <3>2, RemoteAssumption DEF TypeOK, Loops
    <3> QED
      BY <3>1, <3>2 DEF GetLoop
  <2>2. loop' \in [Loops -> {"none", "running", "stopped", "closed"}]
    BY DEF TypeOK, GetLoop
  <2>3. pc' \in [Thread -> {"idle", "holding"} \cup OnLoop \cup Ended]
    BY DEF TypeOK, GetLoop, Goes
  <2> QED
    BY <2>1, <2>2, <2>3 DEF TypeOK, GetLoop
<1>2. BridgeAlive'
  <2>1. CASE UNCHANGED <<current, loop>>
    BY <2>1 DEF BridgeAlive
  <2>2. ASSUME NEW l \in Loops, current' = l, loop' = [loop EXCEPT ![l] = "running"]
        PROVE  BridgeAlive'
    BY <2>2 DEF TypeOK, BridgeAlive
  <2> QED
    BY <2>1, <2>2 DEF GetLoop
<1>3. CloseInv'
  BY DEF TypeOK, GetLoop, CloseInv, Loops, BridgeAlive
<1>4. \A a \in Agents : AgentInv(a)'
  BY DEF TypeOK, GetLoop, Goes, AgentInv
<1>5. \A f \in Fetchers : PageInv(f)'
  BY DEF TypeOK, GetLoop, Goes, PageInv
<1> QED
  BY <1>1, <1>2, <1>3, <1>4, <1>5

LEMMA ScheduleInv ==
    ASSUME CallsInv, NEW t \in Thread, Schedule(t)
    PROVE  CallsInv'
<1> USE DEF CallsInv
<1>1. TypeOK'
  BY DEF TypeOK, Schedule, Goes, BridgeStays, OnLoop, Ended
<1>2. BridgeAlive' /\ CloseInv'
  BY DEF Schedule, BridgeStays, BridgeAlive, CloseInv
<1>3. \A a \in Agents : AgentInv(a)'
  BY RemoteAssumption DEF TypeOK, Schedule, Goes, AgentInv
<1>4. \A f \in Fetchers : PageInv(f)'
  BY RemoteAssumption DEF TypeOK, Schedule, Goes, PageInv
<1> QED
  BY <1>1, <1>2, <1>3, <1>4

\* The steps of a close.
LEMMA CloseStepInv ==
    ASSUME CallsInv, Bridge
    PROVE  CallsInv'
<1> USE DEF CallsInv
<1>1. TypeOK' /\ BridgeAlive' /\ CloseInv'
  <2>1. CASE CloseTakes
    <3>1. closing' \in [at : {"idle", "taken", "joining", "over"}, loop : 0 .. MaxLoops]
      BY <2>1 DEF CloseTakes, TypeOK
    <3>2. current' \in 0 .. MaxLoops
      BY RemoteAssumption, <2>1 DEF CloseTakes
    <3> QED
      BY <2>1, <3>1, <3>2 DEF CloseTakes, TypeOK, BridgeAlive, CloseInv, Loops
  <2>2. CASE CloseStops
    BY <2>2 DEF CloseStops, TypeOK, BridgeAlive, CloseInv, Loops
  <2>3. CASE CloseEnds
    <3>1. closing' \in [at : {"idle", "taken", "joining", "over"}, loop : 0 .. MaxLoops]
      BY RemoteAssumption, <2>3 DEF CloseEnds
    <3>2. loop' \in [Loops -> {"none", "running", "stopped", "closed"}]
      BY <2>3 DEF CloseEnds, TypeOK
    <3> QED
      BY <2>3, <3>1, <3>2 DEF CloseEnds, TypeOK, BridgeAlive, CloseInv, Loops
  <2> QED
    BY <2>1, <2>2, <2>3 DEF Bridge
<1>2. UNCHANGED <<pc, remote, view, page>>
  BY DEF Bridge, CloseTakes, CloseStops, CloseEnds
<1>3. \A a \in Agents : AgentInv(a)'
  BY <1>2 DEF AgentInv
<1>4. \A f \in Fetchers : PageInv(f)'
  BY <1>2 DEF PageInv
<1> QED
  BY <1>1, <1>3, <1>4

-----------------------------------------------------------------------------
(* Steps of a remote call                                                  *)

Remotes == [state : TaskStates, made : 0 .. MaxArtifacts]

\* The step is of this agent, or of its call, alone.
OnlyOf(a) ==
    /\ pc' = [pc EXCEPT ![a] = pc'[a]]
    /\ view' = [view EXCEPT ![a] = view'[a]]
    /\ remote' = [remote EXCEPT ![a] = remote'[a]]
    /\ UNCHANGED <<current, loop, closing, home, page>>

\* A step of one agent's call, or of the agent itself, that keeps the types and
\* what is known of that call.
LEMMA AgentFrame ==
    ASSUME CallsInv, NEW a \in Agents, OnlyOf(a), AgentInv(a)',
           pc'[a] \in {"idle", "holding"} \cup OnLoop \cup Ended,
           view'[a] \in Views, remote'[a] \in Remotes
    PROVE  CallsInv'
<1> USE DEF OnlyOf, Remotes
<1>1. TypeOK'
  <2>1. pc' \in [Thread -> {"idle", "holding"} \cup OnLoop \cup Ended]
    BY DEF CallsInv, TypeOK
  <2>2. view' \in [Agents -> Views]
    BY DEF CallsInv, TypeOK, Views
  <2>3. remote' \in [Agents -> [state : TaskStates, made : 0 .. MaxArtifacts]]
    BY DEF CallsInv, TypeOK
  <2> QED
    BY <2>1, <2>2, <2>3 DEF CallsInv, TypeOK, Views
<1>2. BridgeAlive' /\ CloseInv'
  BY DEF CallsInv, BridgeAlive, CloseInv
<1>3. ASSUME NEW b \in Agents PROVE AgentInv(b)'
  <2>1. CASE b = a
    BY <2>1
  <2>2. CASE b # a
    <3>1. pc'[b] = pc[b] /\ view'[b] = view[b] /\ remote'[b] = remote[b]
      BY <2>2 DEF CallsInv, TypeOK, Thread
    <3> QED
      BY <3>1 DEF CallsInv, AgentInv
  <2> QED
    BY <2>1, <2>2
<1>4. ASSUME NEW f \in Fetchers PROVE PageInv(f)'
  <2>1. pc'[f] = pc[f] /\ page' = page
    BY RemoteAssumption DEF CallsInv, TypeOK, Thread
  <2> QED
    BY <2>1 DEF CallsInv, PageInv
<1> QED
  BY <1>1, <1>2, <1>3, <1>4 DEF CallsInv

\* The call's own variables, typed.
LEMMA AgentTypes ==
    ASSUME TypeOK, NEW a \in Agents
    PROVE  /\ pc[a] \in {"idle", "holding"} \cup OnLoop \cup Ended
           /\ view[a] \in Views
           /\ remote[a] \in Remotes
           /\ pc = [pc EXCEPT ![a] = pc[a]]
           /\ view = [view EXCEPT ![a] = view[a]]
           /\ remote = [remote EXCEPT ![a] = remote[a]]
BY DEF TypeOK, Thread, Views, Remotes

\* The other side makes an artifact: what was known stays a prefix of it.
LEMMA MakesArtifactInv ==
    ASSUME CallsInv, NEW a \in Agents, MakesArtifact(a)
    PROVE  CallsInv'
<1> DEFINE r == [remote[a] EXCEPT !.made = @ + 1]
<1>1. TypeOK /\ AgentInv(a)
  BY DEF CallsInv
<1>2. r \in Remotes
  <2>1. remote[a] \in Remotes /\ remote[a].made < MaxArtifacts
    BY <1>1, AgentTypes DEF MakesArtifact
  <2>2. remote[a].made + 1 \in 0 .. MaxArtifacts
    BY <2>1, RemoteAssumption DEF Remotes
  <2> QED
    BY <2>1, <2>2 DEF Remotes
<1>3. /\ remote' = [remote EXCEPT ![a] = r] /\ remote'[a] = r
      /\ view' = view /\ pc' = pc
  BY <1>1 DEF MakesArtifact, OtherSide, TypeOK
<1>4. r.state = "working" /\ r.made = remote[a].made + 1 /\ remote[a].made \in Nat
      /\ remote[a].state = "working"
  BY <1>1, AgentTypes DEF MakesArtifact, Remotes
<1>5. AgentInv(a)'
  <2>1. pc[a] \notin {"idle", "holding", "connect"}
    BY <1>1, <1>4 DEF AgentInv
  <2>2. view[a].state \notin Final \/ pc[a] # "stream"
    BY <1>1, <1>4 DEF AgentInv, Final, Terminal, Interrupted
  <2>3. view[a].streamed \in Nat
    BY <1>1, AgentTypes DEF Views
  <2> QED
    BY <1>1, <1>3, <1>4, <2>1, <2>2, <2>3 DEF AgentInv
<1>6. OnlyOf(a)
  BY <1>1, <1>3, AgentTypes DEF OnlyOf, MakesArtifact, OtherSide
<1> QED
  BY <1>1, <1>2, <1>3, <1>5, <1>6, AgentTypes, AgentFrame

LEMMA EndsTaskInv ==
    ASSUME CallsInv, NEW a \in Agents, NEW s \in Final, EndsTask(a, s)
    PROVE  CallsInv'
<1> DEFINE r == [remote[a] EXCEPT !.state = s]
<1>1. TypeOK /\ AgentInv(a)
  BY DEF CallsInv
<1>2. r \in Remotes
  BY <1>1, AgentTypes DEF TaskStates, Remotes
<1>3. /\ remote' = [remote EXCEPT ![a] = r] /\ remote'[a] = r
      /\ view' = view /\ pc' = pc
  BY <1>1 DEF EndsTask, OtherSide, TypeOK
<1>4. r.made = remote[a].made /\ remote[a].state = "working"
  BY <1>1, AgentTypes DEF EndsTask, Remotes
<1>5. AgentInv(a)'
  <2>1. pc[a] \notin {"idle", "holding", "connect"}
    BY <1>1, <1>4 DEF AgentInv
  <2>2. view[a].state \notin Final \/ pc[a] # "stream"
    BY <1>1, <1>4 DEF AgentInv, Final, Terminal, Interrupted
  <2> QED
    BY <1>1, <1>3, <1>4, <2>1, <2>2 DEF AgentInv
<1>6. OnlyOf(a)
  BY <1>1, <1>3, AgentTypes DEF OnlyOf, EndsTask, OtherSide
<1> QED
  BY <1>1, <1>2, <1>3, <1>5, <1>6, AgentTypes, AgentFrame

\* Connecting, failing and a Message tell nothing of the task.
LEMMA PlainStepInv ==
    ASSUME CallsInv, NEW a \in Agents, Connect(a) \/ TransportFails(a) \/ StreamMessage(a)
    PROVE  CallsInv'
<1>1. TypeOK /\ AgentInv(a)
  BY DEF CallsInv
<1>2. /\ view' = view
      /\ UNCHANGED <<current, loop, closing, home, page>>
  BY DEF Connect, TransportFails, StreamMessage, Moves, BridgeStays
<1>3. CASE Connect(a)
  <2>1. pc[a] = "connect" /\ pc' = [pc EXCEPT ![a] = "stream"] /\ pc'[a] = "stream"
    BY <1>1, <1>3 DEF Connect, Moves, Goes, TypeOK, Thread
  <2>2. /\ view[a] = Untouched /\ remote[a] = [state |-> "unknown", made |-> 0]
    BY <1>1, <2>1 DEF AgentInv
  <2>3. /\ remote'[a] = [state |-> "working", made |-> 0]
        /\ remote' = [remote EXCEPT ![a] = remote'[a]]
    BY <1>1, <1>3, <2>2 DEF Connect, TypeOK
  <2>4. remote'[a] \in Remotes
    BY <2>3, RemoteAssumption DEF Remotes, TaskStates
  <2>5. AgentInv(a)'
    BY <1>2, <2>1, <2>2, <2>3, TextsEmpty
       DEF AgentInv, Untouched, Final, Terminal, Interrupted
  <2> QED
    BY <1>1, <1>2, <2>1, <2>3, <2>4, <2>5, AgentTypes, AgentFrame DEF OnlyOf, OnLoop
<1>4. CASE TransportFails(a) \/ StreamMessage(a)
  <2>1. /\ remote' = remote /\ pc'[a] \in {"raised", "message"}
        /\ pc' = [pc EXCEPT ![a] = pc'[a]]
    BY <1>1, <1>4 DEF TransportFails, StreamMessage, Goes, TypeOK, Thread
  <2>2. AgentInv(a)'
    BY <2>1 DEF AgentInv
  <2> QED
    BY <1>1, <1>2, <2>1, <2>2, AgentTypes, AgentFrame DEF OnlyOf, Ended
<1> QED
  BY <1>3, <1>4

\* What is streamed are the artifacts made, in order.
LEMMA StreamStepInv ==
    ASSUME CallsInv, NEW a \in Agents,
           StreamTask(a) \/ StreamArtifact(a) \/ \E id \in BOOLEAN : StreamStatus(a, id)
    PROVE  CallsInv'
<1>1. TypeOK /\ AgentInv(a) /\ view[a] \in Views /\ remote[a] \in Remotes
  BY AgentTypes DEF CallsInv
<1>2. /\ UNCHANGED <<current, loop, closing, home, page>>
      /\ pc' = pc /\ remote' = remote /\ pc[a] = "stream"
  BY DEF StreamTask, StreamArtifact, StreamStatus, Moves, BridgeStays
<1>3. /\ view[a].parts = Texts(view[a].streamed) /\ view[a].streamed <= remote[a].made
      /\ view[a].polls = 0
      /\ view[a].state \in Final =>
             remote[a].state = view[a].state /\ view[a].streamed = remote[a].made
  BY <1>1, <1>2 DEF AgentInv
<1>4. /\ remote[a].made \in 0 .. MaxArtifacts /\ remote[a].state \in TaskStates
      /\ view[a].streamed \in 0 .. MaxArtifacts
  BY <1>1 DEF Remotes, Views
<1> SUFFICES /\ view' = [view EXCEPT ![a] = view'[a]]
             /\ view'[a] \in Views
             /\ view'[a].parts = Texts(view'[a].streamed)
             /\ view'[a].streamed <= remote[a].made
             /\ view'[a].polls = 0
             /\ view'[a].state \in Final =>
                  remote[a].state = view'[a].state /\ view'[a].streamed = remote[a].made
  <2>1. ASSUME /\ view' = [view EXCEPT ![a] = view'[a]]
               /\ view'[a] \in Views
               /\ view'[a].parts = Texts(view'[a].streamed)
               /\ view'[a].streamed <= remote[a].made
               /\ view'[a].polls = 0
               /\ view'[a].state \in Final =>
                    remote[a].state = view'[a].state /\ view'[a].streamed = remote[a].made
        PROVE  CallsInv'
    <3>1. AgentInv(a)'
      BY <1>2, <2>1 DEF AgentInv
    <3> QED
      BY <1>1, <1>2, <2>1, <3>1, AgentTypes, AgentFrame DEF OnlyOf
  <2> QED
    BY <2>1
<1>5. CASE StreamTask(a)
  <2> DEFINE w == [view[a] EXCEPT !.named = TRUE, !.state = remote[a].state,
                                  !.streamed = remote[a].made,
                                  !.parts = view[a].parts \o Texts(remote[a].made)]
  <2>1. view' = [view EXCEPT ![a] = w]
    BY <1>1, <1>5 DEF StreamTask, TypeOK
  <2>2. view[a].parts \o Texts(remote[a].made) = Texts(remote[a].made)
    <3>1. view[a].parts = <<>>
      BY <1>3, <1>5, TextsEmpty DEF StreamTask
    <3>2. Texts(remote[a].made) \in Seq(1 .. MaxArtifacts)
      BY <1>4, TextsType
    <3> QED
      BY <3>1, <3>2, ConcatEmptySeq
  <2>3. Texts(remote[a].made) \in Seq(1 .. MaxArtifacts)
    BY <1>4, TextsType
  <2>4. view'[a] = [view[a] EXCEPT !.named = TRUE, !.state = remote[a].state,
                             !.streamed = remote[a].made, !.parts = Texts(remote[a].made)]
    BY <1>1, <2>1, <2>2 DEF TypeOK
  <2>5. view' = [view EXCEPT ![a] = view'[a]]
    BY <1>1, <2>1 DEF TypeOK
  <2>6. view'[a] \in Views
    BY <1>1, <1>4, <2>3, <2>4 DEF Views
  <2> QED
    BY <1>1, <1>3, <1>4, <2>3, <2>4, <2>5, <2>6 DEF Views
<1>6. CASE StreamArtifact(a)
  <2> DEFINE w == [view[a] EXCEPT !.streamed = view[a].streamed + 1,
                                  !.parts = Append(view[a].parts, view[a].streamed + 1)]
  <2>1. view' = [view EXCEPT ![a] = w]
    BY <1>1, <1>6 DEF StreamArtifact, TypeOK
  <2>2. view[a].streamed + 1 \in 0 .. MaxArtifacts /\ view[a].streamed < remote[a].made
    BY <1>4, <1>6, RemoteAssumption DEF StreamArtifact
  <2>3. /\ Append(view[a].parts, view[a].streamed + 1) = Texts(view[a].streamed + 1)
        /\ Texts(view[a].streamed + 1) \in Seq(1 .. MaxArtifacts)
    <3>1. view[a].streamed \in Nat
      BY <1>4
    <3> QED
      BY <1>3, <2>2, <3>1, TextsAppend, TextsType
  <2>4. view'[a] = [view[a] EXCEPT !.streamed = view[a].streamed + 1,
                                   !.parts = Texts(view[a].streamed + 1)]
    BY <1>1, <2>1, <2>3 DEF TypeOK
  <2>5. view[a].state \notin Final
    BY <1>3, <1>4, <2>2
  <2>6. view' = [view EXCEPT ![a] = view'[a]]
    BY <1>1, <2>1 DEF TypeOK
  <2>7. view'[a] \in Views
    BY <1>1, <2>2, <2>3, <2>4 DEF Views
  <2>8. /\ view'[a].streamed = view[a].streamed + 1
        /\ view'[a].parts = Texts(view[a].streamed + 1)
        /\ view'[a].polls = view[a].polls /\ view'[a].state = view[a].state
    BY <1>1, <2>4 DEF Views
  <2>9. view'[a].streamed <= remote[a].made
    BY <1>4, <2>2, <2>8
  <2> QED
    BY <1>3, <2>5, <2>6, <2>7, <2>8, <2>9
<1>7. ASSUME NEW id \in BOOLEAN, StreamStatus(a, id)
      PROVE  /\ view' = [view EXCEPT ![a] = view'[a]]
             /\ view'[a] \in Views
             /\ view'[a].parts = Texts(view'[a].streamed)
             /\ view'[a].streamed <= remote[a].made
             /\ view'[a].polls = 0
             /\ view'[a].state \in Final =>
                  remote[a].state = view'[a].state /\ view'[a].streamed = remote[a].made
  <2> DEFINE named == view[a].named \/ id
             beat == ~view[a].beat
             w == [view[a] EXCEPT !.state = remote[a].state, !.named = named, !.beat = beat]
  <2>1. /\ view' = [view EXCEPT ![a] = w]
        /\ remote[a].state \in Final => view[a].streamed = remote[a].made
    <3>1. /\ view' = [view EXCEPT ![a].state = remote[a].state, ![a].named = @ \/ id,
                                  ![a].beat = ~@]
          /\ remote[a].state \in Final => view[a].streamed = remote[a].made
      BY <1>7 DEF StreamStatus
    <3>2. DOMAIN view = Agents
      BY <1>1 DEF TypeOK
    <3> QED
      BY <3>1, <3>2
  <2>2. named \in BOOLEAN /\ beat \in BOOLEAN
    OBVIOUS
  <2> HIDE DEF named, beat
  <2>3. view'[a] = w /\ view' = [view EXCEPT ![a] = view'[a]]
    BY <1>1, <2>1 DEF TypeOK
  <2>4. w \in Views
    BY <1>1, <1>4, <2>2 DEF Views
  <2> QED
    BY <1>1, <1>3, <1>4, <2>1, <2>3, <2>4 DEF Views
<1> QED
  BY <1>5, <1>6, <1>7

\* The stream ends, or a poll comes back: the call goes on polling, or is over
\* with an answer or an exception.
LEMMA EndStreamInv ==
    ASSUME CallsInv, NEW a \in Agents, EndStream(a)
    PROVE  CallsInv'
<1>1. TypeOK /\ AgentInv(a) /\ view[a] \in Views /\ remote[a] \in Remotes
  BY AgentTypes DEF CallsInv
<1>2. /\ UNCHANGED <<current, loop, closing, home, page>>
      /\ view' = view /\ remote' = remote /\ pc[a] = "stream"
      /\ pc' = [pc EXCEPT ![a] = IF MustPoll(view[a]) THEN "poll" ELSE Outcome(view[a])]
  BY DEF EndStream, Moves, BridgeStays, Goes
<1>3. pc'[a] = IF MustPoll(view[a]) THEN "poll" ELSE Outcome(view[a])
  BY <1>1, <1>2 DEF TypeOK, Thread
<1>4. /\ view[a].parts = Texts(view[a].streamed) /\ view[a].streamed <= remote[a].made
      /\ view[a].polls = 0
      /\ view[a].state \in Final =>
             remote[a].state = view[a].state /\ view[a].streamed = remote[a].made
      /\ view[a].streamed \in Nat /\ remote[a].made \in Nat
  BY <1>1, <1>2 DEF AgentInv, Views, Remotes
<1>5. AgentInv(a)'
  <2>1. CASE pc'[a] = "poll"
    BY <1>2, <1>3, <1>4, <2>1 DEF AgentInv, Outcome
  <2>2. CASE pc'[a] = "answered"
    <3>1. ~MustPoll(view[a]) /\ view[a].state \notin Final \ {"completed"}
      BY <1>3, <2>2 DEF Outcome
    <3>2. view[a].streamed \in 0 .. remote[a].made
      BY <1>4
    <3>3. CASE view[a].state \in Final
      BY <1>2, <1>4, <2>2, <3>1, <3>2, <3>3 DEF AgentInv
    <3>4. CASE view[a].state \notin Final
      <4>1. view[a].named => view[a].polls = MaxPolls
        BY <1>1, <1>4, <3>1, <3>4, RemoteAssumption DEF MustPoll, Views
      <4> QED
        BY <1>2, <1>4, <2>2, <3>2, <3>4, <4>1 DEF AgentInv
    <3> QED
      BY <3>3, <3>4
  <2>3. CASE pc'[a] = "raised"
    BY <2>3 DEF AgentInv
  <2> QED
    BY <1>3, <2>1, <2>2, <2>3 DEF Outcome
<1>6. pc'[a] \in {"idle", "holding"} \cup OnLoop \cup Ended
  BY <1>3 DEF Outcome, OnLoop, Ended
<1> QED
  BY <1>1, <1>2, <1>3, <1>5, <1>6, AgentTypes, AgentFrame DEF OnlyOf

LEMMA PollInv ==
    ASSUME CallsInv, NEW a \in Agents, Poll(a)
    PROVE  CallsInv'
<1> DEFINE v == AfterPoll(a)
<1>1. TypeOK /\ AgentInv(a) /\ view[a] \in Views /\ remote[a] \in Remotes
  BY AgentTypes DEF CallsInv
<1>2. /\ UNCHANGED <<current, loop, closing, home, page>>
      /\ remote' = remote /\ pc[a] = "poll" /\ view' = [view EXCEPT ![a] = v]
      /\ pc' = [pc EXCEPT ![a] = IF MustPoll(v) THEN "poll" ELSE Outcome(v)]
  BY DEF Poll, Moves, BridgeStays, Goes
<1>3. /\ pc'[a] = IF MustPoll(v) THEN "poll" ELSE Outcome(v)
      /\ view'[a] = v
  BY <1>1, <1>2 DEF TypeOK, Thread
<1>4. /\ view[a].parts = Texts(view[a].streamed) /\ view[a].streamed <= remote[a].made
      /\ MustPoll(view[a])
      /\ view[a].streamed \in Nat /\ remote[a].made \in Nat /\ remote[a].state \in TaskStates
  BY <1>1, <1>2 DEF AgentInv, Views, Remotes
<1>5. v \in Views
  BY <1>1, <1>4, AfterPollType DEF MustPoll
<1>6. /\ v.state = remote[a].state /\ v.streamed = view[a].streamed /\ v.named = view[a].named
      /\ v.parts = IF remote[a].state \in Terminal THEN Texts(remote[a].made)
                   ELSE Texts(view[a].streamed)
  BY <1>1, <1>4 DEF AfterPoll, Views
<1>7. AgentInv(a)'
  <2>1. CASE pc'[a] = "poll"
    <3>1. MustPoll(v)
      BY <1>3, <2>1 DEF Outcome
    <3>2. remote[a].state \notin Terminal
      BY <1>6, <3>1 DEF MustPoll, Final
    <3> QED
      BY <1>2, <1>3, <1>4, <1>6, <2>1, <3>1, <3>2 DEF AgentInv
  <2>2. CASE pc'[a] = "answered"
    <3>1. ~MustPoll(v) /\ v.state \notin Final \ {"completed"}
      BY <1>3, <2>2 DEF Outcome
    <3>2. CASE v.state \in Final
      <4>1. v.state = "completed" /\ v.parts = Texts(remote[a].made)
        BY <1>6, <3>1, <3>2 DEF Terminal
      <4>2. remote[a].made \in 0 .. remote[a].made
        BY <1>4
      <4> QED
        BY <1>2, <1>3, <1>6, <2>2, <4>1, <4>2 DEF AgentInv
    <3>3. CASE v.state \notin Final
      <4>1. v.named => v.polls = MaxPolls
        BY <1>5, <3>1, <3>3, RemoteAssumption DEF MustPoll, Views
      <4>2. v.parts = Texts(view[a].streamed) /\ view[a].streamed \in 0 .. remote[a].made
        BY <1>4, <1>6, <3>3 DEF Final
      <4> QED
        BY <1>2, <1>3, <2>2, <3>3, <4>1, <4>2 DEF AgentInv
    <3> QED
      BY <3>2, <3>3
  <2>3. CASE pc'[a] = "raised"
    BY <2>3 DEF AgentInv
  <2> QED
    BY <1>3, <2>1, <2>2, <2>3 DEF Outcome
<1>8. pc'[a] \in {"idle", "holding"} \cup OnLoop \cup Ended
  BY <1>3 DEF Outcome, OnLoop, Ended
<1>9. OnlyOf(a)
  BY <1>1, <1>2, <1>3, AgentTypes DEF OnlyOf
<1> QED
  BY <1>1, <1>2, <1>3, <1>5, <1>7, <1>8, <1>9, AgentFrame

-----------------------------------------------------------------------------
(* Steps of a fetch                                                        *)

Pages == [size : 0 .. MaxBytes + 1, hop : 0 .. MaxRedirects,
          got : 0 .. MaxBytes, cut : BOOLEAN]

\* A step of one fetch that keeps the types and what it has read.
LEMMA FetchFrame ==
    ASSUME CallsInv, NEW f \in Fetchers, PageInv(f)',
           pc' = [pc EXCEPT ![f] = pc'[f]], page' = [page EXCEPT ![f] = page'[f]],
           pc'[f] \in {"idle", "holding"} \cup OnLoop \cup Ended, page'[f] \in Pages,
           UNCHANGED <<current, loop, closing, home, remote, view>>
    PROVE  CallsInv'
<1>1. TypeOK'
  <2>1. pc' \in [Thread -> {"idle", "holding"} \cup OnLoop \cup Ended]
    BY DEF CallsInv, TypeOK
  <2>2. page' \in [Fetchers -> Pages]
    BY DEF CallsInv, TypeOK, Pages
  <2> QED
    BY <2>1, <2>2 DEF CallsInv, TypeOK, Pages
<1>2. BridgeAlive' /\ CloseInv'
  BY DEF CallsInv, BridgeAlive, CloseInv
<1>3. ASSUME NEW a \in Agents PROVE AgentInv(a)'
  <2>1. pc'[a] = pc[a]
    BY RemoteAssumption DEF CallsInv, TypeOK, Thread
  <2> QED
    BY <2>1 DEF CallsInv, AgentInv
<1>4. ASSUME NEW g \in Fetchers PROVE PageInv(g)'
  <2>1. CASE g = f
    BY <2>1
  <2>2. CASE g # f
    <3>1. pc'[g] = pc[g] /\ page'[g] = page[g]
      BY <2>2 DEF CallsInv, TypeOK, Thread
    <3> QED
      BY <3>1 DEF CallsInv, PageInv
  <2> QED
    BY <2>1, <2>2
<1> QED
  BY <1>1, <1>2, <1>3, <1>4 DEF CallsInv

LEMMA FetchStepInv ==
    ASSUME CallsInv, NEW f \in Fetchers, FetchStep(f) \/ FetchFails(f)
    PROVE  CallsInv'
<1>1. /\ PageInv(f) /\ page[f] \in Pages /\ f \in Thread
      /\ pc \in [Thread -> {"idle", "holding"} \cup OnLoop \cup Ended]
      /\ page \in [Fetchers -> Pages]
  BY DEF CallsInv, TypeOK, Pages, Thread
<1>2. UNCHANGED <<current, loop, closing, home, remote, view>>
  BY DEF FetchStep, FetchFails, Redirected, GetsResponse, ReadsChunk, ReadsEnd, Moves, BridgeStays
<1>3. page[f].got \in Nat /\ MaxBytes \in Nat \ {0} /\ MaxRedirects \in Nat
  BY <1>1, RemoteAssumption DEF Pages
<1>4. CASE FetchFails(f) \/ GetsResponse(f) \/ ReadsEnd(f)
  <2>1. /\ page' = page /\ pc' = [pc EXCEPT ![f] = pc'[f]]
        /\ pc'[f] \in {"raised", "body", "answered"}
        /\ pc'[f] = "body" => pc[f] = "request"
        /\ pc'[f] = "answered" => page[f].got = page[f].size
    BY <1>1, <1>4 DEF FetchFails, GetsResponse, ReadsEnd, Moves, Goes
  <2>2. PageInv(f)'
    BY <1>1, <1>3, <2>1 DEF PageInv
  <2>3. page' = [page EXCEPT ![f] = page'[f]] /\ page'[f] \in Pages
    BY <1>1, <2>1
  <2> QED
    BY <1>1, <1>2, <2>1, <2>2, <2>3, FetchFrame DEF OnLoop, Ended
<1>5. CASE Redirected(f) /\ page[f].hop = MaxRedirects
  <2>1. page' = page /\ pc' = [pc EXCEPT ![f] = pc'[f]] /\ pc'[f] = "raised"
    BY <1>1, <1>5 DEF Redirected, Goes
  <2>2. PageInv(f)'
    BY <2>1 DEF PageInv
  <2>3. page' = [page EXCEPT ![f] = page'[f]] /\ page'[f] \in Pages
    BY <1>1, <2>1
  <2> QED
    BY <1>1, <1>2, <2>1, <2>2, <2>3, FetchFrame DEF Ended
<1>6. CASE Redirected(f) /\ page[f].hop # MaxRedirects
  <2> DEFINE p == [page[f] EXCEPT !.hop = page[f].hop + 1]
  <2>1. pc' = pc /\ pc[f] = "request" /\ page' = [page EXCEPT ![f] = p] /\ page'[f] = p
    BY <1>1, <1>6 DEF Redirected, Moves
  <2>2. page[f].hop + 1 \in 0 .. MaxRedirects
    BY <1>1, <1>3, <1>6 DEF Pages
  <2>3. p \in Pages /\ p.got = page[f].got
    BY <1>1, <2>2 DEF Pages
  <2>4. PageInv(f)'
    BY <1>1, <2>1, <2>3 DEF PageInv
  <2>5. pc' = [pc EXCEPT ![f] = pc'[f]] /\ page' = [page EXCEPT ![f] = page'[f]]
    BY <1>1, <2>1
  <2> QED
    BY <1>1, <1>2, <2>1, <2>3, <2>4, <2>5, FetchFrame
<1>7. CASE ReadsChunk(f)
  <2> DEFINE got == page[f].got + 1
             p == [page[f] EXCEPT !.got = got, !.cut = got >= MaxBytes]
  <2>1. /\ pc[f] = "body" /\ page' = [page EXCEPT ![f] = p] /\ page'[f] = p
        /\ pc' = [pc EXCEPT ![f] = IF got >= MaxBytes THEN "answered" ELSE "body"]
    BY <1>1, <1>7 DEF ReadsChunk, Moves, Goes
  <2>2. page[f].got < MaxBytes
    BY <1>1, <2>1 DEF PageInv
  <2>3. got \in 0 .. MaxBytes
    BY <1>3, <2>2
  <2>4. p \in Pages /\ p.got = got /\ (got >= MaxBytes => p.cut)
    <3> DEFINE cut == got >= MaxBytes
    <3>1. cut \in BOOLEAN /\ (got >= MaxBytes => cut)
      OBVIOUS
    <3>2. p = [page[f] EXCEPT !.got = got, !.cut = cut]
      OBVIOUS
    <3> HIDE DEF cut, p, got
    <3> QED
      BY <1>1, <2>3, <3>1, <3>2 DEF Pages
  <2>5. pc'[f] = IF got >= MaxBytes THEN "answered" ELSE "body"
    BY <1>1, <2>1
  <2> HIDE DEF p, got
  <2>6. PageInv(f)'
    BY <1>3, <2>1, <2>3, <2>4, <2>5 DEF PageInv
  <2>7. pc' = [pc EXCEPT ![f] = pc'[f]] /\ page' = [page EXCEPT ![f] = page'[f]]
    BY <1>1, <2>1
  <2> QED
    BY <1>1, <1>2, <2>1, <2>4, <2>5, <2>6, <2>7, FetchFrame DEF Ended, OnLoop
<1> QED
  BY <1>4, <1>5, <1>6, <1>7 DEF FetchStep

-----------------------------------------------------------------------------
(* The theorems                                                            *)

LEMMA StepInv == CallsInv /\ [Next]_vars => CallsInv'
<1> SUFFICES ASSUME CallsInv, [Next]_vars PROVE CallsInv'
  OBVIOUS
<1>1. CASE UNCHANGED vars
  <2>1. TypeOK' /\ BridgeAlive' /\ CloseInv'
    BY <1>1 DEF vars, CallsInv, TypeOK, BridgeAlive, CloseInv
  <2>2. \A a \in Agents : AgentInv(a)'
    BY <1>1 DEF vars, CallsInv, AgentInv
  <2>3. \A f \in Fetchers : PageInv(f)'
    BY <1>1 DEF vars, CallsInv, PageInv
  <2> QED
    BY <2>1, <2>2, <2>3 DEF CallsInv
<1>2. ASSUME NEW t \in Thread, GetLoop(t) \/ Schedule(t) PROVE CallsInv'
  BY <1>2, GetLoopInv, ScheduleInv
<1>3. ASSUME NEW a \in Agents, AgentStep(a) \/ TransportFails(a) PROVE CallsInv'
  BY <1>3, PlainStepInv, StreamStepInv, EndStreamInv, PollInv DEF AgentStep
<1>4. ASSUME NEW a \in Agents, MakesArtifact(a) PROVE CallsInv'
  BY <1>4, MakesArtifactInv
<1>5. ASSUME NEW a \in Agents, NEW s \in Final, EndsTask(a, s) PROVE CallsInv'
  BY <1>5, EndsTaskInv
<1>6. ASSUME NEW f \in Fetchers, FetchStep(f) \/ FetchFails(f) PROVE CallsInv'
  BY <1>6, FetchStepInv
<1>7. ASSUME Bridge PROVE CallsInv'
  BY <1>7, CloseStepInv
<1> QED
  BY <1>1, <1>2, <1>3, <1>4, <1>5, <1>6, <1>7 DEF Next, Done

\* In every behaviour of the calls the inductive invariant holds: the types, the
\* bridge under a close, what a call knows of its task, what a fetch has read
\* (async_bridge.py, a2a_client.py, research_fetch.py).
THEOREM CallsInvariant == Spec => []CallsInv
<1> QED
  BY InitInv, StepInv, PTL DEF Spec

\* Every variable of the calls keeps its type: no poll is made beyond MAX_POLLS,
\* no redirect beyond MAX_REDIRECTS, no byte beyond the limit.
THEOREM CallsTypeCorrect == Spec => []TypeOK
<1>1. CallsInv => TypeOK
  BY DEF CallsInv
<1> QED
  BY <1>1, CallsInvariant, PTL

\* The loop that _get_loop would hand out runs, at every moment of a close.
THEOREM BridgeStaysAlive == Spec => []BridgeAlive
<1>1. CallsInv => BridgeAlive
  BY DEF CallsInv
<1> QED
  BY <1>1, CallsInvariant, PTL

\* What a call returns is the remote agent's answer, whole unless the agent named
\* no task or the polls ran out; a page that is not cut is whole.
THEOREM AnswersAreWhole == Spec => []AnswerWhole
<1>1. ASSUME CallsInv PROVE AnswerWhole
  <2>1. ASSUME NEW a \in Agents, pc[a] = "answered"
        PROVE  /\ IsPrefix(view[a].parts, Texts(remote[a].made))
               /\ \/ remote[a].state = "completed" /\ Len(view[a].parts) = remote[a].made
                  \/ view[a].state \notin Final /\ (view[a].named => view[a].polls = MaxPolls)
    <3>1. AgentInv(a) /\ remote[a].made \in 0 .. MaxArtifacts
      BY <1>1, AgentTypes DEF CallsInv, Remotes
    <3>2. PICK n \in 0 .. remote[a].made :
             /\ view[a].parts = Texts(n)
             /\ \/ remote[a].state = "completed" /\ n = remote[a].made
                \/ view[a].state \notin Final /\ (view[a].named => view[a].polls = MaxPolls)
      BY <2>1, <3>1 DEF AgentInv
    <3>3. n \in 0 .. MaxArtifacts /\ n <= remote[a].made /\ n \in Nat /\ remote[a].made \in Nat
      BY <3>1, <3>2, RemoteAssumption
    <3> QED
      BY <3>2, <3>3, TextsPrefix, TextsType
  <2>2. ASSUME NEW f \in Fetchers, pc[f] = "answered", ~page[f].cut
        PROVE  page[f].got = page[f].size
    BY <1>1, <2>2 DEF CallsInv, PageInv
  <2> QED
    BY <2>1, <2>2 DEF AnswerWhole
<1> QED
  BY <1>1, CallsInvariant, PTL
=============================================================================
