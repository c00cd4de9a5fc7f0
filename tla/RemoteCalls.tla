----------------------------- MODULE RemoteCalls -----------------------------
(***************************************************************************)
(* Calls that leave the process: a worker thread blocks in run_sync while  *)
(* the coroutine of its call runs on the one loop of the async bridge      *)
(* (async_bridge.py).  Two coroutines are modelled: _call, which takes a   *)
(* remote A2A agent's answer from a stream and then from polls             *)
(* (a2a_client.py), and fetch_public_url (research_fetch.py), which        *)
(* follows redirects and reads a body under one deadline.                  *)
(*                                                                         *)
(* The remote agent is part of the model: it makes artifacts, which it     *)
(* streams or not, it ends in some state or works for ever, and it may go  *)
(* on streaming for ever.  The texts of its artifacts are their numbers.   *)
(* One close of the bridge may happen at any moment while calls are on it. *)
(***************************************************************************)
EXTENDS Naturals, Sequences, SequencesExt

CONSTANTS
    Agents,         \* threads that call a remote agent
    Fetchers,       \* threads that fetch a page
    MaxLoops,       \* bound on the loops the bridge makes: one more than its closes
    MaxArtifacts,   \* bound on what a remote agent makes
    MaxPolls,       \* MAX_POLLS
    MaxRedirects,   \* MAX_REDIRECTS
    MaxBytes        \* FETCH_URL_MAX_BYTES, in pieces a server sends

ASSUME RemoteAssumption ==
    /\ Agents \cap Fetchers = {}
    /\ MaxLoops \in Nat \ {0} /\ MaxArtifacts \in Nat /\ MaxPolls \in Nat
    /\ MaxRedirects \in Nat /\ MaxBytes \in Nat \ {0}

VARIABLES
    current,    \* the global _loop: the number of a loop, 0 for None
    loop,       \* per loop made: "running" (run_forever), "stopped", "closed"
    closing,    \* close_async_bridge: [at, loop]
    pc,         \* per thread: where it is, and its coroutine
    home,       \* per thread: the loop _get_loop gave it, 0 before
    remote,     \* per agent thread: [state, made], the truth at the other side
    view,       \* per agent thread: what _call knows of it; `beat` turns with
                \* every status event, so that one with no news is an event too
    page        \* per fetching thread: [size, hop, got, cut]

vars == <<current, loop, closing, pc, home, remote, view, page>>

-----------------------------------------------------------------------------
(* States of calls *)

Thread == Agents \cup Fetchers
Loops == 1 .. MaxLoops
Interrupted == {"input_required", "auth_required"}
Terminal == {"completed", "failed", "canceled", "rejected"}
Final == Terminal \cup Interrupted
TaskStates == {"unknown", "working"} \cup Final
OnLoop == {"connect", "stream", "poll", "request", "body"}
Ended == {"answered", "message", "raised"}

Texts(n) == [i \in 1 .. n |-> i]

TypeOK ==
    /\ current \in 0 .. MaxLoops
    /\ loop \in [Loops -> {"none", "running", "stopped", "closed"}]
    /\ closing \in [at : {"idle", "taken", "joining", "over"}, loop : 0 .. MaxLoops]
    /\ pc \in [Thread -> {"idle", "holding"} \cup OnLoop \cup Ended]
    /\ home \in [Thread -> 0 .. MaxLoops]
    /\ remote \in [Agents -> [state : TaskStates, made : 0 .. MaxArtifacts]]
    /\ view \in [Agents -> [state : TaskStates, named : BOOLEAN, polls : 0 .. MaxPolls,
                            streamed : 0 .. MaxArtifacts,
                            parts : Seq(1 .. MaxArtifacts), beat : BOOLEAN]]
    /\ page \in [Fetchers -> [size : 0 .. MaxBytes + 1, hop : 0 .. MaxRedirects,
                              got : 0 .. MaxBytes, cut : BOOLEAN]]

Init ==
    /\ current = 0
    /\ loop = [l \in Loops |-> "none"]
    /\ closing = [at |-> "idle", loop |-> 0]
    /\ pc = [t \in Thread |-> "idle"]
    /\ home = [t \in Thread |-> 0]
    /\ remote = [a \in Agents |-> [state |-> "unknown", made |-> 0]]
    /\ view = [a \in Agents |-> [state |-> "unknown", named |-> FALSE, polls |-> 0,
                                 streamed |-> 0, parts |-> <<>>, beat |-> FALSE]]
    /\ page \in [Fetchers -> [size : 0 .. MaxBytes + 1, hop : {0}, got : {0}, cut : {FALSE}]]

Goes(t, where) == pc' = [pc EXCEPT ![t] = where]
BridgeStays == UNCHANGED <<current, loop, closing, home>>

-----------------------------------------------------------------------------
(* The bridge *)

\* _get_loop, under the lock: make a loop when there is none or it is closed
GetLoop(t) ==
    /\ pc[t] = "idle"
    /\ IF current # 0 /\ loop[current] # "closed"
       THEN /\ home' = [home EXCEPT ![t] = current]
            /\ UNCHANGED <<current, loop>>
       ELSE \E l \in Loops :
              /\ loop[l] = "none" /\ \A k \in Loops : k < l => loop[k] # "none"
              /\ loop' = [loop EXCEPT ![l] = "running"]
              /\ current' = l
              /\ home' = [home EXCEPT ![t] = l]
    /\ Goes(t, "holding")
    /\ UNCHANGED <<closing, remote, view, page>>

\* run_coroutine_threadsafe: a closed loop refuses, any other takes the
\* coroutine, and the thread blocks in result()
Schedule(t) ==
    /\ pc[t] = "holding"
    /\ Goes(t, IF loop[home[t]] = "closed" THEN "raised"
               ELSE IF t \in Agents THEN "connect" ELSE "request")
    /\ UNCHANGED <<remote, view, page>>
    /\ BridgeStays

\* Mutated form of CloseTakes: the globals are left to the end of the close.
CloseTakesLate ==
    /\ closing.at = "idle" /\ current # 0
    /\ \E l \in Loops : loop[l] = "none"
    /\ closing' = [at |-> "taken", loop |-> current]
    /\ UNCHANGED <<current, loop, pc, home, remote, view, page>>

\* close_async_bridge takes the globals and clears them, under the lock
CloseTakes ==
    /\ closing.at = "idle" /\ current # 0
    /\ \E l \in Loops : loop[l] = "none"
    /\ closing' = [at |-> "taken", loop |-> current]
    /\ current' = 0
    /\ UNCHANGED <<loop, pc, home, remote, view, page>>

\* call_soon_threadsafe(loop.stop), which the loop obeys, and the join
CloseStops ==
    /\ closing.at = "taken"
    /\ loop' = [loop EXCEPT ![closing.loop] = "stopped"]
    /\ closing' = [closing EXCEPT !.at = "joining"]
    /\ UNCHANGED <<current, pc, home, remote, view, page>>

\* loop.close()
CloseEnds ==
    /\ closing.at = "joining"
    /\ loop' = [loop EXCEPT ![closing.loop] = "closed"]
    /\ closing' = [at |-> "idle", loop |-> 0]
    /\ UNCHANGED <<current, pc, home, remote, view, page>>

\* A coroutine moves only while its loop runs
Moves(t, where) ==
    /\ pc[t] = where
    /\ loop[home[t]] = "running"
    /\ BridgeStays

-----------------------------------------------------------------------------
(* The remote agent *)

OtherSide == UNCHANGED <<current, loop, closing, pc, home, view, page>>

MakesArtifact(a) ==
    /\ remote[a].state = "working" /\ remote[a].made < MaxArtifacts
    /\ remote' = [remote EXCEPT ![a].made = @ + 1]
    /\ OtherSide

EndsTask(a, s) ==
    /\ remote[a].state = "working" /\ s \in Final
    /\ remote' = [remote EXCEPT ![a].state = s]
    /\ OtherSide

-----------------------------------------------------------------------------
(* _call: the answer of a remote agent *)

\* The agent card is read and the message sent: the agent takes up the task
Connect(a) ==
    /\ Moves(a, "connect")
    /\ remote' = [remote EXCEPT ![a].state = "working"]
    /\ Goes(a, "stream")
    /\ UNCHANGED <<view, page>>

\* Any await of the coroutine may raise, a request that times out included
TransportFails(a) ==
    /\ \E where \in {"connect", "stream", "poll"} : Moves(a, where)
    /\ Goes(a, "raised")
    /\ UNCHANGED <<remote, view, page>>

\* An agent that answers with a Message: nothing else counts
StreamMessage(a) ==
    /\ Moves(a, "stream")
    /\ view[a].streamed = 0 /\ ~view[a].named /\ view[a].state = "unknown"
    /\ Goes(a, "message")
    /\ UNCHANGED <<remote, view, page>>

\* A Task opens the lifecycle, with the artifacts made so far
StreamTask(a) ==
    /\ Moves(a, "stream")
    /\ view[a].streamed = 0 /\ ~view[a].named
    /\ view' = [view EXCEPT ![a].named = TRUE,
                            ![a].state = remote[a].state,
                            ![a].streamed = remote[a].made,
                            ![a].parts = @ \o Texts(remote[a].made)]
    /\ UNCHANGED <<pc, remote, page>>

\* The next artifact
StreamArtifact(a) ==
    /\ Moves(a, "stream")
    /\ view[a].streamed < remote[a].made
    /\ view' = [view EXCEPT ![a].streamed = @ + 1,
                            ![a].parts = Append(@, view[a].streamed + 1)]
    /\ UNCHANGED <<pc, remote, page>>

\* The task's state, the last one after every artifact, as often as the agent
\* likes: `async for` has no bound, and each event sets the read timeout back.
\* An agent may leave the task's id out of what it streams.
StreamStatus(a, id) ==
    /\ Moves(a, "stream")
    /\ remote[a].state \in Final => view[a].streamed = remote[a].made
    /\ view' = [view EXCEPT ![a].state = remote[a].state, ![a].named = @ \/ id,
                            ![a].beat = ~@]
    /\ UNCHANGED <<pc, remote, page>>

\* Mutated form of MustPoll: nothing bounds the polls.
MustPollForEver(v) == v.state \notin Final /\ v.named

MustPoll(v) == v.state \notin Final /\ v.named /\ v.polls < MaxPolls

\* What _call makes of its view once it polls no more
Outcome(v) ==
    IF v.state \in Final \ {"completed"} \/ v.parts = <<>> THEN "raised" ELSE "answered"

\* The stream ends, at its end or before: when, is the agent's to say
EndStream(a) ==
    /\ Moves(a, "stream")
    /\ Goes(a, IF MustPoll(view[a]) THEN "poll" ELSE Outcome(view[a]))
    /\ UNCHANGED <<remote, view, page>>

\* Mutated forms of AfterPoll: the artifacts are added to those streamed; the
\* poll is not counted.
AfterPollAdds(a) ==
    [view[a] EXCEPT !.polls = @ + 1,
                    !.state = remote[a].state,
                    !.parts = IF remote[a].state \in Terminal
                              THEN @ \o Texts(remote[a].made) ELSE @]
AfterPollUncounted(a) ==
    [view[a] EXCEPT !.state = remote[a].state,
                    !.parts = IF remote[a].state \in Terminal
                              THEN Texts(remote[a].made) ELSE @]

\* One poll: a terminal state brings all artifacts, in place of those streamed
AfterPoll(a) ==
    [view[a] EXCEPT !.polls = @ + 1,
                    !.state = remote[a].state,
                    !.parts = IF remote[a].state \in Terminal
                              THEN Texts(remote[a].made) ELSE @]

Poll(a) ==
    /\ Moves(a, "poll")
    /\ view' = [view EXCEPT ![a] = AfterPoll(a)]
    /\ Goes(a, IF MustPoll(AfterPoll(a)) THEN "poll" ELSE Outcome(AfterPoll(a)))
    /\ UNCHANGED <<remote, page>>

-----------------------------------------------------------------------------
(* fetch_public_url *)

\* The destination is refused, or its answer is (no public address, an error
\* status, an encoded body, a redirect without a target), or the deadline of
\* timeout_at cancels whatever the coroutine awaits
FetchFails(f) ==
    /\ \E where \in {"request", "body"} : Moves(f, where)
    /\ Goes(f, "raised")
    /\ UNCHANGED <<remote, view, page>>

Redirected(f) ==
    /\ Moves(f, "request")
    /\ IF page[f].hop = MaxRedirects
       THEN Goes(f, "raised") /\ UNCHANGED page
       ELSE page' = [page EXCEPT ![f].hop = @ + 1] /\ UNCHANGED pc
    /\ UNCHANGED <<remote, view>>

GetsResponse(f) ==
    /\ Moves(f, "request")
    /\ Goes(f, "body")
    /\ UNCHANGED <<remote, view, page>>

\* The server sends a piece; the text is cut when the limit is reached
ReadsChunk(f) ==
    /\ Moves(f, "body")
    /\ page[f].got < page[f].size
    /\ LET got == page[f].got + 1
       IN /\ page' = [page EXCEPT ![f].got = got, ![f].cut = got >= MaxBytes]
          /\ Goes(f, IF got >= MaxBytes THEN "answered" ELSE "body")
    /\ UNCHANGED <<remote, view>>

ReadsEnd(f) ==
    /\ Moves(f, "body")
    /\ page[f].got = page[f].size
    /\ Goes(f, "answered")
    /\ UNCHANGED <<remote, view, page>>

-----------------------------------------------------------------------------
AgentStep(a) ==
    \/ Connect(a) \/ StreamTask(a) \/ StreamArtifact(a)
    \/ \E id \in BOOLEAN : StreamStatus(a, id)
    \/ StreamMessage(a) \/ EndStream(a) \/ Poll(a)
FetchStep(f) == Redirected(f) \/ GetsResponse(f) \/ ReadsChunk(f) \/ ReadsEnd(f)

Bridge == CloseTakes \/ CloseStops \/ CloseEnds

\* A thread whose coroutine was left on a stopped loop waits for ever
Stranded(t) == pc[t] \in OnLoop /\ loop[home[t]] \in {"stopped", "closed"}

Done ==
    /\ \A t \in Thread : pc[t] \in Ended \/ Stranded(t)
    /\ UNCHANGED vars

Next ==
    \/ \E t \in Thread : GetLoop(t) \/ Schedule(t)
    \/ \E a \in Agents : AgentStep(a) \/ TransportFails(a) \/ MakesArtifact(a)
    \/ \E a \in Agents, s \in Final : EndsTask(a, s)
    \/ \E f \in Fetchers : FetchStep(f) \/ FetchFails(f)
    \/ Bridge
    \/ Done

\* The loop is fair to the coroutines it runs, and every single await ends: each
\* request and each read of the stream has a timeout, the fetch one deadline.
\* That is all: a remote agent need not finish, nor end its stream, whose next
\* event StreamStatus can always be, and a close need not go on.
Spec ==
    /\ Init /\ [][Next]_vars
    /\ \A t \in Thread : WF_vars(Schedule(t))
    /\ \A a \in Agents : WF_vars(AgentStep(a))
    /\ \A f \in Fetchers : WF_vars(FetchStep(f) \/ FetchFails(f))

-----------------------------------------------------------------------------
(* Properties *)

\* What a department gets for an answer is the remote agent's: its artifacts in
\* order, none twice, however they came (with the task, streamed, polled).  They
\* are all of a task that was completed, and never those of a task that failed
\* or waits, unless the agent named no task to ask for or the polls ran out
\* (a2a_client.py:67-113).  A page not marked truncated is the whole page.
AnswerWhole ==
    /\ \A a \in Agents : pc[a] = "answered" =>
          /\ IsPrefix(view[a].parts, Texts(remote[a].made))
          /\ \/ remote[a].state = "completed" /\ Len(view[a].parts) = remote[a].made
             \/ view[a].state \notin Final /\ (view[a].named => view[a].polls = MaxPolls)
    /\ \A f \in Fetchers : pc[f] = "answered" /\ ~page[f].cut => page[f].got = page[f].size

\* The loop that _get_loop would hand out now is one that runs, at every moment of
\* a close too: a call made after a close has begun is never lost to it
\* (async_bridge.py:24-72).
BridgeAlive == current # 0 => loop[current] = "running"

\* The agent lets go of the stream, or the connection does.
StreamEnds(a) == pc[a] = "stream" ~> pc[a] # "stream" \/ Stranded(a)

Returns(t) == pc[t] = "holding" ~> pc[t] \in Ended \/ Stranded(t)

\* run_sync comes back to its caller, with an answer or an exception, unless
\* close_async_bridge took the very loop the call had been given: from a fetch
\* always, and from a remote agent whose stream ends, however long the agent goes
\* on working after that.  The timeout a call is given bounds each request of it;
\* an agent that streams for ever keeps its caller for ever
\* (async_bridge.py:49-72, a2a_client.py:67, 91-99).
CallEnds ==
    /\ \A f \in Fetchers : Returns(f)
    /\ \A a \in Agents : StreamEnds(a) => Returns(a)

=============================================================================
