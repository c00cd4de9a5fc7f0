------------------------------ MODULE ToolLoop ------------------------------
(***************************************************************************)
(* subagents.run_department: the thread of one department.  Its tools are  *)
(* selected, with the model's help when there are too many; then comes     *)
(* run_tool_loop, the ReAct loop.  The model                               *)
(* is asked, the tool calls of its reply are executed one after the other  *)
(* through ToolRegistry.dispatch, and it is asked again, until a reply has *)
(* no tool calls or the iteration budget is spent.  Model and tools go     *)
(* through utils.invoke_with_retry.                                        *)
(***************************************************************************)
EXTENDS Naturals, Sequences, FiniteSets, Functions, SequencesExt

CONSTANTS
    Names,          \* tool names a model reply may call
    Bound,          \* names of the tools bound to the model (tool_map)
    Files,          \* "write_file" and "edit_file"
    MaxIterations,  \* AGENT_MAX_ITERATIONS
    MaxRetries,     \* max_retries of invoke_with_retry
    MaxToolCalls    \* bound: tool calls in one reply

ASSUME ToolLoopAssumption ==
    /\ Bound \subseteq Names
    /\ Files \subseteq Names
    /\ MaxIterations \in Nat
    /\ MaxRetries \in Nat \ {0}
    /\ MaxToolCalls \in Nat

\* A payload the tool's schema accepts; one it refuses; a refused one whose
\* `path` is not a string (only looked at for write operations).  Nobody looks
\* at the payload for a tool that is neither bound nor a file tool.
Args == {"valid", "refused", "malformed"}
Call == {c \in [name : Names, args : Args] :
            /\ c.args = "malformed" => c.name \in Files
            /\ c.name \notin Bound \cup Files => c.args = "valid"}

\* Text content of a reply: something to say, or only white space.
Text == {"text", "blank"}

VARIABLES
    pc,         \* "select", "model", "calls", "invoke", "returned", "raised"
    messages,   \* after the prompt: replies and tool messages, in order
    reply,      \* response: the place of the last reply in messages; 0 before
    usage,      \* replies in the usage returned
    paid,       \* replies paid for
    write_ops,  \* write operations recorded, by call id
    effects,    \* calls whose tool took effect outside, by call id, in order
    turns,      \* iterations of the for loop begun
    next,       \* the tool call of the reply being looked at
    attempt,    \* failed attempts of the invocation under way
    final       \* the text returned

vars == <<pc, messages, reply, usage, paid, write_ops, effects, turns, next, attempt,
          final>>

-----------------------------------------------------------------------------
Current == messages[reply]
Id == <<reply, next>>              \* tool_call["id"]
TheCall == Current.calls[next]
CallOf(id) == messages[id[1]].calls[id[2]]

\* write_ops.append happens before anything is executed.
Record == write_ops' = IF TheCall.name \in Files THEN Append(write_ops, Id)
                       ELSE write_ops

\* What the message says, a result or an error, decides nothing in the loop.
ToolMessage == [type |-> "tool", id |-> Id]

\* Mutated form of Answer: the index runs on past the last call.
AnswerRunsOn ==
    /\ messages' = Append(messages, ToolMessage)
    /\ attempt' = 0
    /\ next' = next + 1
    /\ pc' = IF next < Len(Current.calls) THEN "calls" ELSE "model"

\* The call is answered with a ToolMessage and the loop goes on with the next
\* one, or asks the model again.
Answer ==
    /\ messages' = Append(messages, ToolMessage)
    /\ attempt' = 0
    /\ IF next < Len(Current.calls)
       THEN next' = next + 1 /\ pc' = "calls"
       ELSE next' = 0 /\ pc' = "model"

\* Mutated forms: one attempt too many; the count starts over.
MayRetryOnceMore == attempt < MaxRetries
RetryStartsOver == attempt' = 1 - attempt /\ UNCHANGED <<pc, next, messages>>

\* invoke_with_retry: another attempt after a failure that looks transient.
MayRetry == attempt < MaxRetries - 1
Retry == attempt' = attempt + 1 /\ UNCHANGED <<pc, next, messages>>

-----------------------------------------------------------------------------
Init ==
    /\ pc = "select"
    /\ messages = <<>> /\ reply = 0
    /\ usage = 0 /\ paid = 0
    /\ write_ops = <<>>
    /\ effects = <<>>
    /\ turns = 0
    /\ next = 0
    /\ attempt = 0
    /\ final = "none"

\* More allowed tools than MAX_SHORTLISTED_TOOLS: sort_tools asks the model
\* which to bind, and keeps the names it finds in the reply, never its usage.
\* Nothing is paid when they are few enough or the sorter cannot be reached.
SelectTools ==
    /\ pc = "select"
    /\ paid' \in {0, 1}
    /\ pc' = "model"
    /\ UNCHANGED <<messages, reply, usage, write_ops, effects, turns, next,
                   attempt, final>>

\* The model's reply: the answer when it calls no tool.
ModelReplies ==
    /\ pc = "model" /\ turns < MaxIterations
    /\ \E text \in Text, cs \in BoundedSeq(Call, MaxToolCalls) :
          /\ messages' = Append(messages, [type |-> "ai", calls |-> cs, text |-> text])
          /\ IF cs = <<>>
             THEN pc' = "returned" /\ final' = text /\ next' = 0
             ELSE pc' = "calls" /\ final' = final /\ next' = 1
    /\ reply' = Len(messages) + 1
    /\ turns' = turns + 1
    /\ usage' = usage + 1 /\ paid' = paid + 1
    /\ attempt' = 0
    /\ UNCHANGED <<write_ops, effects>>

ModelFailsTransiently ==
    /\ pc = "model" /\ turns < MaxIterations /\ MayRetry
    /\ Retry
    /\ UNCHANGED <<reply, usage, paid, write_ops, effects, turns, final>>

\* A failure that is not retried leaves run_tool_loop with an exception.
ModelFails ==
    /\ pc = "model" /\ turns < MaxIterations
    /\ pc' = "raised"
    /\ UNCHANGED <<messages, reply, usage, paid, write_ops, effects, turns, next,
                   attempt, final>>

\* Mutated form of CallUnknownTool: the call is skipped, not answered.
CallUnknownSkipped ==
    /\ pc = "calls" /\ TheCall.name \notin Bound
    /\ Record
    /\ IF next < Len(Current.calls)
       THEN next' = next + 1 /\ pc' = "calls"
       ELSE next' = 0 /\ pc' = "model"
    /\ UNCHANGED <<messages, reply, usage, paid, effects, turns, attempt, final>>

CallUnknownTool ==
    /\ pc = "calls" /\ TheCall.name \notin Bound
    /\ Record
    /\ Answer
    /\ UNCHANGED <<reply, usage, paid, effects, turns, final>>

CallBoundTool ==
    /\ pc = "calls" /\ TheCall.name \in Bound
    /\ Record
    /\ pc' = "invoke"
    /\ UNCHANGED <<messages, reply, usage, paid, effects, turns, next, attempt,
                   final>>

\* The schema check raises ValueError.  is_transient_error looks for its
\* markers ("timeout", "connection", "500"...) in the whole message, field
\* names and limits included, so a refusal may be taken for a transient
\* failure.
ToolRefuses ==
    /\ pc = "invoke" /\ TheCall.args # "valid"
    /\ Answer
    /\ UNCHANGED <<reply, usage, paid, write_ops, effects, turns, final>>

\* Mutated form of ToolRefusalRetried: the whole call is gone through again.
ToolRefusalRecalled ==
    /\ pc = "invoke" /\ TheCall.args # "valid" /\ MayRetry
    /\ attempt' = attempt + 1 /\ pc' = "calls"
    /\ UNCHANGED <<messages, reply, next, usage, paid, write_ops, effects, turns,
                   final>>

ToolRefusalRetried ==
    /\ pc = "invoke" /\ TheCall.args # "valid" /\ MayRetry
    /\ Retry
    /\ UNCHANGED <<reply, usage, paid, write_ops, effects, turns, final>>

\* The tool returns.  write_file and edit_file never raise: they return an
\* error text when nothing was changed.
ToolReturns ==
    /\ pc = "invoke" /\ TheCall.args = "valid"
    /\ \E done \in BOOLEAN :
          effects' = IF done THEN Append(effects, Id) ELSE effects
    /\ Answer
    /\ UNCHANGED <<reply, usage, paid, write_ops, turns, final>>

\* Any other tool (MCP, A2A, a file of tools/) may raise, before or after it
\* took effect; a transient error is retried, the effect is not undone.
ToolRaises(last) ==
    /\ pc = "invoke" /\ TheCall.args = "valid" /\ TheCall.name \notin Files
    /\ \E done \in BOOLEAN :
          effects' = IF done THEN Append(effects, Id) ELSE effects
    /\ IF last THEN Answer ELSE MayRetry /\ Retry
    /\ UNCHANGED <<reply, usage, paid, write_ops, turns, final>>

\* Mutated form of Exhausted: an empty write_ops list beside the report.
ExhaustedForgets ==
    /\ pc = "model" /\ turns = MaxIterations
    /\ final' = "report" /\ pc' = "returned"
    /\ write_ops' = <<>>
    /\ UNCHANGED <<messages, reply, usage, paid, effects, turns, next, attempt>>

\* Budget exhausted: the last reply's text, or a report when it has none.
Exhausted ==
    /\ pc = "model" /\ turns = MaxIterations
    /\ IF reply # 0 /\ Current.text = "text"
       THEN final' = "text" /\ pc' = "returned"
       ELSE /\ \A i \in DOMAIN write_ops : CallOf(write_ops[i]).args # "malformed"
            /\ final' = "report" /\ pc' = "returned"
    /\ UNCHANGED <<messages, reply, usage, paid, write_ops, effects, turns, next,
                   attempt>>

\* The report joins the recorded paths; a path that is not a string makes the
\* join raise TypeError.
ExhaustedRaises ==
    /\ pc = "model" /\ turns = MaxIterations
    /\ reply # 0 /\ Current.text = "blank"
    /\ \E i \in DOMAIN write_ops : CallOf(write_ops[i]).args = "malformed"
    /\ pc' = "raised"
    /\ UNCHANGED <<messages, reply, usage, paid, write_ops, effects, turns, next,
                   attempt, final>>

Done == pc \in {"returned", "raised"} /\ UNCHANGED vars

Next ==
    \/ SelectTools
    \/ ModelReplies \/ ModelFailsTransiently \/ ModelFails
    \/ CallUnknownTool \/ CallBoundTool
    \/ ToolRefuses \/ ToolRefusalRetried \/ ToolReturns
    \/ \E last \in BOOLEAN : ToolRaises(last)
    \/ Exhausted \/ ExhaustedRaises
    \/ Done

\* Every model call and every tool call ends, one way or the other.
Spec == Init /\ [][Next]_vars /\ WF_vars(Next)

-----------------------------------------------------------------------------
(* Properties                                                              *)

Message ==
    [type : {"ai"}, calls : BoundedSeq(Call, MaxToolCalls), text : Text]
    \cup [type : {"tool"}, id : Nat \X Nat]

\* Every variable keeps its type.
TypeOK ==
    /\ pc \in {"select", "model", "calls", "invoke", "returned", "raised"}
    /\ messages \in Seq(Message) /\ reply \in 0..Len(messages)
    /\ usage \in Nat /\ paid \in Nat
    /\ write_ops \in Seq(Nat \X Nat) /\ effects \in Seq(Nat \X Nat)
    /\ turns \in 0..MaxIterations
    /\ next \in 0..MaxToolCalls
    /\ attempt \in 0..MaxRetries - 1
    /\ final \in Text \cup {"none", "report"}

Replies == {i \in DOMAIN messages : messages[i].type = "ai"}

\* The message at i + k answers call k of the reply at i.
Answers(i, k) == messages[i + k].type = "tool" /\ messages[i + k].id = <<i, k>>

\* Whenever the model is asked or an answer is returned, each tool call of
\* each earlier reply has exactly one tool message, right behind the reply and
\* in call order: the transcript a provider accepts.
TranscriptPaired ==
    pc \in {"model", "returned"} =>
        \A i \in Replies :
            LET n == Len(messages[i].calls)
            IN  /\ i + n <= Len(messages) /\ \A k \in 1..n : Answers(i, k)
                /\ i + n < Len(messages) => i + n + 1 \in Replies

\* How many calls of the reply at i the loop has looked at
Reached(i) == IF i # reply \/ pc \notin {"calls", "invoke"} THEN Len(messages[i].calls)
              ELSE IF pc = "invoke" THEN next ELSE next - 1
ReachedIds == UNION {{i} \X (1..Reached(i)) : i \in Replies}

\* The audit lists each write_file / edit_file call once, in the order of the
\* calls, from before its execution on: retries add nothing, failures remove
\* nothing.
AuditMatchesCalls ==
    /\ Range(write_ops) = {id \in ReachedIds : CallOf(id).name \in Files}
    /\ \A i, j \in DOMAIN write_ops : i < j =>
          LET one == write_ops[i]
              two == write_ops[j]
          IN  one[1] < two[1] \/ (one[1] = two[1] /\ one[2] < two[2])

Times(id) == Cardinality({i \in DOMAIN effects : effects[i] = id})

\* A tool call takes effect at most MaxRetries times, and a file write at most
\* once, however many attempts fail.
EffectsBounded ==
    \A id \in Range(effects) :
        /\ Times(id) <= MaxRetries
        /\ CallOf(id).name \in Files => Times(id) = 1

\* The loop ends: budget and retries are both bounded.
LoopEnds == <>(pc \in {"returned", "raised"})

\* It is the department thread SubAgentEngine assumes.
Run == INSTANCE DepartmentRun WITH
    status <- IF pc \in {"returned", "raised"} THEN pc ELSE "busy",
    paid <- paid,
    spent <- usage,
    recorded <- Len(write_ops)

MeetsRun == Run!Spec
=============================================================================
