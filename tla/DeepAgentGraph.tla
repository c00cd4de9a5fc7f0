--------------------------- MODULE DeepAgentGraph ---------------------------
(***************************************************************************)
(* One browser session: its page, its conversation thread, and the runs of *)
(* the compiled graph                                                      *)
(*                                                                         *)
(*    START -> orchestrator -> subagent_fanout -> responder -> END         *)
(*                        \->            responder ->/                     *)
(*                                                                         *)
(* A run starts from the thread's newest checkpoint, keeps the channels of *)
(* AgentState to itself and saves them after each node; the script that    *)
(* drives it then shows the node's update on the page.  A rerun of the     *)
(* page stops the script at its next call of the user interface: the node  *)
(* that is running still ends and saves, perhaps after the next prompt has *)
(* been sent.  Each datum carries the turn that produced it, so that a     *)
(* leftover of another turn can be told from this turn's own.              *)
(*                                                                         *)
(* The fanout node is one step here; SubAgentEngine is its inside.         *)
(***************************************************************************)
EXTENDS Naturals, Sequences, FiniteSets, Functions, SequencesExt

CONSTANTS
    Dept,        \* names a router reply may contain, invented ones included
    General,     \* _FALLBACK_DEPARTMENT
    MaxTurns,    \* bound: prompts submitted on the page
    MaxNamed,    \* bound: names in one router reply
    MaxWrites,   \* bound: write operations of one fanout
    MaxChanges   \* bound: refreshes that find other departments on disk

ASSUME GraphAssumption ==
    /\ General \in Dept
    /\ MaxTurns \in Nat /\ MaxNamed \in Nat
    /\ MaxWrites \in Nat /\ MaxChanges \in Nat

Turns == 1..MaxTurns

\* Router replies _parse_dispatcher_output accepts: a JSON object, bare or
\* inside other text (a markdown fence), whose departments value is a list;
\* enhanced_query is a string, something falsy or absent, a number or object,
\* or a list.
Envelope == [form : {"bare", "wrapped"},
             query : {"text", "falsy", "scalar", "list"},
             departments : BoundedSeq(Dept, MaxNamed)]
\* Replies it makes nothing of: text, or nothing but white space.
Unusable == [form : {"prose", "blank"}]
Reply == Envelope \cup Unusable

\* What ends up in enhanced_query: a string (the model's, or else the raw
\* reply), the model's list, or nothing.
Query == {"text", "list", "none"}

NoMessage == [turn |-> 0, form |-> "none"]
NoResults == [turn |-> 0, depts |-> {}]

\* AgentState of a thread nobody has written to.
NoChannels ==
    [messages |-> <<>>, next_message |-> NoMessage,
     pending_writes |-> <<>>, audit_log |-> <<>>,
     enhanced_query |-> [turn |-> 0, kind |-> "none", prompt |-> 0],
     department_targets |-> <<>>, subagent_results |-> NoResults]

Nodes == {"orchestrator", "subagent_fanout", "responder"}

VARIABLES
    turn,        \* prompts submitted so far
    script,      \* of each turn: "none", "live", "stopped", "done"
    node,        \* of each turn's run: "unsent", the node that runs or is to
                 \* run next, "over"
    unseen,      \* of each turn: what its script has yet to show, in order
    chan,        \* of each turn's run, while it lasts: its AgentState
    thread,      \* AgentState in the thread's newest checkpoint
    saver,       \* history: the run that saved it
    forked,      \* history: a run started from an overtaken checkpoint
    screen,      \* st.session_state: messages, audit_log
    registered,  \* keys of SUBAGENTS
    changes      \* of registered, so far

world == <<registered, changes>>
vars == <<turn, script, node, unseen, chan, thread, saver, forked, screen, world>>

\* The last prompt that has reached the graph, 0 if none has.
Newest == Max({0} \cup {t \in Turns : node[t] # "unsent"})

-----------------------------------------------------------------------------
\* subagents.list_departments: the names of SUBAGENTS.
Roster == registered

\* _validate_departments: known names, each once, in order.
Validated(names) ==
    LET kept[n \in 0..Len(names)] ==
            IF n = 0 THEN <<>>
            ELSE IF names[n] \in Roster /\ names[n] \notin Range(kept[n - 1])
            THEN Append(kept[n - 1], names[n])
            ELSE kept[n - 1]
    IN  kept[Len(names)]

\* call_orchestrator falls back to `general` when nothing usable is left.
Targets(reply) ==
    LET valid == IF reply \in Envelope THEN Validated(reply.departments) ELSE <<>>
    IN  IF valid = <<>> THEN <<General>> ELSE valid

QueryOf(reply) ==
    IF reply.form = "blank" THEN "none"
    ELSE IF reply \in Envelope /\ reply.query = "list" THEN "list"
    ELSE "text"

\* Formatting the log line slices the query: a number or an object raises.
\* A list does not.
RouterChokes(reply) == reply \in Envelope /\ reply.query = "scalar"

\* The router reads its window from the thread, not from its own state: the
\* last prompt it finds there.
PromptInWindow ==
    thread.messages[Max({i \in DOMAIN thread.messages : thread.messages[i].type = "human"})].turn

\* route_after_orchestrator; the last message is this turn's prompt, so
\* _has_tool_calls is false.
RouteAfterOrchestrator(targets) ==
    IF targets # <<>> THEN "subagent_fanout" ELSE "responder"

\* Departments of the fanout that still exist.
Resolved(t) == Range(chan[t].department_targets) \cap registered

\* verify() lowercases the query of the results it checks.
VerifyChokes(t) ==
    chan[t].subagent_results.depts # {} /\ chan[t].enhanced_query.kind = "list"

\* Mutated form of AnswerOf: the reply is shown unless it is blank.
AnswerOfAnyReply(t) ==
    IF chan[t].subagent_results.depts # {}
    THEN [source |-> "departments", basis |-> chan[t].subagent_results.turn]
    ELSE IF chan[t].next_message.form \in {"none", "blank"}
    THEN [source |-> "fallback", basis |-> t]
    ELSE [source |-> chan[t].next_message.form,
          basis |-> chan[t].next_message.turn]

\* _responder_node: where the answer comes from, and which turn's data it is
\* made of.
AnswerOf(t) ==
    LET query == chan[t].enhanced_query
        reply == chan[t].next_message
        results == chan[t].subagent_results
        fallback == [source |-> "fallback",
                     basis |-> IF query.kind = "none" THEN t ELSE query.turn]
    IN  IF results.depts # {}
        THEN [source |-> "departments", basis |-> results.turn]
        ELSE IF reply.form \in {"none", "bare", "blank"} THEN fallback
        ELSE [source |-> reply.form, basis |-> reply.turn]

-----------------------------------------------------------------------------
Prompt(t) == [type |-> "human", turn |-> t]
Answer(t) == [type |-> "ai", turn |-> t,
              source |-> AnswerOf(t).source, basis |-> AnswerOf(t).basis]

\* What the script shows of an update: that the node ran, its audit entries,
\* the final message.
NodeItem == [what |-> "node"]
AuditItem(writes) == [what |-> "audit", writes |-> writes]
AnswerItem(message) == [what |-> "answer", message |-> message]

Init ==
    /\ turn = 0
    /\ script = [t \in Turns |-> "none"]
    /\ node = [t \in Turns |-> "unsent"]
    /\ unseen = [t \in Turns |-> <<>>]
    /\ chan = [t \in Turns |-> NoChannels]
    /\ thread = NoChannels /\ saver = 0
    /\ forked = FALSE
    /\ screen = [messages |-> <<>>, audit_log |-> <<>>]
    /\ registered = Dept        \* any other registry is one refresh away
    /\ changes = 0

\* A prompt is entered: no script is at work, or the rerun has stopped it.
Submit ==
    /\ turn < MaxTurns
    /\ turn > 0 => script[turn] # "live"
    /\ turn' = turn + 1
    /\ screen' = [screen EXCEPT !.messages = Append(@, Prompt(turn'))]
    /\ script' = [script EXCEPT ![turn'] = "live"]
    /\ unseen' = [unseen EXCEPT ![turn'] = <<NodeItem>>]
    /\ UNCHANGED <<node, chan, thread, saver, forked, world>>

\* agent.stream sends only the new HumanMessage; the rest of the state is the
\* thread's.
Send(t) ==
    /\ script[t] = "live" /\ node[t] = "unsent" /\ unseen[t] = <<>>
    /\ thread' = [thread EXCEPT !.messages = Append(@, Prompt(t))]
    /\ chan' = [chan EXCEPT ![t] = thread']
    /\ forked' = (forked \/ saver # Newest)
    /\ saver' = t
    /\ node' = [node EXCEPT ![t] = "orchestrator"]
    /\ UNCHANGED <<turn, script, unseen, screen, world>>

\* The update of the last node has been shown: n runs.
Runs(t, n) == node[t] = n /\ unseen[t] = <<>>

\* A node's update is saved before it reaches the script.
Saves(t, update, next, items) ==
    /\ thread' = update
    /\ chan' = [chan EXCEPT ![t] = IF next = "over" THEN NoChannels ELSE update]
    /\ saver' = t
    /\ node' = [node EXCEPT ![t] = next]
    /\ unseen' = [unseen EXCEPT ![t] = <<NodeItem>> \o items]
    /\ UNCHANGED <<turn, script, forked, screen, world>>

Orchestrator(t, reply) ==
    /\ Runs(t, "orchestrator") /\ ~RouterChokes(reply)
    /\ Saves(t, [chan[t] EXCEPT
                    !.next_message = [turn |-> t, form |-> reply.form],
                    !.enhanced_query = [turn |-> t, kind |-> QueryOf(reply),
                                        prompt |-> PromptInWindow],
                    !.department_targets = Targets(reply)],
             RouteAfterOrchestrator(Targets(reply)), <<>>)

\* A node raises: nothing of its update is kept, the earlier nodes' updates
\* are; the script, if it still runs, reports the exception.
TurnFails(t) ==
    /\ node' = [node EXCEPT ![t] = "over"]
    /\ chan' = [chan EXCEPT ![t] = NoChannels]
    /\ UNCHANGED <<turn, script, unseen, thread, saver, forked, screen, world>>

\* The model call failed, transiently once too often or for good.
RouterUnreachable(t) == Runs(t, "orchestrator") /\ TurnFails(t)

RouterReplyRaises(t, reply) ==
    /\ Runs(t, "orchestrator") /\ RouterChokes(reply)
    /\ TurnFails(t)

\* Mutated form of FanoutNoneResolved: an update without the channel.
FanoutNoneUpdates(t) ==
    /\ Runs(t, "subagent_fanout") /\ Resolved(t) = {}
    /\ Saves(t, chan[t], "responder", <<>>)

\* No target exists any more: the result is emptied, nothing else.
FanoutNoneResolved(t) ==
    /\ Runs(t, "subagent_fanout") /\ Resolved(t) = {}
    /\ Saves(t, [chan[t] EXCEPT !.subagent_results = [turn |-> t, depts |-> {}]],
             "responder", <<>>)

\* Mutated form of Fanout: this turn's writes replace the earlier ones.
FanoutReplacesWrites(t, writes) ==
    /\ Runs(t, "subagent_fanout") /\ Resolved(t) # {}
    /\ LET audit == IF writes = <<>> THEN <<>> ELSE <<writes>>
       IN  Saves(t, [chan[t] EXCEPT
                        !.subagent_results = [turn |-> t, depts |-> Resolved(t)],
                        !.pending_writes = writes,
                        !.audit_log = @ \o audit],
                 "responder",
                 IF writes = <<>> THEN <<>> ELSE <<AuditItem(audit)>>)

\* Every resolved department has an entry, an answer or an error text; the
\* writes of those that answered are folded in, and so is their spend, which
\* is left to SubAgentEngine.
Fanout(t, writes) ==
    /\ Runs(t, "subagent_fanout") /\ Resolved(t) # {}
    /\ LET audit == IF writes = <<>> THEN <<>> ELSE <<writes>>
       IN  Saves(t, [chan[t] EXCEPT
                        !.subagent_results = [turn |-> t, depts |-> Resolved(t)],
                        !.pending_writes = @ \o writes,
                        !.audit_log = @ \o audit],
                 "responder",
                 IF writes = <<>> THEN <<>> ELSE <<AuditItem(audit)>>)

\* A recorded path that is not a string: the departments' work is lost.
FanoutRaises(t) ==
    /\ Runs(t, "subagent_fanout") /\ Resolved(t) # {}
    /\ TurnFails(t)

\* The answer is appended and the staging channels are cleared.
Responder(t) ==
    /\ Runs(t, "responder") /\ ~VerifyChokes(t)
    /\ Saves(t, [chan[t] EXCEPT !.messages = Append(@, Answer(t)),
                                !.subagent_results = NoResults,
                                !.next_message = NoMessage],
             "over", <<AnswerItem(Answer(t))>>)

\* Mutated form of ResponderRaises: the node is run again and again.
ResponderRetried(t) ==
    /\ Runs(t, "responder") /\ VerifyChokes(t)
    /\ saver' = t /\ forked' = ~forked
    /\ UNCHANGED <<turn, script, node, unseen, chan, thread, screen, world>>

ResponderRaises(t) == Runs(t, "responder") /\ VerifyChokes(t) /\ TurnFails(t)

-----------------------------------------------------------------------------
\* The script's loop over the stream.  The final message waits in
\* turn_messages until the stream has ended.
Show(t) ==
    /\ script[t] = "live"
    /\ unseen[t] # <<>> /\ Head(unseen[t]).what # "answer"
    /\ unseen' = [unseen EXCEPT ![t] = Tail(@)]
    /\ LET item == Head(unseen[t])
       IN  screen' = CASE item.what = "node" -> screen
                       [] item.what = "audit" ->
                              [screen EXCEPT !.audit_log = @ \o item.writes]
    /\ UNCHANGED <<turn, script, node, chan, thread, saver, forked, world>>

\* What is left once the stream has ended or a node has raised.
TurnMessages(t) == [i \in DOMAIN unseen[t] |-> unseen[t][i].message]

StreamOver(t) ==
    /\ node[t] = "over"
    /\ \A i \in DOMAIN unseen[t] : unseen[t][i].what = "answer"

\* Mutated form of Persist: a script that was told to stop goes on.
PersistAnyway(t) ==
    /\ script[t] \in {"live", "stopped"} /\ StreamOver(t)
    /\ screen' = [screen EXCEPT !.messages = @ \o TurnMessages(t)]
    /\ script' = [script EXCEPT ![t] = "done"]
    /\ unseen' = [unseen EXCEPT ![t] = <<>>]
    /\ UNCHANGED <<turn, node, chan, thread, saver, forked, world>>

\* turn_messages go to the page's history, and the page is drawn again.
Persist(t) ==
    /\ script[t] = "live" /\ StreamOver(t)
    /\ screen' = [screen EXCEPT !.messages = @ \o TurnMessages(t)]
    /\ script' = [script EXCEPT ![t] = "done"]
    /\ unseen' = [unseen EXCEPT ![t] = <<>>]
    /\ UNCHANGED <<turn, node, chan, thread, saver, forked, world>>

\* Something on the page asks for a rerun, or the page goes away.
Rerun ==
    /\ turn > 0 /\ script[turn] = "live"
    /\ script' = [script EXCEPT ![turn] = "stopped"]
    /\ UNCHANGED <<turn, node, unseen, chan, thread, saver, forked, screen, world>>

\* A stopped script reaches a call of the user interface: the stream is
\* closed, nothing more of it is shown, and no further node runs.
Abandon(t) ==
    /\ script[t] = "stopped" /\ unseen[t] # <<>>
    /\ node' = [node EXCEPT ![t] = IF @ = "unsent" THEN @ ELSE "over"]
    /\ chan' = [chan EXCEPT ![t] = NoChannels]
    /\ unseen' = [unseen EXCEPT ![t] = <<>>]
    /\ UNCHANGED <<turn, script, thread, saver, forked, screen, world>>

\* reset_deep_agent() -> refresh_subagents(), from any thread, after the
\* departments on disk have changed.
Refresh ==
    /\ changes < MaxChanges
    /\ registered' \in SUBSET Dept \ {registered}
    /\ changes' = changes + 1
    /\ UNCHANGED <<turn, script, node, unseen, chan, thread, saver, forked,
                   screen>>

\* Write operations of one fanout, in the order they are folded.
Writes(t) == BoundedSeq({t}, MaxWrites)

\* The node that runs stands in front of its choices: TLC enumerates no reply
\* and no writes for a turn that is elsewhere.
GraphStep(t) ==
    \/ /\ Runs(t, "orchestrator")
       /\ \E reply \in Reply :
             Orchestrator(t, reply) \/ RouterReplyRaises(t, reply)
    \/ RouterUnreachable(t)
    \/ FanoutNoneResolved(t)
    \/ /\ Runs(t, "subagent_fanout")
       /\ \E writes \in Writes(t) : Fanout(t, writes)
    \/ FanoutRaises(t)
    \/ Responder(t) \/ ResponderRaises(t)

ScriptStep(t) == Send(t) \/ Show(t) \/ Persist(t) \/ Abandon(t)

\* The user may have no more prompts.
Done == turn = MaxTurns /\ UNCHANGED vars

Next ==
    \/ Submit \/ Rerun
    \/ \E t \in Turns : GraphStep(t) \/ ScriptStep(t)
    \/ Refresh \/ Done

\* A node that has been started ends (SubAgentEngine: FanoutEnds), and the
\* script's thread is not starved.
Spec ==
    /\ Init /\ [][Next]_vars
    /\ \A t \in Turns : WF_vars(GraphStep(t)) /\ WF_vars(ScriptStep(t))

-----------------------------------------------------------------------------
(* Properties                                                              *)

Prompts == [type : {"human"}, turn : Turns]
Answers == [type : {"ai"}, turn : Turns, basis : 0..MaxTurns,
            source : {"departments", "fallback", "wrapped", "prose"}]

Channels ==
    [messages : Seq(Prompts \cup Answers),
     next_message : [turn : 0..MaxTurns,
                     form : {"none", "bare", "wrapped", "prose", "blank"}],
     pending_writes : Seq(Turns),
     audit_log : Seq(Seq(Turns)),
     enhanced_query : [turn : 0..MaxTurns, kind : Query, prompt : 0..MaxTurns],
     department_targets : Seq(Dept),
     subagent_results : [turn : 0..MaxTurns, depts : SUBSET Dept]]

\* Every variable keeps its type.
TypeOK ==
    /\ turn \in 0..MaxTurns /\ saver \in 0..MaxTurns /\ forked \in BOOLEAN
    /\ script \in [Turns -> {"none", "live", "stopped", "done"}]
    /\ node \in [Turns -> {"unsent", "over"} \cup Nodes]
    /\ thread \in Channels /\ chan \in [Turns -> Channels]
    /\ screen \in [messages : Seq(Prompts \cup Answers),
                   audit_log : Seq(Seq(Turns))]
    /\ registered \subseteq Dept /\ changes \in 0..MaxChanges

\* Every answer stands right after its own turn's prompt and is made of that
\* turn's data, on the page and in the thread's history, whatever turns that
\* raised, were abandoned or still run have left in the channels.
OwnAnswer ==
    \A log \in {screen.messages, thread.messages} :
        \A i \in DOMAIN log :
            log[i].type = "ai" =>
                /\ log[i].basis = log[i].turn
                /\ i > 1 /\ log[i - 1] = Prompt(log[i].turn)

\* How often x stands in a list.
Copies(list, x) == Cardinality({i \in DOMAIN list : list[i] = x})

\* As long as no run has saved over a newer one, the page and the thread tell
\* the same story: a turn that was shown to its end has the same answer, the
\* same writes on the page and in the channels, and of an abandoned turn the
\* page shows all writes the thread holds, or none.  A write is its turn.
ScreenIsThread ==
    saver = Newest /\ ~forked =>
        \A t \in Turns :
               LET shown == Copies(FlattenSeq(screen.audit_log), t)
                   held  == Copies(thread.pending_writes, t)
               IN  /\ shown \in {0, held}
                   /\ Copies(FlattenSeq(thread.audit_log), t) = held
                   /\ script[t] = "done" =>
                          /\ shown = held
                          /\ \A m \in Answers : m.turn = t =>
                                Copies(screen.messages, m) = Copies(thread.messages, m)

\* Every prompt's script and run come to an end, answered or not.
TurnEnds ==
    \A t \in Turns :
        (script[t] = "live" \/ node[t] \in Nodes)
            ~> (script[t] \in {"stopped", "done"} /\ node[t] \notin Nodes)

\* The page behaves as the conversation the user should see: an abandoned
\* turn's answer never turns up later.
Talk == INSTANCE Conversation WITH
    log <- [i \in DOMAIN screen.messages |-> screen.messages[i].type],
    open <- turn > 0 /\ script[turn] = "live"

MeetsConversation == Talk!Spec

(* What the repository says of the program and the code does not do        *)

\* call_orchestrator: get_window "returns the real conversation -- including
\* the current turn's user message".
RouterSeesPrompt ==
    \A t \in Turns :
        chan[t].enhanced_query.turn = t => chan[t].enhanced_query.prompt = t
=============================================================================
