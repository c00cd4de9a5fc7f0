------------------------- MODULE DeepAgentGraph_proofs -------------------------
(***************************************************************************)
(* What one browser session promises, for any departments, number of       *)
(* prompts, router replies, reruns and refreshes: an answer stands right   *)
(* behind its own prompt and is made of its own turn's data, the page      *)
(* behaves as a conversation, and until a run has saved over a newer one   *)
(* the page and the thread tell the same of every turn.  And what the      *)
(* memory of a thread promises, for any calls, windows and order of ids:   *)
(* a single writer reads back what it wrote, and a window keeps its pairs, *)
(* its size and its past.                                                  *)
(***************************************************************************)
EXTENDS DeepAgentGraph, SessionMemory, DataLemmas

-----------------------------------------------------------------------------
(* The invariant                                                           *)

\* A history in which every answer is its prompt's own.
Own(log) ==
    \A i \in DOMAIN log : log[i].type = "ai" =>
        /\ log[i].basis = log[i].turn
        /\ i > 1 /\ log[i - 1] = Prompt(log[i].turn)

\* A history that waits for the answer of turn t.
Awaits(log, t) == Len(log) > 0 /\ log[Len(log)] = Prompt(t)

OwnAnswers(t) == {m \in Answers : m.turn = t /\ m.basis = t}

\* What a script may have yet to show: that a node ran, and what it wrote or
\* answered.
Shows(t) ==
    {<<>>, <<NodeItem>>}
    \cup {<<AuditItem(w)>> : w \in Seq(Seq(Turns))}
    \cup {<<NodeItem, AuditItem(w)>> : w \in Seq(Seq(Turns))}
    \cup {<<AnswerItem(m)>> : m \in OwnAnswers(t)}
    \cup {<<NodeItem, AnswerItem(m)>> : m \in OwnAnswers(t)}

\* Only the last turn's script is at work, and the page ends with its prompt.
ScriptInv ==
    /\ unseen = [t \in Turns |-> unseen[t]]
    /\ \A t \in Turns :
          /\ unseen[t] \in Shows(t)
          /\ t > turn => script[t] = "none" /\ node[t] = "unsent" /\ unseen[t] = <<>>
          /\ script[t] = "live" => t = turn /\ Awaits(screen.messages, t)

\* A run's messages end with its prompt; what it has staged since it passed the
\* router is its own.
RunInv ==
    \A t \in Turns :
        /\ node[t] \in Nodes => Own(chan[t].messages) /\ Awaits(chan[t].messages, t)
        /\ node[t] \in {"subagent_fanout", "responder"} =>
              chan[t].next_message.turn = t /\ chan[t].enhanced_query.turn = t
        /\ node[t] = "responder" => chan[t].subagent_results.turn = t

\* The thread has a prompt as soon as a node runs.
ThreadInv ==
    /\ Own(thread.messages) /\ Own(screen.messages)
    /\ \A t \in Turns : node[t] \in Nodes => Len(thread.messages) > 0

GraphInv == TypeOK /\ ScriptInv /\ RunInv /\ ThreadInv

-----------------------------------------------------------------------------
(* Histories                                                               *)

LEMMA MessageFacts ==
    /\ \A t \in Turns : Prompt(t) \in Prompts /\ Prompt(t).type = "human" /\ Prompt(t).turn = t
    /\ \A m \in Prompts : m.type = "human" /\ m.turn \in Turns
    /\ \A m \in Answers : m.type = "ai" /\ m.turn \in Turns
BY DEF Prompts, Answers, Prompt

\* A prompt is put behind a history.
LEMMA OwnPrompt ==
    ASSUME NEW log \in Seq(Prompts \cup Answers), Own(log), NEW t \in Turns
    PROVE  LET then == Append(log, Prompt(t))
           IN  then \in Seq(Prompts \cup Answers) /\ Own(then) /\ Awaits(then, t) /\ Len(then) > 0
<1> DEFINE then == Append(log, Prompt(t))
<1>1. /\ then \in Seq(Prompts \cup Answers) /\ Len(then) = Len(log) + 1 /\ Len(log) \in Nat
      /\ DOMAIN then = 1..Len(log) + 1 /\ DOMAIN log = 1..Len(log)
      /\ then[Len(log) + 1] = Prompt(t) /\ \A i \in 1..Len(log) : then[i] = log[i]
  BY MessageFacts, AppendProperties
<1> HIDE DEF then
<1>2. Awaits(then, t)
  BY <1>1 DEF Awaits
<1>3. ASSUME NEW i \in DOMAIN then, then[i].type = "ai"
      PROVE  /\ then[i].basis = then[i].turn
             /\ i > 1 /\ then[i - 1] = Prompt(then[i].turn)
  <2>1. then[Len(log) + 1].type # "ai"
    BY <1>1, MessageFacts
  <2>2. i \in 1..Len(log) /\ then[i] = log[i] /\ log[i].type = "ai"
    BY <1>1, <1>3, <2>1
  <2>3. log[i].basis = log[i].turn /\ i > 1 /\ log[i - 1] = Prompt(log[i].turn)
    BY <1>1, <2>2 DEF Own
  <2>4. then[i - 1] = log[i - 1]
    BY <1>1, <2>2, <2>3
  <2> QED
    BY <2>2, <2>3, <2>4
<1> QED
  BY <1>1, <1>2, <1>3 DEF Own, then

\* Its answer is put behind the prompt it waits for.
LEMMA OwnAnswered ==
    ASSUME NEW log \in Seq(Prompts \cup Answers), Own(log), NEW t \in Turns, Awaits(log, t),
           NEW m \in OwnAnswers(t)
    PROVE  LET then == Append(log, m)
           IN  then \in Seq(Prompts \cup Answers) /\ Own(then) /\ Len(then) > 0
<1> DEFINE then == Append(log, m)
<1>1. /\ then \in Seq(Prompts \cup Answers) /\ Len(then) = Len(log) + 1 /\ Len(log) \in Nat
      /\ DOMAIN then = 1..Len(log) + 1 /\ DOMAIN log = 1..Len(log)
      /\ then[Len(log) + 1] = m /\ \A i \in 1..Len(log) : then[i] = log[i]
  BY AppendProperties DEF OwnAnswers
<1> HIDE DEF then
<1>2. ASSUME NEW i \in DOMAIN then, then[i].type = "ai"
      PROVE  /\ then[i].basis = then[i].turn
             /\ i > 1 /\ then[i - 1] = Prompt(then[i].turn)
  <2>1. CASE i \in 1..Len(log)
    <3>1. then[i] = log[i] /\ log[i].type = "ai"
      BY <1>1, <1>2, <2>1
    <3>2. log[i].basis = log[i].turn /\ i > 1 /\ log[i - 1] = Prompt(log[i].turn)
      BY <1>1, <2>1, <3>1 DEF Own
    <3>3. then[i - 1] = log[i - 1]
      BY <1>1, <2>1, <3>2
    <3> QED
      BY <3>1, <3>2, <3>3
  <2>2. CASE i = Len(log) + 1
    <3>1. then[i] = m /\ m.turn = t /\ m.basis = t
      BY <1>1, <2>2 DEF OwnAnswers
    <3>2. i > 1 /\ i - 1 = Len(log) /\ i - 1 \in 1..Len(log)
      BY <1>1, <2>2 DEF Awaits
    <3>3. then[i - 1] = Prompt(t)
      BY <1>1, <3>2 DEF Awaits
    <3> QED
      BY <3>1, <3>2, <3>3
  <2> QED
    BY <1>1, <2>1, <2>2
<1> QED
  BY <1>1, <1>2 DEF Own, then

\* The router's window holds a prompt.
LEMMA WindowType ==
    ASSUME thread \in Channels, Own(thread.messages), Len(thread.messages) > 0
    PROVE  PromptInWindow \in 0..MaxTurns
<1> DEFINE log == thread.messages
           humans == {i \in DOMAIN log : log[i].type = "human"}
<1>1. log \in Seq(Prompts \cup Answers) /\ Len(log) \in Nat /\ DOMAIN log = 1..Len(log)
  BY DEF Channels
<1>2. 1 \in humans
  <2>1. log[1] \in Prompts \cup Answers
    BY <1>1
  <2>2. log[1].type # "ai"
    BY <1>1 DEF Own
  <2> QED
    BY <1>1, <2>1, <2>2, MessageFacts
<1>3. Max(humans) \in humans
  <2>1. humans \in SUBSET (0..Len(log))
    BY <1>1
  <2> HIDE DEF humans
  <2> QED
    BY <1>1, <1>2, <2>1, MaxFacts
<1>4. PromptInWindow = log[Max(humans)].turn
  BY DEF PromptInWindow
<1> PICK last : last = Max(humans)
  OBVIOUS
<1>5. last \in 1..Len(log)
  BY <1>1, <1>3
<1> HIDE DEF log, humans
<1>6. log[last].turn \in Turns
  BY <1>1, <1>5, MessageFacts
<1> QED
  BY <1>4, <1>6, GraphAssumption DEF Turns

-----------------------------------------------------------------------------
(* The router's targets                                                    *)

KeptStep(names, g, n) ==
    IF n = 0 THEN <<>>
    ELSE IF names[n] \in Roster /\ names[n] \notin Range(g[n - 1])
    THEN Append(g[n - 1], names[n])
    ELSE g[n - 1]
IsKept(names, g, m) == g = [n \in 0..m |-> KeptStep(names, g, n)]

\* The recursion of _validate_departments has a solution for every reply.
LEMMA KeptExists ==
    ASSUME NEW names, NEW m \in Nat
    PROVE  \E g : IsKept(names, g, m)
<1> DEFINE P == {n \in Nat : \E g : IsKept(names, g, n)}
<1>1. 0 \in P
  <2>1. IsKept(names, [n \in 0..0 |-> <<>>], 0)
    BY DEF IsKept, KeptStep
  <2> QED
    BY <2>1
<1>2. ASSUME NEW n \in P PROVE n + 1 \in P
  <2>1. PICK g : IsKept(names, g, n)
    OBVIOUS
  <2> DEFINE h == [i \in 0..n + 1 |-> KeptStep(names, g, i)]
  <2>2. ASSUME NEW i \in 0..n + 1
        PROVE  KeptStep(names, g, i) = KeptStep(names, h, i)
    <3>1. CASE i = 0
      BY <3>1 DEF KeptStep
    <3>2. CASE i # 0
      <4>1. i - 1 \in 0..n /\ i - 1 \in 0..n + 1
        BY <3>2
      <4>2. g[i - 1] = KeptStep(names, g, i - 1)
        BY <2>1, <4>1 DEF IsKept
      <4>3. h[i - 1] = KeptStep(names, g, i - 1)
        BY <4>1
      <4> HIDE DEF h
      <4> QED
        BY <3>2, <4>2, <4>3 DEF KeptStep
    <3> QED
      BY <3>1, <3>2
  <2>3. IsKept(names, h, n + 1)
    BY <2>2 DEF IsKept
  <2> HIDE DEF h
  <2>4. \E k : IsKept(names, k, n + 1)
    BY <2>3
  <2> QED
    BY <2>4
<1>3. P = Nat
  BY <1>1, <1>2, InductiveSet
<1> QED
  BY <1>3

\* What is kept of a reply's names are registered names, each once.
LEMMA ValidatedFacts ==
    ASSUME NEW names \in Seq(Dept), registered \subseteq Dept
    PROVE  /\ Validated(names) \in Seq(Dept)
           /\ Range(Validated(names)) \subseteq registered
           /\ IsInjective(Validated(names))
<1> DEFINE kept == CHOOSE g : IsKept(names, g, Len(names))
           Good(s) == /\ s \in Seq(Dept) /\ Range(s) \subseteq registered
                      /\ IsInjective(s)
           P == {n \in Nat : n <= Len(names) => Good(kept[n])}
<1>1. Len(names) \in Nat
  OBVIOUS
<1>2. IsKept(names, kept, Len(names))
  BY <1>1, KeptExists
<1>3. Validated(names) = kept[Len(names)]
  BY DEF Validated, IsKept, KeptStep
<1> HIDE DEF kept
<1>4. \A n \in 0..Len(names) : kept[n] = KeptStep(names, kept, n)
  BY <1>2 DEF IsKept
<1>5. 0 \in P
  <2>1. kept[0] = <<>>
    BY <1>1, <1>4 DEF KeptStep
  <2>2. Good(<<>>)
    BY EmptyFacts
  <2> QED
    BY <2>1, <2>2
<1>6. ASSUME NEW n \in P PROVE n + 1 \in P
  <2>1. SUFFICES ASSUME n + 1 <= Len(names) PROVE Good(kept[n + 1])
    OBVIOUS
  <2>2. n \in Nat /\ n + 1 \in 0..Len(names) /\ n + 1 # 0 /\ (n + 1) - 1 = n /\ Good(kept[n])
    BY <1>1, <2>1
  <2>3. kept[n + 1] = IF names[n + 1] \in Roster /\ names[n + 1] \notin Range(kept[n])
                      THEN Append(kept[n], names[n + 1])
                      ELSE kept[n]
    BY <1>4, <2>2 DEF KeptStep
  <2>4. CASE names[n + 1] \in Roster /\ names[n + 1] \notin Range(kept[n])
    <3>1. names[n + 1] \in registered /\ names[n + 1] \in Dept
      BY <2>4 DEF Roster
    <3>2. /\ Append(kept[n], names[n + 1]) \in Seq(Dept)
          /\ Range(Append(kept[n], names[n + 1])) = Range(kept[n]) \cup {names[n + 1]}
          /\ IsInjective(Append(kept[n], names[n + 1]))
      BY <2>2, <2>4, <3>1, AppendFacts
    <3> QED
      BY <2>2, <2>3, <2>4, <3>1, <3>2
  <2>5. CASE ~(names[n + 1] \in Roster /\ names[n + 1] \notin Range(kept[n]))
    BY <2>2, <2>3, <2>5
  <2> QED
    BY <2>4, <2>5
<1>7. P = Nat
  BY <1>5, <1>6, InductiveSet
<1>8. Good(kept[Len(names)])
  BY <1>1, <1>7
<1> QED
  BY <1>3, <1>8

\* A router's reply always leaves somebody to ask.
LEMMA TargetsFacts ==
    ASSUME NEW reply \in Reply, registered \subseteq Dept
    PROVE  Targets(reply) \in Seq(Dept) /\ Targets(reply) # <<>>
<1>1. reply \in Envelope => Validated(reply.departments) \in Seq(Dept)
  <2>1. reply \in Envelope => reply.departments \in Seq(Dept)
    BY GraphAssumption DEF Envelope, BoundedSeq, SeqOf
  <2> QED
    BY <2>1, ValidatedFacts
<1>2. <<General>> \in Seq(Dept) /\ <<General>> # <<>>
  BY GraphAssumption
<1> QED
  BY <1>1, <1>2 DEF Targets

-----------------------------------------------------------------------------
(* The channels                                                            *)

Log == Seq(Prompts \cup Answers)
PendingWrites == Seq(Turns)
Audit == Seq(Seq(Turns))
Named == Seq(Dept)
Staged == [turn : 0..MaxTurns, form : {"none", "bare", "wrapped", "prose", "blank"}]
Asked == [turn : 0..MaxTurns, kind : Query, prompt : 0..MaxTurns]
Results == [turn : 0..MaxTurns, depts : SUBSET Dept]

\* The channels, by the types of their fields
LEMMA ChannelsAre ==
    Channels = [messages : Log, next_message : Staged, pending_writes : PendingWrites,
                audit_log : Audit, enhanced_query : Asked, department_targets : Named,
                subagent_results : Results]
BY DEF Channels, Log, Staged, PendingWrites, Audit, Asked, Named, Results

-----------------------------------------------------------------------------
(* The nodes                                                               *)

LEMMA InitInv == Init => GraphInv
<1> SUFFICES ASSUME Init PROVE GraphInv
  OBVIOUS
<1>1. NoChannels \in Channels
  BY GraphAssumption DEF NoChannels, Channels, NoMessage, NoResults, Query
<1>2. NoChannels.messages = <<>>
  BY DEF NoChannels
<1>3. TypeOK
  <2>1. chan \in [Turns -> Channels] /\ thread \in Channels
    BY <1>1 DEF Init
  <2>2. screen \in [messages : Seq(Prompts \cup Answers), audit_log : Seq(Seq(Turns))]
    BY DEF Init
  <2>3. /\ script \in [Turns -> {"none", "live", "stopped", "done"}]
        /\ node \in [Turns -> {"unsent", "over"} \cup Nodes]
    BY DEF Init
  <2>4. /\ turn \in 0..MaxTurns /\ saver \in 0..MaxTurns /\ changes \in 0..MaxChanges
        /\ registered \subseteq Dept
    BY GraphAssumption DEF Init
  <2>5. forked \in BOOLEAN
    BY DEF Init
  <2> QED
    BY <2>1, <2>2, <2>3, <2>4, <2>5 DEF TypeOK
<1>4. ScriptInv
  BY GraphAssumption DEF Init, ScriptInv, Shows, Turns
<1>5. RunInv
  BY DEF Init, RunInv, Nodes
<1>6. ThreadInv
  BY <1>2 DEF Init, ThreadInv, Own, Nodes
<1> QED
  BY <1>3, <1>4, <1>5, <1>6 DEF GraphInv

\* A node ends: its run and the thread hold its update.
LEMMA SavesInv ==
    ASSUME GraphInv, NEW t \in Turns, node[t] \in Nodes,
           NEW update \in Channels, Own(update.messages), Len(update.messages) > 0,
           NEW next \in {"over"} \cup Nodes, NEW items, <<NodeItem>> \o items \in Shows(t),
           next \in Nodes => Awaits(update.messages, t),
           next \in {"subagent_fanout", "responder"} =>
               update.next_message.turn = t /\ update.enhanced_query.turn = t,
           next = "responder" => update.subagent_results.turn = t,
           Saves(t, update, next, items)
    PROVE  GraphInv'
<1> DEFINE now == IF next = "over" THEN NoChannels ELSE update
<1>1. /\ thread' = update /\ chan' = [chan EXCEPT ![t] = now] /\ saver' = t
      /\ node' = [node EXCEPT ![t] = next]
      /\ unseen' = [unseen EXCEPT ![t] = <<NodeItem>> \o items]
      /\ UNCHANGED <<turn, script, forked, screen, registered, changes>>
  BY DEF Saves, world
<1>2. NoChannels \in Channels
  BY GraphAssumption DEF NoChannels, Channels, NoMessage, NoResults, Query
<1>3. now \in Channels /\ (next \in Nodes => now = update)
  BY <1>2 DEF Nodes
<1> HIDE DEF now
<1>4. TypeOK'
  BY <1>1, <1>3, GraphAssumption DEF GraphInv, TypeOK, Turns
<1>5. /\ \A r \in Turns : chan'[r] = IF r = t THEN now ELSE chan[r]
      /\ \A r \in Turns : node'[r] = IF r = t THEN next ELSE node[r]
      /\ \A r \in Turns : unseen'[r] = IF r = t THEN <<NodeItem>> \o items ELSE unseen[r]
  BY <1>1 DEF GraphInv, TypeOK, ScriptInv
<1>6. ~(t > turn)
  BY DEF GraphInv, ScriptInv, Nodes
<1>7. ScriptInv'
  <2>1. unseen' = [r \in Turns |-> unseen'[r]]
    BY <1>1 DEF GraphInv, ScriptInv
  <2>2. ASSUME NEW r \in Turns
        PROVE  /\ unseen'[r] \in Shows(r)
               /\ r > turn => script[r] = "none" /\ node'[r] = "unsent" /\ unseen'[r] = <<>>
               /\ script[r] = "live" => r = turn /\ Awaits(screen.messages, r)
    BY <1>5, <1>6 DEF GraphInv, ScriptInv
  <2> QED
    BY <1>1, <2>1, <2>2 DEF ScriptInv
<1>8. RunInv'
  <2> SUFFICES ASSUME NEW r \in Turns
               PROVE  /\ node'[r] \in Nodes =>
                             Own(chan'[r].messages) /\ Awaits(chan'[r].messages, r)
                      /\ node'[r] \in {"subagent_fanout", "responder"} =>
                             chan'[r].next_message.turn = r /\ chan'[r].enhanced_query.turn = r
                      /\ node'[r] = "responder" => chan'[r].subagent_results.turn = r
    BY DEF RunInv
  <2>1. CASE r = t
    BY <1>3, <1>5, <2>1 DEF Nodes
  <2>2. CASE r # t
    BY <1>5, <2>2 DEF GraphInv, RunInv
  <2> QED
    BY <2>1, <2>2
<1>9. ThreadInv'
  BY <1>1, <1>5 DEF GraphInv, ThreadInv
<1> QED
  BY <1>4, <1>7, <1>8, <1>9 DEF GraphInv

\* What a run in the graph holds.
LEMMA RunFacts ==
    ASSUME GraphInv, NEW t \in Turns, node[t] \in Nodes
    PROVE  /\ chan[t] \in Channels /\ chan[t].messages \in Seq(Prompts \cup Answers)
           /\ Own(chan[t].messages) /\ Awaits(chan[t].messages, t)
           /\ Len(chan[t].messages) > 0 /\ Len(thread.messages) > 0
           /\ thread \in Channels /\ Own(thread.messages)
           /\ <<NodeItem>> \in Shows(t) /\ <<NodeItem>> \o <<>> = <<NodeItem>>
<1>1. chan[t] \in Channels /\ thread \in Channels
  BY DEF GraphInv, TypeOK
<1>2. chan[t].messages \in Seq(Prompts \cup Answers)
  BY <1>1 DEF Channels
<1>3. Own(chan[t].messages) /\ Awaits(chan[t].messages, t)
  BY DEF GraphInv, RunInv
<1>4. Len(thread.messages) > 0 /\ Own(thread.messages)
  BY DEF GraphInv, ThreadInv
<1>5. <<NodeItem>> \o <<>> = <<NodeItem>> /\ <<NodeItem>> \in Shows(t)
  BY DEF Shows
<1> QED
  BY <1>1, <1>2, <1>3, <1>4, <1>5 DEF Awaits

LEMMA OrchestratorInv ==
    ASSUME GraphInv, NEW t \in Turns, NEW reply \in Reply, Orchestrator(t, reply)
    PROVE  GraphInv'
<1> DEFINE message == [turn |-> t, form |-> reply.form]
           query == [turn |-> t, kind |-> QueryOf(reply), prompt |-> PromptInWindow]
           new == [chan[t] EXCEPT !.next_message = message, !.enhanced_query = query,
                                  !.department_targets = Targets(reply)]
<1>1. node[t] = "orchestrator" /\ Saves(t, new, RouteAfterOrchestrator(Targets(reply)), <<>>)
  BY DEF Orchestrator, Runs
<1>2. node[t] \in Nodes
  BY <1>1 DEF Nodes
<1>3. Targets(reply) \in Seq(Dept) /\ RouteAfterOrchestrator(Targets(reply)) = "subagent_fanout"
  BY TargetsFacts DEF GraphInv, TypeOK, RouteAfterOrchestrator
<1>4. message \in Staged
  BY GraphAssumption DEF Staged, Reply, Envelope, Unusable, Turns
<1>5. query \in Asked
  <2>1. QueryOf(reply) \in Query
    BY DEF QueryOf, Query
  <2>2. PromptInWindow \in 0..MaxTurns
    BY <1>2, RunFacts, WindowType
  <2> QED
    BY <2>1, <2>2, GraphAssumption DEF Asked, Turns
<1>6. message.turn = t /\ query.turn = t
  OBVIOUS
<1> HIDE DEF message, query
<1>7. /\ new \in Channels /\ new.messages = chan[t].messages
      /\ new.next_message = message /\ new.enhanced_query = query
  <2>1. Targets(reply) \in Named
    BY <1>3 DEF Named
  <2>2. chan[t] \in Channels
    BY <1>2, RunFacts
  <2> QED
    BY <1>4, <1>5, <2>1, <2>2, ChannelsAre
<1> HIDE DEF new
<1> QED
  BY <1>1, <1>2, <1>3, <1>6, <1>7, RunFacts, SavesInv DEF Nodes

\* The fanout's update keeps the messages and what the router staged.
LEMMA FanoutSaves ==
    ASSUME GraphInv, NEW t \in Turns, node[t] = "subagent_fanout",
           NEW update \in Channels, update.messages = chan[t].messages,
           update.next_message = chan[t].next_message,
           update.enhanced_query = chan[t].enhanced_query,
           update.subagent_results.turn = t,
           NEW items, <<NodeItem>> \o items \in Shows(t),
           Saves(t, update, "responder", items)
    PROVE  GraphInv'
<1>1. node[t] \in Nodes /\ "responder" \in Nodes
  BY DEF Nodes
<1>2. update.next_message.turn = t /\ update.enhanced_query.turn = t
  BY DEF GraphInv, RunInv
<1> QED
  BY <1>1, <1>2, RunFacts, SavesInv

LEMMA FanoutNoneResolvedInv ==
    ASSUME GraphInv, NEW t \in Turns, FanoutNoneResolved(t)
    PROVE  GraphInv'
<1> DEFINE results == [turn |-> t, depts |-> {}]
           new == [chan[t] EXCEPT !.subagent_results = results]
<1>1. node[t] = "subagent_fanout" /\ node[t] \in Nodes /\ Saves(t, new, "responder", <<>>)
  BY DEF FanoutNoneResolved, Runs, Nodes
<1>2. results \in Results /\ results.turn = t
  BY GraphAssumption DEF Results, Turns
<1> HIDE DEF results
<1>3. /\ new \in Channels /\ new.messages = chan[t].messages
      /\ new.next_message = chan[t].next_message
      /\ new.enhanced_query = chan[t].enhanced_query
      /\ new.subagent_results = results
  <2>1. chan[t] \in Channels
    BY <1>1, RunFacts
  <2> QED
    BY <1>2, <2>1, ChannelsAre
<1> HIDE DEF new
<1> QED
  BY <1>1, <1>2, <1>3, RunFacts, FanoutSaves

LEMMA FanoutInv ==
    ASSUME GraphInv, NEW t \in Turns, NEW writes \in Writes(t), Fanout(t, writes)
    PROVE  GraphInv'
<1> DEFINE audit == IF writes = <<>> THEN <<>> ELSE <<writes>>
           results == [turn |-> t, depts |-> Resolved(t)]
           pending == chan[t].pending_writes \o writes
           log == chan[t].audit_log \o audit
           items == IF writes = <<>> THEN <<>> ELSE <<AuditItem(audit)>>
           new == [chan[t] EXCEPT !.subagent_results = results, !.pending_writes = pending,
                                  !.audit_log = log]
<1>1. node[t] = "subagent_fanout" /\ node[t] \in Nodes /\ Saves(t, new, "responder", items)
  BY DEF Fanout, Runs, Nodes
<1>2. results \in Results /\ results.turn = t
  BY GraphAssumption DEF Results, Turns, Resolved, GraphInv, TypeOK
<1>3. writes \in Seq(Turns)
  BY GraphAssumption DEF Writes, BoundedSeq, SeqOf
<1>4. audit \in Seq(Seq(Turns))
  BY <1>3
<1>5. <<NodeItem>> \o items \in Shows(t)
  <2>1. CASE writes = <<>>
    BY <1>1, <2>1, RunFacts
  <2>2. CASE writes # <<>>
    <3>1. items = <<AuditItem(audit)>>
      BY <2>2
    <3> HIDE DEF items, audit
    <3>2. <<NodeItem>> \o items = <<NodeItem, AuditItem(audit)>>
      BY <3>1, ConcatPair
    <3> QED
      BY <1>4, <3>2 DEF Shows
  <2> QED
    BY <2>1, <2>2
<1> HIDE DEF results, audit, items
<1>6. pending \in Seq(Turns) /\ log \in Seq(Seq(Turns))
  <2>1. chan[t].pending_writes \in Seq(Turns) /\ chan[t].audit_log \in Seq(Seq(Turns))
    BY <1>1, RunFacts DEF Channels
  <2> QED
    BY <1>3, <1>4, <2>1, ConcatProperties
<1> HIDE DEF pending, log
<1>7. /\ new \in Channels /\ new.messages = chan[t].messages
      /\ new.next_message = chan[t].next_message
      /\ new.enhanced_query = chan[t].enhanced_query
      /\ new.subagent_results = results
  <2>1. chan[t] \in Channels
    BY <1>1, RunFacts
  <2>2. pending \in PendingWrites /\ log \in Audit
    BY <1>6 DEF PendingWrites, Audit
  <2> QED
    BY <1>2, <2>1, <2>2, ChannelsAre
<1> HIDE DEF new
<1> QED
  BY <1>1, <1>2, <1>5, <1>7, FanoutSaves

\* The responder answers with its own turn's data.
LEMMA AnswerFacts ==
    ASSUME GraphInv, NEW t \in Turns, node[t] = "responder"
    PROVE  Answer(t) \in OwnAnswers(t)
<1>1. /\ chan[t].next_message.turn = t /\ chan[t].enhanced_query.turn = t
      /\ chan[t].subagent_results.turn = t
  BY DEF GraphInv, RunInv
<1>2. chan[t].next_message.form \in {"none", "bare", "wrapped", "prose", "blank"}
  <2>1. chan[t] \in Channels
    BY RunFacts DEF Nodes
  <2> QED
    BY <2>1 DEF Channels
<1>3. AnswerOf(t).basis = t /\ AnswerOf(t).source \in {"departments", "fallback", "wrapped", "prose"}
  BY <1>1, <1>2 DEF AnswerOf
<1>4. t \in 0..MaxTurns
  BY GraphAssumption DEF Turns
<1> QED
  BY <1>3, <1>4 DEF Answer, OwnAnswers, Answers

LEMMA ResponderInv ==
    ASSUME GraphInv, NEW t \in Turns, Responder(t)
    PROVE  GraphInv'
<1> PICK answer : answer = Answer(t)
  OBVIOUS
<1> DEFINE log == Append(chan[t].messages, answer)
           new == [chan[t] EXCEPT !.messages = log, !.subagent_results = NoResults,
                                  !.next_message = NoMessage]
<1>1. /\ node[t] = "responder" /\ node[t] \in Nodes
      /\ Saves(t, new, "over", <<AnswerItem(answer)>>)
  BY DEF Responder, Runs, Nodes
<1>2. answer \in OwnAnswers(t)
  BY <1>1, AnswerFacts
<1>3. log \in Seq(Prompts \cup Answers) /\ Own(log) /\ Len(log) > 0
  BY <1>1, <1>2, RunFacts, OwnAnswered
<1>4. <<NodeItem>> \o <<AnswerItem(answer)>> \in Shows(t)
  <2>1. <<NodeItem>> \o <<AnswerItem(answer)>> = <<NodeItem, AnswerItem(answer)>>
    BY ConcatPair
  <2> QED
    BY <1>2, <2>1 DEF Shows
<1> HIDE DEF log
<1>5. new \in Channels /\ new.messages = log
  <2>1. NoResults \in Results /\ NoMessage \in Staged
    BY GraphAssumption DEF NoResults, NoMessage, Results, Staged
  <2>2. chan[t] \in Channels
    BY <1>1, RunFacts
  <2>3. log \in Log
    BY <1>3 DEF Log
  <2> QED
    BY <2>1, <2>2, <2>3, ChannelsAre
<1> HIDE DEF new
<1>6. "over" \notin Nodes /\ "over" \notin {"subagent_fanout", "responder"} /\ "over" # "responder"
  BY DEF Nodes
<1> QED
  BY <1>1, <1>3, <1>4, <1>5, <1>6, SavesInv

-----------------------------------------------------------------------------
(* Runs that end or go on as they were                                     *)

\* Runs that stop, and runs nobody touches.
LEMMA RunFrame ==
    ASSUME GraphInv, thread' = thread,
           \A r \in Turns : node'[r] \in Nodes => node'[r] = node[r] /\ chan'[r] = chan[r]
    PROVE  /\ RunInv' /\ Own(thread.messages)'
           /\ \A r \in Turns : node'[r] \in Nodes => Len(thread'.messages) > 0
<1>1. Own(thread.messages)'
  BY DEF GraphInv, ThreadInv
<1>2. RunInv'
  <2> SUFFICES ASSUME NEW r \in Turns
               PROVE  /\ node'[r] \in Nodes =>
                             Own(chan'[r].messages) /\ Awaits(chan'[r].messages, r)
                      /\ node'[r] \in {"subagent_fanout", "responder"} =>
                             chan'[r].next_message.turn = r /\ chan'[r].enhanced_query.turn = r
                      /\ node'[r] = "responder" => chan'[r].subagent_results.turn = r
    BY DEF RunInv
  <2> QED
    BY DEF GraphInv, RunInv, Nodes
<1> QED
  BY <1>1, <1>2 DEF GraphInv, ThreadInv

\* A step that leaves every run, the thread and the page alone.
LEMMA StillInv ==
    ASSUME GraphInv, UNCHANGED <<turn, node, unseen, chan, thread, saver, forked, screen>>,
           registered' \subseteq Dept, changes' \in 0..MaxChanges,
           script' \in [Turns -> {"none", "live", "stopped", "done"}],
           \A r \in Turns : r > turn => script'[r] = "none",
           \A r \in Turns : script'[r] = "live" => script[r] = "live"
    PROVE  GraphInv'
<1>1. TypeOK'
  BY DEF GraphInv, TypeOK
<1>2. RunInv' /\ ThreadInv'
  BY RunFrame DEF GraphInv, ThreadInv
<1>3. ScriptInv'
  <2>1. unseen' = [r \in Turns |-> unseen'[r]]
    BY DEF GraphInv, ScriptInv
  <2>2. ASSUME NEW r \in Turns
        PROVE  /\ unseen'[r] \in Shows(r)
               /\ r > turn => script'[r] = "none" /\ node'[r] = "unsent" /\ unseen'[r] = <<>>
               /\ script'[r] = "live" => r = turn /\ Awaits(screen.messages, r)
    BY DEF GraphInv, ScriptInv
  <2> QED
    BY <2>1, <2>2 DEF ScriptInv
<1> QED
  BY <1>1, <1>2, <1>3 DEF GraphInv

LEMMA NoChannelsType == NoChannels \in Channels
BY GraphAssumption DEF NoChannels, Channels, NoMessage, NoResults, Query

LEMMA TurnFailsInv ==
    ASSUME GraphInv, NEW t \in Turns, node[t] \in Nodes, TurnFails(t)
    PROVE  GraphInv'
<1>1. /\ node' = [node EXCEPT ![t] = "over"] /\ chan' = [chan EXCEPT ![t] = NoChannels]
      /\ UNCHANGED <<turn, script, unseen, thread, saver, forked, screen, registered, changes>>
  BY DEF TurnFails, world
<1>2. /\ \A r \in Turns : chan'[r] = IF r = t THEN NoChannels ELSE chan[r]
      /\ \A r \in Turns : node'[r] = IF r = t THEN "over" ELSE node[r]
  BY <1>1 DEF GraphInv, TypeOK
<1>3. TypeOK'
  BY <1>1, NoChannelsType DEF GraphInv, TypeOK
<1>4. RunInv' /\ ThreadInv'
  BY <1>1, <1>2, RunFrame DEF GraphInv, ThreadInv, Nodes
<1>5. ScriptInv'
  <2>1. unseen' = [r \in Turns |-> unseen'[r]]
    BY <1>1 DEF GraphInv, ScriptInv
  <2>2. ASSUME NEW r \in Turns
        PROVE  /\ unseen'[r] \in Shows(r)
               /\ r > turn => script[r] = "none" /\ node'[r] = "unsent" /\ unseen'[r] = <<>>
               /\ script[r] = "live" => r = turn /\ Awaits(screen.messages, r)
    BY <1>1, <1>2 DEF GraphInv, ScriptInv, Nodes
  <2> QED
    BY <1>1, <2>1, <2>2 DEF ScriptInv
<1> QED
  BY <1>3, <1>4, <1>5 DEF GraphInv

LEMMA GraphStepInv ==
    ASSUME GraphInv, NEW t \in Turns, GraphStep(t)
    PROVE  GraphInv'
<1>1. CASE \E reply \in Reply : Orchestrator(t, reply)
  BY <1>1, OrchestratorInv
<1>2. CASE \/ \E reply \in Reply : RouterReplyRaises(t, reply)
           \/ RouterUnreachable(t) \/ FanoutRaises(t) \/ ResponderRaises(t)
  BY <1>2, TurnFailsInv DEF RouterReplyRaises, RouterUnreachable, FanoutRaises,
     ResponderRaises, Runs, Nodes
<1>3. CASE FanoutNoneResolved(t)
  BY <1>3, FanoutNoneResolvedInv
<1>4. CASE \E writes \in Writes(t) : Fanout(t, writes)
  BY <1>4, FanoutInv
<1>5. CASE Responder(t)
  BY <1>5, ResponderInv
<1> QED
  BY <1>1, <1>2, <1>3, <1>4, <1>5 DEF GraphStep

-----------------------------------------------------------------------------
(* The page's script                                                       *)

\* What is left to show once an item is shown, and what an item is.
LEMMA ShowsFacts ==
    ASSUME NEW t \in Turns, NEW s \in Shows(t)
    PROVE  /\ s # <<>> /\ Head(s).what # "answer" =>
                /\ Tail(s) \in Shows(t)
                /\ \/ Head(s).what = "node"
                   \/ Head(s).what = "audit" /\ Head(s).writes \in Seq(Seq(Turns))
           /\ (\A i \in DOMAIN s : s[i].what = "answer") =>
                s = <<>> \/ \E m \in OwnAnswers(t) : s = <<AnswerItem(m)>>
<1>1. /\ NodeItem.what = "node"
      /\ \A w : AuditItem(w).what = "audit" /\ AuditItem(w).writes = w
      /\ \A m : AnswerItem(m).what = "answer"
  BY DEF NodeItem, AuditItem, AnswerItem
<1>2. \A a, b : /\ Head(<<a>>) = a /\ Tail(<<a>>) = <<>> /\ 1 \in DOMAIN <<a>> /\ <<a>>[1] = a
                /\ Head(<<a, b>>) = a /\ 1 \in DOMAIN <<a, b>> /\ <<a, b>>[1] = a
  OBVIOUS
<1>3. \A a, b : Tail(<<a, b>>) = <<b>>
  BY TailPair
<1> HIDE DEF NodeItem, AuditItem, AnswerItem
<1>4. CASE s = <<>>
  BY <1>4
<1>5. CASE s = <<NodeItem>>
  BY <1>1, <1>2, <1>5 DEF Shows
<1>6. ASSUME NEW w \in Seq(Seq(Turns)), s = <<AuditItem(w)>> \/ s = <<NodeItem, AuditItem(w)>>
      PROVE  /\ Tail(s) \in Shows(t)
             /\ \/ Head(s).what = "node"
                \/ Head(s).what = "audit" /\ Head(s).writes \in Seq(Seq(Turns))
             /\ ~(\A i \in DOMAIN s : s[i].what = "answer")
  <2>1. CASE s = <<AuditItem(w)>>
    <3>1. Tail(s) = <<>> /\ Head(s) = AuditItem(w) /\ 1 \in DOMAIN s /\ s[1] = AuditItem(w)
      BY <1>2, <2>1
    <3>2. Head(s).what = "audit" /\ Head(s).writes = w /\ s[1].what = "audit"
      BY <1>1, <3>1
    <3>3. Tail(s) \in Shows(t)
      BY <3>1 DEF Shows
    <3> QED
      BY <1>6, <3>1, <3>2, <3>3
  <2>2. CASE s = <<NodeItem, AuditItem(w)>>
    <3>1. Tail(s) = <<AuditItem(w)>> /\ Head(s) = NodeItem /\ 1 \in DOMAIN s /\ s[1] = NodeItem
      BY <1>2, <1>3, <2>2
    <3>2. Head(s).what = "node" /\ s[1].what = "node"
      BY <1>1, <3>1
    <3>3. Tail(s) \in Shows(t)
      BY <1>6, <3>1 DEF Shows
    <3> QED
      BY <3>1, <3>2, <3>3
  <2> QED
    BY <1>6, <2>1, <2>2
<1>7. ASSUME NEW m \in OwnAnswers(t), s = <<NodeItem, AnswerItem(m)>>
      PROVE  /\ Tail(s) \in Shows(t) /\ Head(s).what = "node"
             /\ ~(\A i \in DOMAIN s : s[i].what = "answer")
  BY <1>1, <1>2, <1>3, <1>7 DEF Shows
<1>8. ASSUME NEW m \in OwnAnswers(t), s = <<AnswerItem(m)>>
      PROVE  Head(s).what = "answer"
  BY <1>1, <1>2, <1>8
<1> QED
  BY <1>4, <1>5, <1>6, <1>7, <1>8 DEF Shows

LEMMA SubmitInv == ASSUME GraphInv, Submit PROVE GraphInv'
<1> DEFINE log == Append(screen.messages, Prompt(turn'))
<1>1. /\ turn' = turn + 1 /\ turn' \in Turns /\ turn \in Nat
      /\ turn > 0 => script[turn] # "live"
      /\ screen' = [screen EXCEPT !.messages = log]
      /\ script' = [script EXCEPT ![turn'] = "live"]
      /\ unseen' = [unseen EXCEPT ![turn'] = <<NodeItem>>]
      /\ UNCHANGED <<node, chan, thread, saver, forked, registered, changes>>
  BY GraphAssumption DEF Submit, world, Turns, GraphInv, TypeOK
<1> PICK now : now = turn'
  OBVIOUS
<1>2. /\ screen.messages \in Seq(Prompts \cup Answers) /\ Own(screen.messages)
      /\ screen.audit_log \in Seq(Seq(Turns))
  BY DEF GraphInv, TypeOK, ThreadInv
<1>3. log \in Seq(Prompts \cup Answers) /\ Own(log) /\ Awaits(log, now)
  BY <1>1, <1>2, OwnPrompt
<1> HIDE DEF log
<1>4. screen' \in [messages : Seq(Prompts \cup Answers), audit_log : Seq(Seq(Turns))]
      /\ screen'.messages = log
  BY <1>1, <1>3 DEF GraphInv, TypeOK
<1>5. TypeOK'
  <2>1. turn' \in 0..MaxTurns
    BY <1>1, GraphAssumption DEF Turns
  <2>2. script' \in [Turns -> {"none", "live", "stopped", "done"}]
    BY <1>1 DEF GraphInv, TypeOK
  <2> QED
    BY <1>1, <1>4, <2>1, <2>2 DEF GraphInv, TypeOK
<1>6. RunInv' /\ ThreadInv'
  BY <1>1, <1>3, <1>4, RunFrame DEF ThreadInv
<1>7. ScriptInv'
  <2>1. unseen' = [r \in Turns |-> unseen'[r]]
    BY <1>1 DEF GraphInv, ScriptInv
  <2>2. /\ \A r \in Turns : script'[r] = IF r = now THEN "live" ELSE script[r]
        /\ \A r \in Turns : unseen'[r] = IF r = now THEN <<NodeItem>> ELSE unseen[r]
    BY <1>1 DEF GraphInv, ScriptInv, TypeOK
  <2>3. \A r \in Turns : r \in Nat /\ r > 0 /\ (r > now => r > turn) /\ (r = turn => turn > 0)
    BY <1>1 DEF Turns
  <2>4. ASSUME NEW r \in Turns
        PROVE  /\ unseen'[r] \in Shows(r)
               /\ r > now => script'[r] = "none" /\ node[r] = "unsent" /\ unseen'[r] = <<>>
               /\ script'[r] = "live" => r = now /\ Awaits(log, r)
    <3>1. CASE r = now
      BY <1>1, <1>3, <2>2, <2>3, <3>1 DEF Shows
    <3>2. CASE r # now
      <4>1. script[r] # "live"
        BY <1>1, <2>3 DEF GraphInv, ScriptInv
      <4> QED
        BY <2>2, <2>3, <3>2, <4>1 DEF GraphInv, ScriptInv
    <3> QED
      BY <3>1, <3>2
  <2> QED
    BY <1>1, <1>4, <2>1, <2>4 DEF ScriptInv
<1> QED
  BY <1>5, <1>6, <1>7 DEF GraphInv

LEMMA SendInv == ASSUME GraphInv, NEW t \in Turns, Send(t) PROVE GraphInv'
<1> DEFINE log == Append(thread.messages, Prompt(t))
           update == [thread EXCEPT !.messages = log]
<1>1. /\ script[t] = "live" /\ thread' = update /\ chan' = [chan EXCEPT ![t] = update]
      /\ forked' \in BOOLEAN /\ saver' = t /\ node' = [node EXCEPT ![t] = "orchestrator"]
      /\ UNCHANGED <<turn, script, unseen, screen, registered, changes>>
  BY DEF Send, world
<1>2. thread \in Channels /\ thread.messages \in Seq(Prompts \cup Answers) /\ Own(thread.messages)
  BY DEF GraphInv, TypeOK, ThreadInv, Channels
<1>3. log \in Seq(Prompts \cup Answers) /\ Own(log) /\ Awaits(log, t) /\ Len(log) > 0
  BY <1>2, OwnPrompt
<1> HIDE DEF log
<1>4. update \in Channels /\ update.messages = log
  <2>1. log \in Log
    BY <1>3 DEF Log
  <2> QED
    BY <1>2, <2>1, ChannelsAre
<1> HIDE DEF update
<1>5. /\ \A r \in Turns : chan'[r] = IF r = t THEN update ELSE chan[r]
      /\ \A r \in Turns : node'[r] = IF r = t THEN "orchestrator" ELSE node[r]
  BY <1>1 DEF GraphInv, TypeOK
<1>6. TypeOK'
  <2>1. saver' \in 0..MaxTurns
    BY <1>1, GraphAssumption DEF Turns
  <2>2. node' \in [Turns -> {"unsent", "over"} \cup Nodes]
    BY <1>1 DEF GraphInv, TypeOK, Nodes
  <2>3. chan' \in [Turns -> Channels]
    BY <1>1, <1>4 DEF GraphInv, TypeOK
  <2> QED
    BY <1>1, <1>4, <2>1, <2>2, <2>3 DEF GraphInv, TypeOK
<1>7. ScriptInv'
  <2>1. unseen' = [r \in Turns |-> unseen'[r]]
    BY <1>1 DEF GraphInv, ScriptInv
  <2>2. ~(t > turn)
    BY <1>1 DEF GraphInv, ScriptInv
  <2>3. ASSUME NEW r \in Turns
        PROVE  /\ unseen'[r] \in Shows(r)
               /\ r > turn => script[r] = "none" /\ node'[r] = "unsent" /\ unseen'[r] = <<>>
               /\ script[r] = "live" => r = turn /\ Awaits(screen.messages, r)
    BY <1>1, <1>5, <2>2 DEF GraphInv, ScriptInv
  <2> QED
    BY <1>1, <2>1, <2>3 DEF ScriptInv
<1>8. RunInv'
  <2> SUFFICES ASSUME NEW r \in Turns
               PROVE  /\ node'[r] \in Nodes =>
                             Own(chan'[r].messages) /\ Awaits(chan'[r].messages, r)
                      /\ node'[r] \in {"subagent_fanout", "responder"} =>
                             chan'[r].next_message.turn = r /\ chan'[r].enhanced_query.turn = r
                      /\ node'[r] = "responder" => chan'[r].subagent_results.turn = r
    BY DEF RunInv
  <2>1. CASE r = t
    BY <1>3, <1>4, <1>5, <2>1
  <2>2. CASE r # t
    BY <1>5, <2>2 DEF GraphInv, RunInv
  <2> QED
    BY <2>1, <2>2
<1>9. ThreadInv'
  BY <1>1, <1>3, <1>4 DEF GraphInv, ThreadInv
<1> QED
  BY <1>6, <1>7, <1>8, <1>9 DEF GraphInv

\* A step of a script that leaves every run and the thread alone: it shows
\* something, or puts the answer on the page.
LEMMA PageInv ==
    ASSUME GraphInv, NEW t \in Turns, NEW left, NEW page,
           script[t] = "live", t = turn,
           page \in [messages : Seq(Prompts \cup Answers), audit_log : Seq(Seq(Turns))],
           Own(page.messages),
           UNCHANGED <<turn, node, chan, thread, saver, forked, registered, changes>>,
           screen' = page, unseen' = [unseen EXCEPT ![t] = left], left \in Shows(t),
           \/ script' = script /\ page.messages = screen.messages
           \/ script' = [script EXCEPT ![t] = "done"]
    PROVE  GraphInv'
<1>1. /\ \A r \in Turns : unseen'[r] = IF r = t THEN left ELSE unseen[r]
      /\ \A r \in Turns : script'[r] = script[r] \/ (script'[r] = "done" /\ r = t)
      /\ unseen' = [r \in Turns |-> unseen'[r]]
  <2>1. /\ \A r \in Turns : unseen'[r] = IF r = t THEN left ELSE unseen[r]
        /\ unseen' = [r \in Turns |-> unseen'[r]]
    BY DEF GraphInv, ScriptInv
  <2>2. \A r \in Turns : script'[r] = script[r] \/ (script'[r] = "done" /\ r = t)
    BY DEF GraphInv, TypeOK
  <2> QED
    BY <2>1, <2>2
<1>2. TypeOK'
  <2>1. script' \in [Turns -> {"none", "live", "stopped", "done"}]
    BY DEF GraphInv, TypeOK
  <2> QED
    BY <2>1 DEF GraphInv, TypeOK
<1>3. RunInv' /\ ThreadInv'
  BY RunFrame DEF ThreadInv
<1>4. ScriptInv'
  <2>1. ~(t > turn)
    BY DEF GraphInv, TypeOK
  <2>2. ASSUME NEW r \in Turns
        PROVE  /\ unseen'[r] \in Shows(r)
               /\ r > turn => script'[r] = "none" /\ node[r] = "unsent" /\ unseen'[r] = <<>>
               /\ script'[r] = "live" => r = turn /\ Awaits(page.messages, r)
    <3>1. unseen'[r] \in Shows(r)
      BY <1>1 DEF GraphInv, ScriptInv
    <3>2. r > turn => script'[r] = "none" /\ node[r] = "unsent" /\ unseen'[r] = <<>>
      BY <1>1, <2>1 DEF GraphInv, ScriptInv
    <3>3. ASSUME script'[r] = "live"
          PROVE  r = turn /\ Awaits(page.messages, r)
      <4>1. script[r] = "live"
        BY <1>1, <3>3
      <4>2. r = turn /\ r = t /\ Awaits(screen.messages, r)
        BY <4>1 DEF GraphInv, ScriptInv
      <4>3. script' # [script EXCEPT ![t] = "done"]
        BY <3>3, <4>2 DEF GraphInv, TypeOK
      <4> QED
        BY <4>2, <4>3
    <3> QED
      BY <3>1, <3>2, <3>3
  <2> QED
    BY <1>1, <2>2 DEF ScriptInv
<1> QED
  BY <1>2, <1>3, <1>4 DEF GraphInv

\* What is on the page while a script is at work.
LEMMA PageFacts ==
    ASSUME GraphInv, NEW t \in Turns, script[t] = "live"
    PROVE  /\ t = turn /\ Awaits(screen.messages, t) /\ Own(screen.messages)
           /\ screen.messages \in Seq(Prompts \cup Answers)
           /\ screen.audit_log \in Seq(Seq(Turns))
           /\ screen = [messages |-> screen.messages, audit_log |-> screen.audit_log]
           /\ unseen[t] \in Shows(t)
<1>1. t = turn /\ Awaits(screen.messages, t) /\ unseen[t] \in Shows(t)
  BY DEF GraphInv, ScriptInv
<1>2. /\ screen.messages \in Seq(Prompts \cup Answers)
      /\ screen.audit_log \in Seq(Seq(Turns))
      /\ screen = [messages |-> screen.messages, audit_log |-> screen.audit_log]
  BY DEF GraphInv, TypeOK
<1> QED
  BY <1>1, <1>2 DEF GraphInv, ThreadInv

LEMMA ShowInv == ASSUME GraphInv, NEW t \in Turns, Show(t) PROVE GraphInv'
<1> DEFINE item == Head(unseen[t])
           log == screen.audit_log \o item.writes
           page == CASE item.what = "node" -> screen
                     [] item.what = "audit" -> [screen EXCEPT !.audit_log = log]
           left == Tail(unseen[t])
<1>1. /\ script[t] = "live" /\ unseen[t] # <<>> /\ item.what # "answer"
      /\ unseen' = [unseen EXCEPT ![t] = left] /\ screen' = page
      /\ UNCHANGED <<turn, script, node, chan, thread, saver, forked, registered, changes>>
  BY DEF Show, world
<1>2. /\ left \in Shows(t)
      /\ \/ item.what = "node"
         \/ item.what = "audit" /\ item.writes \in Seq(Seq(Turns))
  BY <1>1, PageFacts, ShowsFacts
<1>3. CASE item.what = "node"
  <2>1. page = screen
    BY <1>3
  <2> HIDE DEF page, left
  <2> QED
    BY <1>1, <1>2, <2>1, PageFacts, PageInv
<1>4. CASE item.what = "audit" /\ item.writes \in Seq(Seq(Turns))
  <2>1. log \in Seq(Seq(Turns))
    BY <1>1, <1>4, PageFacts, ConcatProperties
  <2>2. page = [screen EXCEPT !.audit_log = log]
    BY <1>4
  <2> HIDE DEF log, page, left
  <2>3. /\ page \in [messages : Seq(Prompts \cup Answers), audit_log : Seq(Seq(Turns))]
        /\ page.messages = screen.messages
    BY <1>1, <2>1, <2>2, PageFacts
  <2> QED
    BY <1>1, <1>2, <2>3, PageFacts, PageInv
<1> QED
  BY <1>2, <1>3, <1>4

LEMMA PersistInv == ASSUME GraphInv, NEW t \in Turns, Persist(t) PROVE GraphInv'
<1> DEFINE log == screen.messages \o TurnMessages(t)
           page == [screen EXCEPT !.messages = log]
<1>1. /\ script[t] = "live" /\ StreamOver(t) /\ screen' = page
      /\ script' = [script EXCEPT ![t] = "done"] /\ unseen' = [unseen EXCEPT ![t] = <<>>]
      /\ UNCHANGED <<turn, node, chan, thread, saver, forked, registered, changes>>
  BY DEF Persist, world
<1>2. unseen[t] = <<>> \/ \E m \in OwnAnswers(t) : unseen[t] = <<AnswerItem(m)>>
  BY <1>1, PageFacts, ShowsFacts DEF StreamOver
<1>3. log \in Seq(Prompts \cup Answers) /\ Own(log)
  <2>1. CASE unseen[t] = <<>>
    <3>1. TurnMessages(t) = <<>>
      BY <2>1 DEF TurnMessages
    <3>2. log = screen.messages
      BY <1>1, <3>1, PageFacts, ConcatProperties
    <3> QED
      BY <1>1, <3>2, PageFacts
  <2>2. ASSUME NEW m \in OwnAnswers(t), unseen[t] = <<AnswerItem(m)>>
        PROVE  log = Append(screen.messages, m)
    <3>1. TurnMessages(t) = <<m>>
      BY <2>2 DEF TurnMessages, AnswerItem
    <3>2. m \in Prompts \cup Answers
      BY DEF OwnAnswers
    <3> QED
      BY <1>1, <3>1, <3>2, PageFacts, AppendIsConcat
  <2> HIDE DEF log
  <2>3. ASSUME NEW m \in OwnAnswers(t), unseen[t] = <<AnswerItem(m)>>
        PROVE  log \in Seq(Prompts \cup Answers) /\ Own(log)
    BY <1>1, <2>2, <2>3, PageFacts, OwnAnswered
  <2> QED
    BY <1>2, <2>1, <2>3
<1> HIDE DEF log
<1>4. /\ page \in [messages : Seq(Prompts \cup Answers), audit_log : Seq(Seq(Turns))]
      /\ page.messages = log
  BY <1>1, <1>3, PageFacts
<1> HIDE DEF page
<1>5. <<>> \in Shows(t)
  BY DEF Shows
<1> QED
  BY <1>1, <1>3, <1>4, <1>5, PageFacts, PageInv

LEMMA AbandonInv == ASSUME GraphInv, NEW t \in Turns, Abandon(t) PROVE GraphInv'
<1> DEFINE next == IF node[t] = "unsent" THEN "unsent" ELSE "over"
<1>1. /\ script[t] = "stopped" /\ unseen[t] # <<>>
      /\ node' = [node EXCEPT ![t] = next] /\ chan' = [chan EXCEPT ![t] = NoChannels]
      /\ unseen' = [unseen EXCEPT ![t] = <<>>]
      /\ UNCHANGED <<turn, script, thread, saver, forked, screen, registered, changes>>
  BY DEF Abandon, world, GraphInv, TypeOK
<1>2. next \in {"unsent", "over"} /\ next \notin Nodes
  BY DEF Nodes
<1> HIDE DEF next
<1>3. /\ \A r \in Turns : chan'[r] = IF r = t THEN NoChannels ELSE chan[r]
      /\ \A r \in Turns : node'[r] = IF r = t THEN next ELSE node[r]
      /\ \A r \in Turns : unseen'[r] = IF r = t THEN <<>> ELSE unseen[r]
      /\ unseen' = [r \in Turns |-> unseen'[r]]
  BY <1>1 DEF GraphInv, TypeOK, ScriptInv
<1>4. TypeOK'
  BY <1>1, <1>2, NoChannelsType DEF GraphInv, TypeOK
<1>5. RunInv' /\ ThreadInv'
  BY <1>1, <1>2, <1>3, RunFrame DEF GraphInv, ThreadInv
<1>6. ScriptInv'
  <2>1. ASSUME NEW r \in Turns
        PROVE  /\ unseen'[r] \in Shows(r)
               /\ r > turn => script[r] = "none" /\ node'[r] = "unsent" /\ unseen'[r] = <<>>
               /\ script[r] = "live" => r = turn /\ Awaits(screen.messages, r)
    <3>1. ~(t > turn)
      BY <1>1 DEF GraphInv, ScriptInv
    <3>2. <<>> \in Shows(r)
      BY DEF Shows
    <3> QED
      BY <1>3, <3>1, <3>2 DEF GraphInv, ScriptInv
  <2> QED
    BY <1>1, <1>3, <2>1 DEF ScriptInv
<1> QED
  BY <1>4, <1>5, <1>6 DEF GraphInv

-----------------------------------------------------------------------------
(* Every step                                                              *)

LEMMA StepInv == GraphInv /\ [Next]_vars => GraphInv'
<1> SUFFICES ASSUME GraphInv, [Next]_vars PROVE GraphInv'
  OBVIOUS
<1>1. CASE Submit
  BY <1>1, SubmitInv
<1>2. CASE Rerun
  <2>1. /\ script[turn] = "live" /\ script' = [script EXCEPT ![turn] = "stopped"]
        /\ turn \in Turns
        /\ UNCHANGED <<turn, node, unseen, chan, thread, saver, forked, screen>>
        /\ registered' = registered /\ changes' = changes
    BY <1>2, GraphAssumption DEF Rerun, world, GraphInv, TypeOK, Turns
  <2>2. /\ script' \in [Turns -> {"none", "live", "stopped", "done"}]
        /\ \A r \in Turns : script'[r] = IF r = turn THEN "stopped" ELSE script[r]
        /\ registered' \subseteq Dept /\ changes' \in 0..MaxChanges
    BY <2>1 DEF GraphInv, TypeOK
  <2>3. \A r \in Turns : r > turn => script'[r] = "none"
    BY <2>1, <2>2 DEF GraphInv, ScriptInv
  <2> QED
    BY <2>1, <2>2, <2>3, StillInv
<1>3. CASE \E t \in Turns : GraphStep(t)
  BY <1>3, GraphStepInv
<1>4. CASE \E t \in Turns : ScriptStep(t)
  BY <1>4, SendInv, ShowInv, PersistInv, AbandonInv DEF ScriptStep
<1>5. CASE Refresh
  <2>1. /\ UNCHANGED <<turn, script, node, unseen, chan, thread, saver, forked, screen>>
        /\ registered' \subseteq Dept /\ changes' \in 0..MaxChanges
    BY <1>5, GraphAssumption DEF Refresh, GraphInv, TypeOK
  <2>2. \A r \in Turns : r > turn => script[r] = "none"
    BY DEF GraphInv, ScriptInv
  <2> QED
    BY <2>1, <2>2, StillInv DEF GraphInv, TypeOK
<1>6. CASE Done \/ UNCHANGED vars
  <2>1. UNCHANGED <<turn, script, node, unseen, chan, thread, saver, forked, screen,
                    registered, changes>>
    BY <1>6 DEF Done, vars, world
  <2>2. \A r \in Turns : r > turn => script[r] = "none"
    BY DEF GraphInv, ScriptInv
  <2> QED
    BY <2>1, <2>2, StillInv DEF GraphInv, TypeOK
<1> QED
  BY <1>1, <1>2, <1>3, <1>4, <1>5, <1>6 DEF Next

-----------------------------------------------------------------------------
(* The theorems                                                            *)

\* Every reachable state of a session satisfies the invariant: only the newest
\* turn's script is at work and the page waits for its answer, a run's messages
\* end with its own prompt, and what it has staged is its own turn's.
THEOREM GraphInvariant == Spec => []GraphInv
BY InitInv, StepInv, PTL DEF Spec

\* The turns, the channels of AgentState, the page and the registry keep their
\* types, whatever the router replies.
THEOREM GraphTypeCorrect == Spec => []TypeOK
<1>1. GraphInv => TypeOK
  BY DEF GraphInv
<1> QED
  BY <1>1, GraphInvariant, PTL

\* An answer stands right behind its own turn's prompt and is made of that
\* turn's data, on the page and in the thread: leftovers of a turn that raised
\* or was abandoned are never answered with (_responder_node, app.py's stream
\* loop).
THEOREM AnswersAreOwn == Spec => []OwnAnswer
<1>1. GraphInv => OwnAnswer
  BY DEF GraphInv, ThreadInv, Own, OwnAnswer
<1> QED
  BY <1>1, GraphInvariant, PTL

\* The types of a history's messages, and of one that has grown.
LEMMA TalkGrows ==
    ASSUME NEW log \in Seq(Prompts \cup Answers), NEW m \in Prompts \cup Answers
    PROVE  LET then == Append(log, m)
           IN  [i \in DOMAIN then |-> then[i].type]
               = Append([i \in DOMAIN log |-> log[i].type], m.type)
<1> DEFINE then == Append(log, m)
           spoken == [i \in DOMAIN log |-> log[i].type]
           says == [i \in DOMAIN then |-> then[i].type]
           Kinds == {"human", "ai"}
<1>1. /\ then \in Seq(Prompts \cup Answers) /\ Len(then) = Len(log) + 1 /\ Len(log) \in Nat
      /\ DOMAIN then = 1..Len(log) + 1 /\ DOMAIN log = 1..Len(log)
      /\ then[Len(log) + 1] = m /\ \A i \in 1..Len(log) : then[i] = log[i]
  BY AppendProperties
<1>2. \A x \in Prompts \cup Answers : x.type \in Kinds
  BY MessageFacts
<1> HIDE DEF then, Kinds
<1>3. spoken \in Seq(Kinds) /\ Len(spoken) = Len(log) /\ \A i \in 1..Len(log) : spoken[i] = log[i].type
  <2>1. \A i \in 1..Len(log) : log[i].type \in Kinds
    BY <1>1, <1>2
  <2> QED
    BY <1>1, <2>1
<1>4. says \in Seq(Kinds) /\ Len(says) = Len(log) + 1
      /\ \A i \in 1..Len(log) + 1 : says[i] = then[i].type
  <2>1. \A i \in 1..Len(log) + 1 : then[i].type \in Kinds
    BY <1>1, <1>2
  <2> QED
    BY <1>1, <2>1
<1> HIDE DEF spoken, says
<1>5. /\ Append(spoken, m.type) \in Seq(Kinds) /\ Len(Append(spoken, m.type)) = Len(log) + 1
      /\ Append(spoken, m.type)[Len(log) + 1] = m.type
      /\ \A i \in 1..Len(log) : Append(spoken, m.type)[i] = spoken[i]
  BY <1>1, <1>2, <1>3, AppendProperties
<1>6. \A i \in 1..Len(log) + 1 : says[i] = Append(spoken, m.type)[i]
  <2>1. says[Len(log) + 1] = Append(spoken, m.type)[Len(log) + 1]
    BY <1>1, <1>4, <1>5
  <2>2. \A i \in 1..Len(log) : says[i] = Append(spoken, m.type)[i]
    BY <1>1, <1>3, <1>4, <1>5
  <2>3. Len(log) \in Nat
    BY <1>1
  <2>4. \A i \in 1..Len(log) + 1 : i \in 1..Len(log) \/ i = Len(log) + 1
    BY <2>3
  <2> QED
    BY <2>1, <2>2, <2>4
<1>7. says = Append(spoken, m.type)
  BY <1>4, <1>5, <1>6, SeqEqual
<1> QED
  BY <1>7 DEF spoken, says, then

\* The page, however often it is drawn again, is a conversation: one prompt at a
\* time, each answered at most once and before the next, nothing withdrawn.
THEOREM GraphMeetsConversation == Spec => MeetsConversation
<1> DEFINE spoken == [i \in DOMAIN screen.messages |-> screen.messages[i].type]
           open == turn > 0 /\ script[turn] = "live"
<1>1. Init => Talk!Init
  BY GraphAssumption DEF Init, Talk!Init
<1>2. GraphInv /\ [Next]_vars => [Talk!Next]_(Talk!cvars)
  <2> SUFFICES ASSUME GraphInv, [Next]_vars PROVE [Talk!Next]_(Talk!cvars)
    OBVIOUS
  <2>1. CASE Submit
    <3>1. ~open /\ open' /\ spoken' = Append(spoken, "human")
      <4>1. /\ turn \in Nat /\ turn' = turn + 1 /\ turn' \in Turns
            /\ screen'.messages = Append(screen.messages, Prompt(turn'))
            /\ script' = [script EXCEPT ![turn'] = "live"]
        BY <2>1, GraphAssumption DEF Submit, GraphInv, TypeOK, Turns
      <4>2. ~open
        BY <2>1 DEF Submit
      <4>3. open'
        BY <4>1 DEF GraphInv, TypeOK
      <4> PICK p : p = Prompt(turn')
        OBVIOUS
      <4>4. p \in Prompts /\ p.type = "human"
        BY <4>1, MessageFacts
      <4>5. screen.messages \in Seq(Prompts \cup Answers)
        BY DEF GraphInv, TypeOK
      <4> QED
        BY <4>1, <4>2, <4>3, <4>4, <4>5, TalkGrows
    <3> QED
      BY <3>1 DEF Talk!Next, Talk!Ask
  <2>2. CASE Rerun
    <3>1. open /\ ~open' /\ spoken' = spoken
      BY <2>2, GraphAssumption DEF Rerun, GraphInv, TypeOK, Turns
    <3> QED
      BY <3>1 DEF Talk!Next, Talk!Drop
  <2>3. ASSUME NEW t \in Turns, Persist(t) PROVE Talk!Next
    <3>1. /\ script[t] = "live" /\ t = turn /\ turn' = turn /\ turn > 0
          /\ script' = [script EXCEPT ![t] = "done"]
          /\ screen' = [screen EXCEPT !.messages = @ \o TurnMessages(t)]
      BY <2>3, PageFacts DEF Persist, Turns
    <3>2. open /\ ~open'
      BY <3>1 DEF GraphInv, TypeOK
    <3>3. screen'.messages = screen.messages \o TurnMessages(t)
          /\ screen.messages \in Seq(Prompts \cup Answers)
      BY <3>1, PageFacts
    <3>4. unseen[t] = <<>> \/ \E m \in OwnAnswers(t) : unseen[t] = <<AnswerItem(m)>>
      <4>1. unseen[t] \in Shows(t) /\ \A i \in DOMAIN unseen[t] : unseen[t][i].what = "answer"
        BY <2>3, <3>1, PageFacts DEF StreamOver, Persist
      <4> QED
        BY <4>1, ShowsFacts
    <3>5. CASE unseen[t] = <<>>
      <4>1. TurnMessages(t) = <<>>
        BY <3>5 DEF TurnMessages
      <4>2. screen'.messages = screen.messages
        BY <3>3, <4>1, ConcatProperties
      <4>3. spoken' = spoken
        BY <4>2
      <4> QED
        BY <3>2, <4>3 DEF Talk!Next, Talk!Drop
    <3>6. ASSUME NEW m \in OwnAnswers(t), unseen[t] = <<AnswerItem(m)>>
          PROVE  Talk!Next
      <4>1. TurnMessages(t) = <<m>>
        BY <3>6 DEF TurnMessages, AnswerItem
      <4>2. m \in Prompts \cup Answers /\ m.type = "ai"
        BY MessageFacts DEF OwnAnswers
      <4>3. screen'.messages = Append(screen.messages, m)
        BY <3>3, <4>1, <4>2, AppendIsConcat
      <4>4. spoken' = Append(spoken, "ai")
        BY <3>3, <4>2, <4>3, TalkGrows
      <4> QED
        BY <3>2, <4>4 DEF Talk!Next, Talk!Answer
    <3> QED
      BY <3>4, <3>5, <3>6
  <2>4. CASE \/ Refresh \/ Done \/ UNCHANGED vars
             \/ \E t \in Turns : GraphStep(t) \/ Send(t) \/ Show(t) \/ Abandon(t)
    <3>1. turn' = turn /\ script' = script /\ screen'.messages = screen.messages
      <4>1. CASE \E t \in Turns : Show(t)
        <5> PICK t \in Turns : Show(t)
          BY <4>1
        <5>1. /\ unseen[t] \in Shows(t) /\ unseen[t] # <<>> /\ Head(unseen[t]).what # "answer"
              /\ turn' = turn /\ script' = script
          BY PageFacts DEF Show
        <5>2. Head(unseen[t]).what = "node" \/ Head(unseen[t]).what = "audit"
          BY <5>1, ShowsFacts
        <5>3. screen' = CASE Head(unseen[t]).what = "node" -> screen
                          [] Head(unseen[t]).what = "audit" ->
                                 [screen EXCEPT !.audit_log = @ \o Head(unseen[t]).writes]
          BY DEF Show
        <5>4. screen'.messages = screen.messages
          BY <5>2, <5>3 DEF GraphInv, TypeOK
        <5> QED
          BY <5>1, <5>4
      <4>2. CASE \/ Refresh \/ Done \/ UNCHANGED vars
                 \/ \E t \in Turns : Send(t) \/ Abandon(t)
        BY <4>2 DEF Refresh, Done, vars, Send, Abandon
      <4>3. ASSUME NEW t \in Turns, GraphStep(t)
            PROVE  UNCHANGED <<turn, script, screen>>
        <5>1. CASE \/ \E reply \in Reply : RouterReplyRaises(t, reply)
                   \/ RouterUnreachable(t) \/ FanoutRaises(t) \/ ResponderRaises(t)
          BY <5>1 DEF RouterReplyRaises, RouterUnreachable, FanoutRaises, ResponderRaises,
             TurnFails
        <5>2. CASE \E reply \in Reply : Orchestrator(t, reply)
          BY <5>2 DEF Orchestrator, Saves
        <5>3. CASE FanoutNoneResolved(t) \/ Responder(t)
          BY <5>3 DEF FanoutNoneResolved, Responder, Saves
        <5>4. CASE \E writes \in Writes(t) : Fanout(t, writes)
          BY <5>4 DEF Fanout, Saves
        <5> QED
          BY <4>3, <5>1, <5>2, <5>3, <5>4 DEF GraphStep
      <4> QED
        BY <2>4, <4>1, <4>2, <4>3
    <3>2. spoken' = spoken /\ open' = open
      BY <3>1
    <3> QED
      BY <3>2 DEF Talk!cvars
  <2> QED
    BY <2>1, <2>2, <2>3, <2>4 DEF Next, ScriptStep
<1> QED
  BY <1>1, <1>2, GraphInvariant, PTL DEF Spec, MeetsConversation, Talk!Spec

-----------------------------------------------------------------------------
(* Copies in a list                                                        *)

\* Nothing stands in the empty list.
LEMMA CopiesEmpty == \A x : Copies(<<>>, x) = 0
<1>1. ASSUME NEW x PROVE {i \in DOMAIN <<>> : <<>>[i] = x} = {}
  OBVIOUS
<1> QED
  BY <1>1, FS_EmptySet DEF Copies

\* The places of x in a list.
LEMMA CopiesFinite ==
    ASSUME NEW S, NEW s \in Seq(S), NEW x
    PROVE  /\ IsFiniteSet({i \in 1..Len(s) : s[i] = x})
           /\ Copies(s, x) = Cardinality({i \in 1..Len(s) : s[i] = x})
           /\ Copies(s, x) \in Nat
<1>1. DOMAIN s = 1..Len(s) /\ Len(s) \in Nat /\ 1 \in Int /\ Len(s) \in Int
  OBVIOUS
<1>2. IsFiniteSet(1..Len(s))
  BY <1>1, FS_Interval
<1> DEFINE places == {i \in 1..Len(s) : s[i] = x}
<1>3. places \in SUBSET (1..Len(s))
  OBVIOUS
<1>4. Copies(s, x) = Cardinality(places)
  BY <1>1 DEF Copies
<1> HIDE DEF places
<1>5. IsFiniteSet(places)
  BY <1>2, <1>3, FS_Subset
<1>6. Cardinality(places) \in Nat
  BY <1>5, FS_CardinalityType
<1> QED
  BY <1>4, <1>5, <1>6 DEF places

\* One more element.
LEMMA CopiesAppend ==
    ASSUME NEW S, NEW s \in Seq(S), NEW y \in S, NEW x
    PROVE  Copies(Append(s, y), x) = Copies(s, x) + (IF y = x THEN 1 ELSE 0)
<1> DEFINE then == Append(s, y)
           places == {i \in 1..Len(s) : s[i] = x}
           after == {i \in 1..Len(then) : then[i] = x}
<1>1. /\ then \in Seq(S) /\ Len(then) = Len(s) + 1 /\ Len(s) \in Nat
      /\ then[Len(s) + 1] = y /\ \A i \in 1..Len(s) : then[i] = s[i]
  BY AppendProperties
<1>2. /\ IsFiniteSet(places) /\ Copies(s, x) = Cardinality(places) /\ Copies(s, x) \in Nat
      /\ Copies(then, x) = Cardinality(after)
  BY <1>1, CopiesFinite
<1> HIDE DEF then
<1>3. CASE y = x
  <2>1. after = places \cup {Len(s) + 1} /\ Len(s) + 1 \notin places
    BY <1>1, <1>3
  <2> HIDE DEF places, after
  <2>2. Cardinality(after) = Cardinality(places) + 1
    BY <1>2, <2>1, FS_AddElement
  <2> QED
    BY <1>2, <1>3, <2>2 DEF then
<1>4. CASE y # x
  <2>1. after = places
    BY <1>1, <1>4
  <2> HIDE DEF places, after
  <2> QED
    BY <1>2, <1>4, <2>1 DEF then
<1> QED
  BY <1>3, <1>4

\* One list behind the other.
LEMMA CopiesConcat ==
    ASSUME NEW S, NEW s \in Seq(S), NEW t \in Seq(S), NEW x
    PROVE  Copies(s \o t, x) = Copies(s, x) + Copies(t, x)
<1> DEFINE then == s \o t
           places == {i \in 1..Len(s) : s[i] = x}
           behind == {i \in 1..Len(t) : t[i] = x}
           moved == {i \in Len(s) + 1..Len(s) + Len(t) : t[i - Len(s)] = x}
           after == {i \in 1..Len(then) : then[i] = x}
           shift == [i \in behind |-> Len(s) + i]
<1>1. /\ then \in Seq(S) /\ Len(then) = Len(s) + Len(t) /\ Len(s) \in Nat /\ Len(t) \in Nat
      /\ \A i \in 1..Len(s) + Len(t) :
            then[i] = IF i <= Len(s) THEN s[i] ELSE t[i - Len(s)]
  BY ConcatProperties
<1>2. /\ IsFiniteSet(places) /\ Copies(s, x) = Cardinality(places) /\ Copies(s, x) \in Nat
      /\ IsFiniteSet(behind) /\ Copies(t, x) = Cardinality(behind) /\ Copies(t, x) \in Nat
      /\ Copies(then, x) = Cardinality(after)
  BY <1>1, CopiesFinite
<1> HIDE DEF then
<1>3. after = places \cup moved /\ places \cap moved = {}
  BY <1>1
<1>4. IsFiniteSet(moved) /\ Cardinality(moved) = Cardinality(behind)
  <2>1. shift \in [behind -> moved]
    BY <1>1
  <2>2. \A i, j \in behind : shift[i] = shift[j] => i = j
    BY <1>1
  <2>3. \A j \in moved : \E i \in behind : shift[i] = j
    <3> SUFFICES ASSUME NEW j \in moved PROVE \E i \in behind : shift[i] = j
      OBVIOUS
    <3>1. j - Len(s) \in behind /\ shift[j - Len(s)] = j
      BY <1>1
    <3> QED
      BY <3>1
  <2> HIDE DEF shift, behind, moved
  <2>4. shift \in Bijection(behind, moved)
    BY <2>1, <2>2, <2>3, Fun_IsBij
  <2>5. ExistsBijection(behind, moved)
    BY <2>4 DEF ExistsBijection
  <2> QED
    BY <1>2, <2>5, FS_Bijection
<1> HIDE DEF places, behind, moved, after
<1>5. Cardinality(places \cup moved)
      = Cardinality(places) + Cardinality(moved) - Cardinality(places \cap moved)
  BY <1>2, <1>4, FS_Union
<1>6. Cardinality(places \cap moved) = 0
  BY <1>3, FS_EmptySet
<1> QED
  BY <1>2, <1>3, <1>4, <1>5, <1>6 DEF then

-----------------------------------------------------------------------------
(* The page and the thread: invariant                                      *)

AnswersOf(t) == {m \in Answers : m.turn = t}

\* What an update has yet to tell: writes, an answer.
LastItem(items) == items[Len(items)]
AuditWaiting(items) ==
    IF items # <<>> /\ LastItem(items).what = "audit" THEN LastItem(items).writes ELSE <<>>
AnswerWaiting(items) ==
    IF items # <<>> /\ LastItem(items).what = "answer" THEN <<LastItem(items).message>> ELSE <<>>

\* Writes of a turn on the page, in the channels and in the channels' log.
Shown(page, t) == Copies(FlattenSeq(page.audit_log), t)
Held(c, t) == Copies(c.pending_writes, t)
Logged(c, t) == Copies(FlattenSeq(c.audit_log), t)

\* Before its fanout a turn has no writes.
Early == {"unsent", "orchestrator", "subagent_fanout"}

\* The page and what waits to be shown of turn t, whose run is at n and whose
\* script is s: its own writes, not shown before.
Waits(page, items, n, s, t) ==
    /\ AuditWaiting(items) # <<>> =>
          /\ AuditWaiting(items) = <<AuditWaiting(items)[1]>>
          /\ AuditWaiting(items)[1] \in Seq({t})
          /\ Shown(page, t) = 0
    /\ n \in Early => AuditWaiting(items) = <<>> /\ Shown(page, t) = 0
    /\ n # "over" => AnswerWaiting(items) = <<>> /\ s # "done"
    /\ s = "done" => items = <<>>
    /\ n = "unsent" => \A m \in AnswersOf(t) : Copies(page.messages, m) = 0

\* Channels c and the page tell the same story of turn t, but for what waits.
Tells(c, page, items, n, s, t) ==
    /\ Logged(c, t) = Held(c, t)
    /\ n \in Early => Held(c, t) = 0
    /\ Shown(page, t) \in {0, Held(c, t)}
    /\ s \in {"live", "done"} =>
          Shown(page, t) + Copies(FlattenSeq(AuditWaiting(items)), t) = Held(c, t)
    /\ \A m \in AnswersOf(t) :
          /\ n # "over" => Copies(c.messages, m) = 0
          /\ s \in {"live", "done"} =>
                Copies(page.messages, m) + Copies(AnswerWaiting(items), m)
                    = Copies(c.messages, m)

\* The newest run is in the graph; its channels are the thread's to be.
Running == Newest # 0 /\ node[Newest] \in Nodes
View == IF Running THEN chan[Newest] ELSE thread
Told == ~forked /\ (saver = Newest \/ Running)

WaitInv == \A t \in Turns : Waits(screen, unseen[t], node[t], script[t], t)
SaverInv == Running /\ saver = Newest => thread = chan[Newest]
TellInv == Told => \A t \in Turns : Tells(View, screen, unseen[t], node[t], script[t], t)

ScreenInv == WaitInv /\ SaverInv /\ TellInv

-----------------------------------------------------------------------------
(* What the invariant counts                                               *)

Page == [messages : Seq(Prompts \cup Answers), audit_log : Seq(Seq(Turns))]

LEMMA PageCounts ==
    ASSUME NEW page \in Page, NEW x
    PROVE  Shown(page, x) \in Nat /\ Copies(page.messages, x) \in Nat
<1>1. page.messages \in Seq(Prompts \cup Answers) /\ page.audit_log \in Seq(Seq(Turns))
  BY DEF Page
<1>2. FlattenSeq(page.audit_log) \in Seq(Turns)
  BY <1>1, FlattenType
<1> QED
  BY <1>1, <1>2, CopiesFinite DEF Shown

LEMMA ChannelCounts ==
    ASSUME NEW c \in Channels, NEW x
    PROVE  /\ Held(c, x) \in Nat /\ Logged(c, x) \in Nat
           /\ Copies(c.messages, x) \in Nat
<1>1. /\ c.messages \in Seq(Prompts \cup Answers) /\ c.audit_log \in Seq(Seq(Turns))
      /\ c.pending_writes \in Seq(Turns)
  BY DEF Channels
<1>2. FlattenSeq(c.audit_log) \in Seq(Turns)
  BY <1>1, FlattenType
<1> QED
  BY <1>1, <1>2, CopiesFinite DEF Held, Logged

\* What waits in the updates there are.
LEMMA WaitingFacts ==
    /\ AuditWaiting(<<>>) = <<>> /\ AnswerWaiting(<<>>) = <<>>
    /\ AuditWaiting(<<NodeItem>>) = <<>> /\ AnswerWaiting(<<NodeItem>>) = <<>>
    /\ \A w : /\ AuditWaiting(<<AuditItem(w)>>) = w
              /\ AuditWaiting(<<NodeItem, AuditItem(w)>>) = w
              /\ AnswerWaiting(<<AuditItem(w)>>) = <<>>
              /\ AnswerWaiting(<<NodeItem, AuditItem(w)>>) = <<>>
    /\ \A m : /\ AnswerWaiting(<<AnswerItem(m)>>) = <<m>>
              /\ AnswerWaiting(<<NodeItem, AnswerItem(m)>>) = <<m>>
              /\ AuditWaiting(<<AnswerItem(m)>>) = <<>>
              /\ AuditWaiting(<<NodeItem, AnswerItem(m)>>) = <<>>
<1>1. LastItem(<<NodeItem>>) = NodeItem /\ <<NodeItem>> # <<>> /\ NodeItem.what = "node"
  BY DEF LastItem, NodeItem
<1>2. ASSUME NEW x PROVE /\ LastItem(<<x>>) = x /\ <<x>> # <<>>
                         /\ LastItem(<<NodeItem, x>>) = x /\ <<NodeItem, x>> # <<>>
  BY DEF LastItem
<1>3. ASSUME NEW w PROVE AuditItem(w).what = "audit" /\ AuditItem(w).writes = w
  BY DEF AuditItem
<1>4. ASSUME NEW m PROVE AnswerItem(m).what = "answer" /\ AnswerItem(m).message = m
  BY DEF AnswerItem
<1> QED
  BY <1>1, <1>2, <1>3, <1>4 DEF AuditWaiting, AnswerWaiting

\* Writes of one turn are of no other, and an answer is one.
LEMMA WritesFacts ==
    ASSUME NEW t \in Turns, NEW ws \in Seq({t})
    PROVE  /\ ws \in Seq(Turns) /\ FlattenSeq(<<ws>>) = ws
           /\ Copies(ws, t) \in Nat
           /\ \A r \in Turns : r # t => Copies(ws, r) = 0
<1>1. ws \in Seq(Turns)
  OBVIOUS
<1>2. FlattenSeq(<<ws>>) = ws
  <2>1. <<>> \in Seq(Seq(Turns)) /\ <<ws>> = Append(<<>>, ws)
    BY <1>1
  <2>2. FlattenSeq(Append(<<>>, ws)) = FlattenSeq(<<>>) \o ws
    BY <1>1, <2>1, FlattenAppend
  <2>3. <<>> \o ws = ws
    BY <1>1, ConcatEmptySeq
  <2> QED
    BY <2>1, <2>2, <2>3, FlattenEmpty
<1>3. ASSUME NEW r \in Turns, r # t PROVE Copies(ws, r) = 0
  <2>1. {i \in DOMAIN ws : ws[i] = r} = {}
    BY <1>3
  <2> QED
    BY <2>1, FS_EmptySet DEF Copies
<1> QED
  BY <1>1, <1>2, <1>3, CopiesFinite

LEMMA AnswerFoundOnce ==
    ASSUME NEW m, NEW x
    PROVE  Copies(<<m>>, x) = IF m = x THEN 1 ELSE 0
<1>1. <<m>> \in Seq({m}) /\ Len(<<m>>) = 1 /\ <<m>>[1] = m
  OBVIOUS
<1> DEFINE places == {i \in 1..1 : <<m>>[i] = x}
<1>2. Copies(<<m>>, x) = Cardinality(places)
  BY <1>1, CopiesFinite
<1>3. places = IF m = x THEN {1} ELSE {}
  BY <1>1
<1> HIDE DEF places
<1> QED
  BY <1>2, <1>3, FS_Singleton, FS_EmptySet

-----------------------------------------------------------------------------
(* What a step leaves as it was                                            *)

\* A turn about which nothing is told, or to be told, that was not before.
LEMMA WaitsFrame ==
    ASSUME NEW page, NEW items, NEW n, NEW s, NEW t,
           Waits(page, items, n, s, t),
           NEW page2, NEW items2, NEW n2, NEW s2,
           Shown(page2, t) = Shown(page, t),
           \A m \in AnswersOf(t) : Copies(page2.messages, m) = Copies(page.messages, m),
           AuditWaiting(items2) \in {<<>>, AuditWaiting(items)},
           AnswerWaiting(items2) \in {<<>>, AnswerWaiting(items)},
           n2 \in Early => n \in Early, n2 # "over" => n # "over",
           n2 = "unsent" => n = "unsent",
           s2 = "done" => n2 = "over" /\ items2 = <<>>
    PROVE  Waits(page2, items2, n2, s2, t)
BY DEF Waits

LEMMA TellsFrame ==
    ASSUME NEW c, NEW page, NEW items, NEW n, NEW s, NEW t,
           Tells(c, page, items, n, s, t),
           NEW c2, NEW page2, NEW items2, NEW n2, NEW s2,
           Held(c2, t) = Held(c, t), Logged(c2, t) = Logged(c, t),
           \A m \in AnswersOf(t) : Copies(c2.messages, m) = Copies(c.messages, m),
           Shown(page2, t) = Shown(page, t),
           \A m \in AnswersOf(t) : Copies(page2.messages, m) = Copies(page.messages, m),
           n2 \in Early => n \in Early, n2 # "over" => n # "over",
           s2 \in {"live", "done"} =>
               /\ s \in {"live", "done"}
               /\ AuditWaiting(items2) = AuditWaiting(items)
               /\ AnswerWaiting(items2) = AnswerWaiting(items)
    PROVE  Tells(c2, page2, items2, n2, s2, t)
BY DEF Tells

\* The last of the turns that a run has been sent for.
LastSent(at) == Max({0} \cup {t \in Turns : at[t] # "unsent"})

LEMMA LastSentFacts ==
    ASSUME NEW at
    PROVE  /\ LastSent(at) \in 0..MaxTurns /\ LastSent(at) \in Nat
           /\ LastSent(at) # 0 => LastSent(at) \in Turns /\ at[LastSent(at)] # "unsent"
           /\ \A t \in Turns : at[t] # "unsent" => t <= LastSent(at) /\ LastSent(at) # 0
<1> DEFINE sent == {t \in Turns : at[t] # "unsent"}
           all == {0} \cup sent
           last == LastSent(at)
<1>1. all \in SUBSET (0..MaxTurns) /\ 0 \in all
  BY GraphAssumption DEF Turns
<1>2. last = Max(all)
  BY DEF LastSent
<1>3. MaxTurns \in Nat /\ all # {}
  BY <1>1, GraphAssumption
<1> HIDE DEF all, last
<1>4. last \in all /\ \A m \in all : m <= last
  BY <1>1, <1>2, <1>3, MaxFacts
<1>5. last \in 0..MaxTurns /\ last \in Nat
  <2>1. last \in 0..MaxTurns
    BY <1>1, <1>4
  <2>2. \A k \in 0..MaxTurns : k \in Nat
    BY <1>3
  <2> QED
    BY <2>1, <2>2
<1>6. last # 0 => last \in Turns /\ at[last] # "unsent"
  BY <1>4 DEF all
<1>7. ASSUME NEW t \in Turns, at[t] # "unsent"
      PROVE  t <= last /\ last # 0
  <2>1. t <= last
    BY <1>4, <1>7 DEF all
  <2> QED
    BY <1>5, <2>1 DEF Turns
<1> QED
  BY <1>5, <1>6, <1>7 DEF last

\* The newest run.
LEMMA NewestFacts ==
    /\ Newest \in 0..MaxTurns /\ Newest \in Nat
    /\ Newest # 0 => Newest \in Turns /\ node[Newest] # "unsent"
    /\ \A t \in Turns : node[t] # "unsent" => t <= Newest /\ Newest # 0
<1>1. Newest = LastSent(node)
  BY DEF Newest, LastSent
<1> QED
  BY <1>1, LastSentFacts

\* It stays the newest while no prompt is sent.
LEMMA NewestSame ==
    ASSUME \A t \in Turns : node'[t] = "unsent" <=> node[t] = "unsent"
    PROVE  Newest' = Newest
<1>1. {t \in Turns : node'[t] # "unsent"} = {t \in Turns : node[t] # "unsent"}
  OBVIOUS
<1> QED
  BY <1>1 DEF Newest

\* A run in the graph that is not the newest has no script any more.
LEMMA OvertakenFacts ==
    ASSUME GraphInv, NEW t \in Turns, node[t] \in Nodes
    PROVE  /\ Newest \in Turns /\ t <= Newest /\ Newest <= turn
           /\ t # Newest => script[t] # "live"
           /\ t = Newest => Running /\ View = chan[t]
<1>1. TypeOK /\ node[t] # "unsent"
  BY DEF GraphInv, Nodes
<1>2. /\ Newest \in Turns /\ t <= Newest /\ node[Newest] # "unsent" /\ Newest # 0
      /\ Newest \in Nat
  BY <1>1, NewestFacts
<1>3. Newest <= turn
  <2>1. turn \in Nat /\ ~(Newest > turn)
    BY <1>1, <1>2, GraphAssumption DEF GraphInv, ScriptInv, TypeOK
  <2> QED
    BY <1>2, <2>1
<1>4. script[t] = "live" => t = turn
  BY DEF GraphInv, ScriptInv
<1>5. t # Newest => script[t] # "live"
  BY <1>2, <1>3, <1>4, <1>1, GraphAssumption DEF Turns, TypeOK
<1>6. t = Newest => Running /\ View = chan[t]
  BY <1>2 DEF Running, View
<1> QED
  BY <1>2, <1>3, <1>5, <1>6

\* The page and what is shown of it.
LEMMA PageIs ==
    ASSUME GraphInv
    PROVE  /\ screen \in Page /\ thread \in Channels
           /\ \A t \in Turns : chan[t] \in Channels
           /\ View \in Channels
<1>1. screen \in Page /\ thread \in Channels /\ \A t \in Turns : chan[t] \in Channels
  BY DEF GraphInv, TypeOK, Page
<1>2. TypeOK
  BY DEF GraphInv
<1> QED
  BY <1>1, <1>2, NewestFacts DEF View, Running

-----------------------------------------------------------------------------
(* The nodes and the page                                                  *)

\* A node ends: the page has its update to show.  What the newest run tells is
\* for the node to say.
LEMMA SavesScreen ==
    ASSUME GraphInv, ScreenInv, NEW t \in Turns, node[t] \in Nodes,
           NEW update, NEW next \in {"over"} \cup Nodes, NEW items,
           Saves(t, update, next, items),
           next \in Early => node[t] \in Early,
           Waits(screen, <<NodeItem>> \o items, next, script[t], t),
           Told /\ t = Newest =>
               /\ Tells(update, screen, <<NodeItem>> \o items, next, script[t], t)
               /\ \A r \in Turns : r # t =>
                     Tells(update, screen, unseen[r], node[r], script[r], r)
    PROVE  ScreenInv'
<1> PICK waiting : waiting = <<NodeItem>> \o items
  OBVIOUS
<1>1. /\ thread' = update /\ saver' = t
      /\ UNCHANGED <<turn, script, forked, screen>>
      /\ chan'[t] = (IF next = "over" THEN NoChannels ELSE update)
      /\ node'[t] = next /\ unseen'[t] = waiting
      /\ \A r \in Turns : r # t => /\ chan'[r] = chan[r] /\ node'[r] = node[r]
                                   /\ unseen'[r] = unseen[r]
  BY DEF Saves, GraphInv, TypeOK, ScriptInv
<1>2. TypeOK /\ "unsent" \notin Nodes /\ next # "unsent" /\ "over" \notin Nodes
  BY DEF GraphInv, Nodes
<1>3. Newest' = Newest
  BY <1>1, <1>2, NewestSame
<1>4. Newest \in Turns /\ Newest # 0 /\ (t # Newest => script[t] # "live")
      /\ (t = Newest => Running /\ View = chan[t])
  BY <1>2, OvertakenFacts, NewestFacts DEF Turns
<1>5. WaitInv /\ SaverInv /\ TellInv
  BY DEF ScreenInv
<1>6. WaitInv'
  <2>1. ASSUME NEW r \in Turns
        PROVE  Waits(screen, unseen'[r], node'[r], script[r], r)
    <3>1. CASE r = t
      BY <1>1, <3>1
    <3>2. CASE r # t
      BY <1>1, <1>5, <3>2 DEF WaitInv
    <3> QED
      BY <3>1, <3>2
  <2> QED
    BY <1>1, <2>1 DEF WaitInv
<1>7. CASE t = Newest
  <2>1. (View)' = update
    BY <1>1, <1>2, <1>3, <1>4, <1>7 DEF View, Running
  <2>2. SaverInv'
    BY <1>1, <1>2, <1>3, <1>4, <1>7 DEF SaverInv, Running
  <2>3. Told' => Told
    BY <1>1, <1>4, <1>7 DEF Told
  <2>4. ASSUME Told', NEW r \in Turns
        PROVE  Tells(update, screen, unseen'[r], node'[r], script[r], r)
    <3>1. CASE r = t
      BY <1>1, <1>7, <2>3, <2>4, <3>1
    <3>2. CASE r # t
      BY <1>1, <1>7, <2>3, <2>4, <3>2
    <3> QED
      BY <3>1, <3>2
  <2>5. TellInv'
    BY <1>1, <2>1, <2>4 DEF TellInv
  <2> QED
    BY <1>6, <2>2, <2>5 DEF ScreenInv
<1>8. CASE t # Newest
  <2>1. SaverInv' /\ (Told' => Running /\ Told)
    BY <1>1, <1>3, <1>4, <1>8 DEF SaverInv, Running, Told
  <2>2. Running => (View)' = View
    BY <1>1, <1>3, <1>4, <1>8 DEF View, Running
  <2>3. ASSUME Told', NEW r \in Turns
        PROVE  Tells(View, screen, unseen'[r], node'[r], script[r], r)
    <3>1. Tells(View, screen, unseen[r], node[r], script[r], r)
      BY <1>5, <2>1, <2>3 DEF TellInv
    <3>2. CASE r = t
      <4>1. script[t] \notin {"live", "done"}
        BY <1>2, <1>4, <1>5, <1>8 DEF WaitInv, Waits
      <4>2. node[t] # "over"
        BY <1>2
      <4> QED
        BY <1>1, <3>1, <3>2, <4>1, <4>2, TellsFrame
    <3>3. CASE r # t
      BY <1>1, <3>1, <3>3
    <3> QED
      BY <3>2, <3>3
  <2>4. TellInv'
    BY <1>1, <2>1, <2>2, <2>3 DEF TellInv
  <2> QED
    BY <1>6, <2>1, <2>4 DEF ScreenInv
<1> QED
  BY <1>7, <1>8

\* A run is over, and its script shows what it has or has been stopped.
LEMMA EndsScreen ==
    ASSUME GraphInv, ScreenInv, NEW t \in Turns,
           UNCHANGED <<turn, script, thread, saver, forked, screen>>,
           node'[t] = IF node[t] = "unsent" THEN "unsent" ELSE "over",
           unseen'[t] = unseen[t] \/ (unseen'[t] = <<>> /\ script[t] = "stopped"),
           \A r \in Turns : r # t => /\ chan'[r] = chan[r] /\ node'[r] = node[r]
                                     /\ unseen'[r] = unseen[r]
    PROVE  ScreenInv'
<1>1. TypeOK /\ "unsent" \notin Nodes /\ "over" \notin Nodes
  BY DEF GraphInv, Nodes
<1>2. WaitInv /\ SaverInv /\ TellInv
  BY DEF ScreenInv
<1>3. Newest' = Newest
  BY <1>1, NewestSame
<1>4. AuditWaiting(<<>>) = <<>> /\ AnswerWaiting(<<>>) = <<>>
  BY WaitingFacts
<1>5. "over" \notin Early
  BY DEF Early
<1>6. WaitInv'
  <2>1. ASSUME NEW r \in Turns
        PROVE  Waits(screen, unseen'[r], node'[r], script[r], r)
    <3>1. Waits(screen, unseen[r], node[r], script[r], r)
      BY <1>2 DEF WaitInv
    <3>2. CASE r = t
      <4>1. script[t] = "done" => node[t] = "over" /\ unseen[t] = <<>>
        BY <3>1, <3>2 DEF Waits
      <4> QED
        BY <1>4, <1>5, <3>1, <3>2, <4>1, WaitsFrame
    <3>3. CASE r # t
      BY <3>1, <3>3
    <3> QED
      BY <3>2, <3>3
  <2> QED
    BY <2>1 DEF WaitInv
<1>7. SaverInv'
  <2>1. Running' => Running /\ Newest # t
    BY <1>1, <1>3, NewestFacts DEF Running
  <2>2. Running' => chan'[Newest] = chan[Newest]
    BY <1>1, <2>1, NewestFacts DEF Running
  <2> QED
    BY <1>2, <1>3, <2>1, <2>2 DEF SaverInv
<1>8. Told' => Told /\ (View)' = View
  <2>1. CASE Newest = t \/ Newest = 0
    <3>1. ~Running'
      BY <1>1, <1>3, <2>1 DEF Running
    <3>2. Told' => Told /\ saver = Newest
      BY <1>3, <3>1 DEF Told
    <3>3. (View)' = thread
      BY <3>1 DEF View
    <3>4. saver = Newest => View = thread
      BY <1>2 DEF View, SaverInv
    <3> QED
      BY <3>2, <3>3, <3>4
  <2>2. CASE Newest # t /\ Newest # 0
    <3>1. Newest \in Turns /\ node'[Newest] = node[Newest] /\ chan'[Newest] = chan[Newest]
      BY <1>1, <2>2, NewestFacts
    <3> QED
      BY <1>3, <3>1 DEF Told, View, Running
  <2> QED
    BY <2>1, <2>2
<1>9. TellInv'
  <2>1. ASSUME Told', NEW r \in Turns
        PROVE  Tells(View, screen, unseen'[r], node'[r], script[r], r)
    <3>1. Tells(View, screen, unseen[r], node[r], script[r], r)
      BY <1>2, <1>8, <2>1 DEF TellInv
    <3>2. CASE r = t
      BY <1>5, <3>1, <3>2, TellsFrame
    <3>3. CASE r # t
      BY <3>1, <3>3
    <3> QED
      BY <3>2, <3>3
  <2> QED
    BY <1>8, <2>1 DEF TellInv
<1> QED
  BY <1>6, <1>7, <1>9 DEF ScreenInv

\* A step that leaves every run and the thread alone.
LEMMA PageScreen ==
    ASSUME ScreenInv, UNCHANGED <<node, chan, thread, saver, forked>>,
           \A r \in Turns : Waits(screen', unseen'[r], node[r], script'[r], r),
           Told => \A r \in Turns : Tells(View, screen', unseen'[r], node[r], script'[r], r)
    PROVE  ScreenInv'
<1>1. Newest' = Newest
  BY NewestSame
<1>2. (Told' <=> Told) /\ (View)' = View /\ SaverInv'
  BY <1>1 DEF ScreenInv, Told, View, Running, SaverInv
<1>3. WaitInv' /\ TellInv'
  BY <1>2 DEF WaitInv, TellInv
<1> QED
  BY <1>2, <1>3 DEF ScreenInv

\* ... and the page.
LEMMA StillScreen ==
    ASSUME ScreenInv, UNCHANGED <<node, unseen, chan, thread, saver, forked, screen>>,
           \A r \in Turns : script'[r] = script[r] \/ script'[r] = "stopped"
    PROVE  ScreenInv'
<1>1. ASSUME NEW r \in Turns
      PROVE  Waits(screen, unseen[r], node[r], script'[r], r)
  BY DEF ScreenInv, WaitInv, Waits
<1>2. ASSUME Told, NEW r \in Turns
      PROVE  Tells(View, screen, unseen[r], node[r], script'[r], r)
  BY <1>2 DEF ScreenInv, TellInv, Tells
<1> QED
  BY <1>1, <1>2, PageScreen

\* What the newest run tells before its node ends.
LEMMA ToldBefore ==
    ASSUME GraphInv, ScreenInv, NEW t \in Turns, node[t] \in Nodes, Told, t = Newest
    PROVE  \A r \in Turns : Tells(chan[t], screen, unseen[r], node[r], script[r], r)
<1>1. View = chan[t]
  BY OvertakenFacts
<1> QED
  BY <1>1 DEF ScreenInv, TellInv

\* A node that adds neither writes nor a message.
LEMMA QuietScreen ==
    ASSUME GraphInv, ScreenInv, NEW t \in Turns, Runs(t, node[t]), node[t] \in Nodes,
           NEW update, NEW next \in Nodes,
           update.messages = chan[t].messages,
           update.pending_writes = chan[t].pending_writes,
           update.audit_log = chan[t].audit_log,
           next \in Early => node[t] \in Early,
           Saves(t, update, next, <<>>)
    PROVE  ScreenInv'
<1>1. /\ unseen[t] = <<>> /\ <<NodeItem>> \o <<>> = <<NodeItem>>
      /\ "over" \notin Nodes /\ "unsent" \notin Nodes
  BY RunFacts DEF Runs, Nodes
<1>2. /\ AuditWaiting(<<NodeItem>>) = AuditWaiting(<<>>)
      /\ AnswerWaiting(<<NodeItem>>) = AnswerWaiting(<<>>)
  BY WaitingFacts
<1>3. Waits(screen, <<>>, node[t], script[t], t)
  BY <1>1 DEF ScreenInv, WaitInv
<1>4. Waits(screen, <<NodeItem>> \o <<>>, next, script[t], t)
  <2>1. script[t] # "done"
    BY <1>1, <1>3 DEF Waits
  <2> QED
    BY <1>1, <1>2, <1>3, <2>1, WaitsFrame
<1>5. \A r : /\ Held(update, r) = Held(chan[t], r) /\ Logged(update, r) = Logged(chan[t], r)
             /\ Copies(update.messages, r) = Copies(chan[t].messages, r)
  BY DEF Held, Logged
<1>6. ASSUME Told, t = Newest
      PROVE  /\ Tells(update, screen, <<NodeItem>> \o <<>>, next, script[t], t)
             /\ \A r \in Turns : r # t =>
                   Tells(update, screen, unseen[r], node[r], script[r], r)
  <2>1. \A r \in Turns : Tells(chan[t], screen, unseen[r], node[r], script[r], r)
    BY <1>6, ToldBefore
  <2>2. Tells(update, screen, <<NodeItem>> \o <<>>, next, script[t], t)
    <3>1. Tells(chan[t], screen, <<>>, node[t], script[t], t)
      BY <1>1, <2>1
    <3> QED
      BY <1>1, <1>2, <1>5, <3>1, TellsFrame
  <2>3. ASSUME NEW r \in Turns, r # t
        PROVE  Tells(update, screen, unseen[r], node[r], script[r], r)
    <3>1. Tells(chan[t], screen, unseen[r], node[r], script[r], r)
      BY <2>1
    <3> QED
      BY <1>5, <3>1, TellsFrame
  <2> QED
    BY <2>2, <2>3
<1> QED
  BY <1>4, <1>6, SavesScreen

LEMMA OrchestratorScreen ==
    ASSUME GraphInv, ScreenInv, NEW t \in Turns, NEW reply \in Reply, Orchestrator(t, reply)
    PROVE  ScreenInv'
<1> DEFINE message == [turn |-> t, form |-> reply.form]
           query == [turn |-> t, kind |-> QueryOf(reply), prompt |-> PromptInWindow]
           new == [chan[t] EXCEPT !.next_message = message, !.enhanced_query = query,
                                  !.department_targets = Targets(reply)]
<1>1. /\ node[t] = "orchestrator" /\ Runs(t, node[t])
      /\ Saves(t, new, RouteAfterOrchestrator(Targets(reply)), <<>>)
  BY DEF Orchestrator, Runs
<1>2. node[t] \in Nodes /\ node[t] \in Early /\ RouteAfterOrchestrator(Targets(reply)) \in Nodes
  BY <1>1 DEF Nodes, Early, RouteAfterOrchestrator
<1>3. chan[t] \in Channels
  BY <1>2, RunFacts
<1> HIDE DEF message, query
<1>4. /\ new.messages = chan[t].messages /\ new.pending_writes = chan[t].pending_writes
      /\ new.audit_log = chan[t].audit_log
  BY <1>3 DEF Channels
<1> HIDE DEF new
<1> QED
  BY <1>1, <1>2, <1>4, QuietScreen

LEMMA FanoutNoneScreen ==
    ASSUME GraphInv, ScreenInv, NEW t \in Turns, FanoutNoneResolved(t)
    PROVE  ScreenInv'
<1> DEFINE results == [turn |-> t, depts |-> {}]
           new == [chan[t] EXCEPT !.subagent_results = results]
<1>1. /\ node[t] = "subagent_fanout" /\ Runs(t, node[t])
      /\ Saves(t, new, "responder", <<>>)
  BY DEF FanoutNoneResolved, Runs
<1>2. node[t] \in Nodes /\ node[t] \in Early /\ "responder" \in Nodes
  BY <1>1 DEF Nodes, Early
<1>3. chan[t] \in Channels
  BY <1>2, RunFacts
<1> HIDE DEF results
<1>4. /\ new.messages = chan[t].messages /\ new.pending_writes = chan[t].pending_writes
      /\ new.audit_log = chan[t].audit_log
  BY <1>3 DEF Channels
<1> HIDE DEF new
<1> QED
  BY <1>1, <1>2, <1>4, QuietScreen

\* A fanout with writes: its update adds them to the channels and to their log,
\* and the page has them to show.
LEMMA FanoutWrites ==
    ASSUME NEW pending \in Seq(Turns), NEW audit \in Seq(Seq(Turns)), NEW ws \in Seq(Turns)
    PROVE  \A r : /\ Copies(pending \o ws, r) = Copies(pending, r) + Copies(ws, r)
                  /\ Copies(FlattenSeq(Append(audit, ws)), r)
                         = Copies(FlattenSeq(audit), r) + Copies(ws, r)
<1>1. /\ FlattenSeq(Append(audit, ws)) = FlattenSeq(audit) \o ws
      /\ FlattenSeq(audit) \in Seq(Turns)
  BY FlattenAppend, FlattenType
<1> QED
  BY <1>1, CopiesConcat

LEMMA FanoutScreen ==
    ASSUME GraphInv, ScreenInv, NEW t \in Turns, NEW writes \in Writes(t), Fanout(t, writes)
    PROVE  ScreenInv'
<1> DEFINE results == [turn |-> t, depts |-> Resolved(t)]
           audit == IF writes = <<>> THEN <<>> ELSE <<writes>>
           items == IF writes = <<>> THEN <<>> ELSE <<AuditItem(audit)>>
           pending == chan[t].pending_writes \o writes
           log == chan[t].audit_log \o audit
           new == [chan[t] EXCEPT !.subagent_results = results, !.pending_writes = pending,
                                  !.audit_log = log]
<1>1. /\ node[t] = "subagent_fanout" /\ Runs(t, node[t]) /\ unseen[t] = <<>>
      /\ Saves(t, new, "responder", items)
  BY DEF Fanout, Runs
<1>2. /\ node[t] \in Nodes /\ node[t] \in Early /\ "responder" \in Nodes
      /\ "responder" \notin Early /\ "unsent" # "responder" /\ node[t] # "over"
      /\ "responder" # "over" /\ "unsent" \notin Nodes
  BY <1>1 DEF Nodes, Early
<1>3. chan[t] \in Channels /\ writes \in Seq({t})
  BY <1>2, RunFacts, GraphAssumption DEF Writes, BoundedSeq, SeqOf
<1>4. writes \in Seq(Turns) /\ Copies(writes, t) \in Nat
      /\ FlattenSeq(<<writes>>) = writes /\ \A r \in Turns : r # t => Copies(writes, r) = 0
  BY <1>3, WritesFacts
<1> HIDE DEF results
<1>5. /\ new.messages = chan[t].messages /\ new.pending_writes = pending
      /\ new.audit_log = log
  BY <1>3 DEF Channels
<1> HIDE DEF new
<1>6. CASE writes = <<>>
  <2>1. audit = <<>> /\ items = <<>>
    BY <1>6
  <2>2. chan[t].pending_writes \in Seq(Turns) /\ chan[t].audit_log \in Seq(Seq(Turns))
    BY <1>3 DEF Channels
  <2>3. pending = chan[t].pending_writes /\ log = chan[t].audit_log
    BY <1>6, <2>1, <2>2, ConcatEmptySeq
  <2> HIDE DEF audit, items, pending, log
  <2> QED
    BY <1>1, <1>2, <1>5, <2>1, <2>3, QuietScreen
<1>7. CASE writes # <<>>
  <2>1. audit = <<writes>> /\ items = <<AuditItem(<<writes>>)>> /\ audit # <<>>
        /\ log = chan[t].audit_log \o <<writes>>
    BY <1>7
  <2> DEFINE waiting == <<NodeItem>> \o items
  <2>2. waiting = <<NodeItem, AuditItem(<<writes>>)>>
    BY <2>1, ConcatPair
  <2>3. AuditWaiting(waiting) = <<writes>> /\ AnswerWaiting(waiting) = <<>>
    BY <2>2, WaitingFacts
  <2>4. /\ Waits(screen, <<>>, node[t], script[t], t)
        /\ script[t] # "done" /\ Shown(screen, t) = 0
    BY <1>1, <1>2 DEF ScreenInv, WaitInv, Waits
  <2>5. Waits(screen, waiting, "responder", script[t], t)
    <3>1. <<writes>>[1] = writes
      OBVIOUS
    <3> HIDE DEF waiting
    <3> QED
      BY <1>2, <1>3, <2>3, <2>4, <3>1 DEF Waits
  <2>6. \A r : /\ Held(new, r) = Held(chan[t], r) + Copies(writes, r)
               /\ Logged(new, r) = Logged(chan[t], r) + Copies(writes, r)
               /\ Copies(new.messages, r) = Copies(chan[t].messages, r)
    <3>1. chan[t].audit_log \in Seq(Seq(Turns)) /\ chan[t].pending_writes \in Seq(Turns)
      BY <1>3 DEF Channels
    <3>2. log = Append(chan[t].audit_log, writes)
      BY <1>4, <2>1, <3>1, AppendIsConcat
    <3>3. /\ new.messages = chan[t].messages
          /\ new.pending_writes = chan[t].pending_writes \o writes
          /\ new.audit_log = Append(chan[t].audit_log, writes)
      BY <1>5, <3>2
    <3>4. \A r : /\ Copies(new.pending_writes, r)
                        = Copies(chan[t].pending_writes, r) + Copies(writes, r)
                 /\ Copies(FlattenSeq(new.audit_log), r)
                        = Copies(FlattenSeq(chan[t].audit_log), r) + Copies(writes, r)
      BY <1>4, <3>1, <3>3, FanoutWrites
    <3> QED
      BY <3>3, <3>4 DEF Held, Logged
  <2>7. \A r : /\ Held(chan[t], r) \in Nat /\ Logged(chan[t], r) \in Nat
               /\ Copies(chan[t].messages, r) \in Nat
    BY <1>3, ChannelCounts
  <2> HIDE DEF waiting, audit, items, pending, log
  <2>8. ASSUME Told, t = Newest
        PROVE  /\ Tells(new, screen, waiting, "responder", script[t], t)
               /\ \A r \in Turns : r # t =>
                     Tells(new, screen, unseen[r], node[r], script[r], r)
    <3>1. \A r \in Turns : Tells(chan[t], screen, unseen[r], node[r], script[r], r)
      BY <1>2, <2>8, ToldBefore
    <3>2. Tells(new, screen, waiting, "responder", script[t], t)
      <4>1. Tells(chan[t], screen, <<>>, node[t], script[t], t)
        BY <1>1, <3>1
      <4>2. Held(chan[t], t) = 0 /\ Logged(chan[t], t) = 0
        BY <1>2, <4>1 DEF Tells
      <4>3. Held(new, t) = Copies(writes, t) /\ Logged(new, t) = Copies(writes, t)
        BY <1>4, <2>6, <4>2
      <4>4. Shown(screen, t) + Copies(FlattenSeq(AuditWaiting(waiting)), t) = Held(new, t)
        BY <1>4, <2>3, <2>4, <4>3
      <4>5. ASSUME NEW m \in AnswersOf(t)
            PROVE  /\ Copies(new.messages, m) = 0
                   /\ script[t] \in {"live", "done"} =>
                         Copies(screen.messages, m) + Copies(AnswerWaiting(waiting), m)
                             = Copies(new.messages, m)
        <5>1. AnswerWaiting(<<>>) = <<>>
          BY WaitingFacts
        <5> QED
          BY <1>2, <2>3, <2>6, <4>1, <5>1 DEF Tells
      <4> QED
        BY <1>2, <2>4, <4>3, <4>4, <4>5 DEF Tells
    <3>3. ASSUME NEW r \in Turns, r # t
          PROVE  Tells(new, screen, unseen[r], node[r], script[r], r)
      <4>1. Tells(chan[t], screen, unseen[r], node[r], script[r], r)
        BY <3>1
      <4>2. Held(new, r) = Held(chan[t], r) /\ Logged(new, r) = Logged(chan[t], r)
        BY <1>4, <2>6, <2>7, <3>3
      <4> QED
        BY <2>6, <4>1, <4>2, TellsFrame
    <3> QED
      BY <3>2, <3>3
  <2> QED
    BY <1>1, <1>2, <2>5, <2>8, SavesScreen DEF waiting
<1> QED
  BY <1>6, <1>7

\* The answer is in the channels, and the page has it to show.
LEMMA ResponderScreen ==
    ASSUME GraphInv, ScreenInv, NEW t \in Turns, Responder(t)
    PROVE  ScreenInv'
<1> PICK answer : answer = Answer(t)
  OBVIOUS
<1> DEFINE log == Append(chan[t].messages, answer)
           new == [chan[t] EXCEPT !.messages = log, !.subagent_results = NoResults,
                                  !.next_message = NoMessage]
           waiting == <<NodeItem>> \o <<AnswerItem(answer)>>
<1>1. /\ node[t] = "responder" /\ unseen[t] = <<>>
      /\ Saves(t, new, "over", <<AnswerItem(answer)>>)
  BY DEF Responder, Runs
<1>2. /\ node[t] \in Nodes /\ node[t] # "over" /\ "over" \notin Early /\ "unsent" # "over"
      /\ "over" \in {"over"} \cup Nodes
  BY <1>1 DEF Nodes, Early
<1>3. answer \in Answers /\ answer.turn = t
  BY <1>1, AnswerFacts DEF OwnAnswers
<1>4. chan[t] \in Channels
  BY <1>2, RunFacts
<1>5. /\ new.messages = log /\ new.pending_writes = chan[t].pending_writes
      /\ new.audit_log = chan[t].audit_log
  BY <1>4 DEF Channels
<1>6. AuditWaiting(waiting) = <<>> /\ AnswerWaiting(waiting) = <<answer>>
  <2>1. waiting = <<NodeItem, AnswerItem(answer)>>
    BY ConcatPair
  <2> HIDE DEF waiting
  <2> QED
    BY <2>1, WaitingFacts
<1>7. \A r : Held(new, r) = Held(chan[t], r) /\ Logged(new, r) = Logged(chan[t], r)
  BY <1>5 DEF Held, Logged
<1>8. ASSUME NEW m
      PROVE  /\ Copies(new.messages, m)
                    = Copies(chan[t].messages, m) + (IF answer = m THEN 1 ELSE 0)
             /\ Copies(<<answer>>, m) = IF answer = m THEN 1 ELSE 0
             /\ Copies(chan[t].messages, m) \in Nat
  <2>1. chan[t].messages \in Seq(Prompts \cup Answers) /\ answer \in Prompts \cup Answers
    BY <1>2, <1>3, RunFacts
  <2>2. Copies(log, m) = Copies(chan[t].messages, m) + (IF answer = m THEN 1 ELSE 0)
    BY <2>1, CopiesAppend
  <2> HIDE DEF log, new
  <2> QED
    BY <1>4, <1>5, <2>2, AnswerFoundOnce, ChannelCounts
<1> HIDE DEF new, log, waiting
<1>9. /\ Waits(screen, <<>>, node[t], script[t], t)
      /\ script[t] # "done" /\ AuditWaiting(<<>>) = <<>> /\ AnswerWaiting(<<>>) = <<>>
  BY <1>1, <1>2, WaitingFacts DEF ScreenInv, WaitInv, Waits
<1>10. Waits(screen, waiting, "over", script[t], t)
  BY <1>2, <1>6, <1>9 DEF Waits
<1>11. ASSUME Told, t = Newest
       PROVE  /\ Tells(new, screen, waiting, "over", script[t], t)
              /\ \A r \in Turns : r # t =>
                    Tells(new, screen, unseen[r], node[r], script[r], r)
  <2>1. \A r \in Turns : Tells(chan[t], screen, unseen[r], node[r], script[r], r)
    BY <1>2, <1>11, ToldBefore
  <2>2. Tells(new, screen, waiting, "over", script[t], t)
    <3>1. Tells(chan[t], screen, <<>>, node[t], script[t], t)
      BY <1>1, <2>1
    <3>2. ASSUME NEW m \in AnswersOf(t), script[t] \in {"live", "done"}
          PROVE  Copies(screen.messages, m) + Copies(AnswerWaiting(waiting), m)
                     = Copies(new.messages, m)
      <4>1. Copies(chan[t].messages, m) = 0 /\ Copies(<<>>, m) = 0
        BY <1>2, <3>1, CopiesEmpty DEF Tells
      <4>2. Copies(screen.messages, m) + 0 = 0
        BY <1>9, <3>1, <3>2, <4>1 DEF Tells
      <4>3. Copies(screen.messages, m) = 0
        <5>1. Copies(screen.messages, m) \in Nat
          BY PageIs, PageCounts
        <5> QED
          BY <4>2, <5>1
      <4> QED
        BY <1>6, <1>8, <4>1, <4>3
    <3> QED
      BY <1>2, <1>6, <1>7, <1>9, <3>1, <3>2 DEF Tells
  <2>3. ASSUME NEW r \in Turns, r # t
        PROVE  Tells(new, screen, unseen[r], node[r], script[r], r)
    <3>1. Tells(chan[t], screen, unseen[r], node[r], script[r], r)
      BY <2>1
    <3>2. \A m \in AnswersOf(r) : Copies(new.messages, m) = Copies(chan[t].messages, m)
      BY <1>3, <1>8, <2>3 DEF AnswersOf
    <3> QED
      BY <1>7, <3>1, <3>2, TellsFrame
  <2> QED
    BY <2>2, <2>3
<1> QED
  BY <1>1, <1>2, <1>10, <1>11, SavesScreen DEF waiting

-----------------------------------------------------------------------------
(* The script and the page                                                 *)

\* A prompt on the page is no answer.
LEMMA PromptCounts ==
    ASSUME NEW log \in Seq(Prompts \cup Answers), NEW t \in Turns, NEW m \in Answers
    PROVE  Copies(Append(log, Prompt(t)), m) = Copies(log, m)
<1>1. Prompt(t) \in Prompts \cup Answers /\ Prompt(t) # m
  BY MessageFacts
<1>2. Copies(Append(log, Prompt(t)), m) = Copies(log, m) + (IF Prompt(t) = m THEN 1 ELSE 0)
  BY <1>1, CopiesAppend
<1>3. Copies(log, m) \in Nat
  BY CopiesFinite
<1> QED
  BY <1>1, <1>2, <1>3

LEMMA SubmitScreen == ASSUME GraphInv, ScreenInv, Submit PROVE ScreenInv'
<1> PICK now : now = turn'
  OBVIOUS
<1>1. /\ now = turn + 1 /\ now \in Turns /\ turn \in Nat
      /\ screen' = [screen EXCEPT !.messages = Append(@, Prompt(now))]
      /\ script' = [script EXCEPT ![now] = "live"]
      /\ unseen' = [unseen EXCEPT ![now] = <<NodeItem>>]
      /\ UNCHANGED <<node, chan, thread, saver, forked>>
  BY GraphAssumption DEF Submit, Turns, GraphInv, TypeOK
<1>2. /\ screen \in Page /\ screen.messages \in Seq(Prompts \cup Answers)
      /\ screen'.messages = Append(screen.messages, Prompt(now))
      /\ screen'.audit_log = screen.audit_log
  BY <1>1, PageIs DEF Page
<1>3. /\ \A r \in Turns : Shown(screen', r) = Shown(screen, r)
      /\ \A r \in Turns : \A m \in AnswersOf(r) :
            Copies(screen'.messages, m) = Copies(screen.messages, m)
  <2>1. \A r \in Turns : Shown(screen', r) = Shown(screen, r)
    BY <1>2 DEF Shown
  <2>2. \A m \in Answers : Copies(screen'.messages, m) = Copies(screen.messages, m)
    BY <1>1, <1>2, PromptCounts
  <2> QED
    BY <2>1, <2>2 DEF AnswersOf
<1>4. /\ \A r \in Turns : script'[r] = IF r = now THEN "live" ELSE script[r]
      /\ \A r \in Turns : unseen'[r] = IF r = now THEN <<NodeItem>> ELSE unseen[r]
  BY <1>1 DEF GraphInv, ScriptInv, TypeOK
<1>5. node[now] = "unsent" /\ unseen[now] = <<>> /\ script[now] = "none"
  BY <1>1 DEF GraphInv, ScriptInv
<1>6. WaitInv /\ TellInv
  BY DEF ScreenInv
<1>7. /\ AuditWaiting(<<NodeItem>>) = <<>> /\ AnswerWaiting(<<NodeItem>>) = <<>>
      /\ AuditWaiting(<<>>) = <<>> /\ AnswerWaiting(<<>>) = <<>>
  BY WaitingFacts
<1>8. ASSUME NEW r \in Turns
      PROVE  Waits(screen', unseen'[r], node[r], script'[r], r)
  <2>1. Waits(screen, unseen[r], node[r], script[r], r)
    BY <1>6 DEF WaitInv
  <2>2. script'[r] = "done" => node[r] = "over" /\ unseen'[r] = <<>>
    BY <1>4, <2>1 DEF Waits
  <2>3. /\ AuditWaiting(unseen'[r]) \in {<<>>, AuditWaiting(unseen[r])}
        /\ AnswerWaiting(unseen'[r]) \in {<<>>, AnswerWaiting(unseen[r])}
    BY <1>4, <1>7
  <2> QED
    BY <1>3, <2>1, <2>2, <2>3, WaitsFrame
<1>9. ASSUME Told, NEW r \in Turns
       PROVE  Tells(View, screen', unseen'[r], node[r], script'[r], r)
  <2>1. Tells(View, screen, unseen[r], node[r], script[r], r)
    BY <1>6, <1>9 DEF TellInv
  <2>2. CASE r # now
    BY <1>3, <1>4, <2>1, <2>2, TellsFrame
  <2>3. CASE r = now
    <3>1. Waits(screen, <<>>, "unsent", "none", now)
      BY <1>1, <1>5, <1>6 DEF WaitInv
    <3>2. "unsent" \in Early /\ "unsent" # "over"
      BY DEF Early
    <3>3. Shown(screen', now) = 0 /\ \A m \in AnswersOf(now) : Copies(screen'.messages, m) = 0
      BY <1>1, <1>3, <3>1, <3>2 DEF Waits
    <3>4. \A m : Copies(<<>>, m) = 0
      BY CopiesEmpty
    <3>5. Held(View, now) = 0 /\ Logged(View, now) = 0
          /\ \A m \in AnswersOf(now) : Copies(View.messages, m) = 0
      BY <1>5, <2>1, <2>3, <3>2 DEF Tells
    <3>6. unseen'[now] = <<NodeItem>> /\ script'[now] = "live"
      BY <1>1, <1>4
    <3>7. FlattenSeq(AuditWaiting(<<NodeItem>>)) = <<>>
      BY <1>7, FlattenEmpty
    <3> QED
      BY <1>5, <1>7, <2>3, <3>2, <3>3, <3>4, <3>5, <3>6, <3>7 DEF Tells
  <2> QED
    BY <2>2, <2>3
<1> QED
  BY <1>1, <1>8, <1>9, PageScreen

\* The prompt reaches the graph: the thread is the newest run's, and unless the
\* run starts from an overtaken checkpoint it tells what was told.
LEMMA SendScreen == ASSUME GraphInv, ScreenInv, NEW t \in Turns, Send(t) PROVE ScreenInv'
<1> DEFINE update == [thread EXCEPT !.messages = Append(@, Prompt(t))]
<1>1. /\ script[t] = "live" /\ node[t] = "unsent"
      /\ thread' = update /\ chan' = [chan EXCEPT ![t] = update]
      /\ forked' = (forked \/ saver # Newest) /\ saver' = t
      /\ node' = [node EXCEPT ![t] = "orchestrator"]
      /\ UNCHANGED <<turn, script, unseen, screen>>
  BY DEF Send
<1>2. thread \in Channels /\ thread.messages \in Seq(Prompts \cup Answers)
  BY PageIs DEF Channels
<1>3. /\ update.messages = Append(thread.messages, Prompt(t))
      /\ update.pending_writes = thread.pending_writes /\ update.audit_log = thread.audit_log
  BY <1>2 DEF Channels
<1> HIDE DEF update
<1>4. /\ \A r \in Turns : node'[r] = IF r = t THEN "orchestrator" ELSE node[r]
      /\ chan'[t] = update
  BY <1>1 DEF GraphInv, TypeOK
<1>5. Newest' = t
  <2>1. /\ \A r \in Turns : node'[r] # "unsent" => r <= t
        /\ node'[t] # "unsent"
    <3>1. t = turn
      BY <1>1, PageFacts
    <3>2. \A r \in Turns : r > turn => node[r] = "unsent"
      BY DEF GraphInv, ScriptInv
    <3> QED
      BY <1>4, <3>1, <3>2 DEF Turns
  <2>2. Newest' = LastSent(node')
    BY DEF Newest, LastSent
  <2>3. /\ Newest' # 0 => Newest' \in Turns /\ node'[Newest'] # "unsent"
        /\ \A r \in Turns : node'[r] # "unsent" => r <= Newest' /\ Newest' # 0
    BY <2>2, LastSentFacts
  <2>4. Newest' <= t /\ t <= Newest' /\ Newest' \in Turns
    BY <2>1, <2>3
  <2> QED
    BY <2>4 DEF Turns
<1>6. Running' /\ (View)' = update /\ SaverInv'
  <2>1. node'[t] \in Nodes /\ t # 0
    BY <1>4 DEF Nodes, Turns
  <2> QED
    BY <1>1, <1>4, <1>5, <2>1 DEF Running, View, SaverInv
<1>7. WaitInv /\ SaverInv /\ TellInv
  BY DEF ScreenInv
<1>8. {"unsent", "orchestrator"} \subseteq Early /\ "over" \notin Early
  BY DEF Early
<1>9. WaitInv'
  <2>1. ASSUME NEW r \in Turns
        PROVE  Waits(screen, unseen[r], node'[r], script[r], r)
    <3>1. Waits(screen, unseen[r], node[r], script[r], r)
      BY <1>7 DEF WaitInv
    <3>2. CASE r = t
      BY <1>1, <1>4, <1>8, <3>1, <3>2, WaitsFrame
    <3>3. CASE r # t
      BY <1>4, <3>1, <3>3
    <3> QED
      BY <3>2, <3>3
  <2> QED
    BY <1>1, <2>1 DEF WaitInv
<1>10. ASSUME Told', NEW r \in Turns
       PROVE  Tells(update, screen, unseen[r], node'[r], script[r], r)
  <2>1. Told /\ saver = Newest
    BY <1>1, <1>10 DEF Told
  <2>2. View = thread
    BY <1>7, <2>1 DEF View, SaverInv
  <2>3. Tells(thread, screen, unseen[r], node[r], script[r], r)
    BY <1>7, <2>1, <2>2 DEF TellInv
  <2>4. \A m \in AnswersOf(r) : Copies(update.messages, m) = Copies(thread.messages, m)
    BY <1>2, <1>3, PromptCounts DEF AnswersOf
  <2>5. Held(update, r) = Held(thread, r) /\ Logged(update, r) = Logged(thread, r)
    BY <1>3 DEF Held, Logged
  <2>6. (node'[r] \in Early => node[r] \in Early) /\ (node'[r] # "over" => node[r] # "over")
    BY <1>1, <1>4, <1>8
  <2> QED
    BY <2>3, <2>4, <2>5, <2>6, TellsFrame
<1>11. TellInv'
  BY <1>1, <1>6, <1>10 DEF TellInv
<1> QED
  BY <1>6, <1>9, <1>11 DEF ScreenInv

\* What still waits once the first item of an update has been shown.
LEMMA TailWaits ==
    ASSUME NEW t \in Turns, NEW s \in Shows(t), s # <<>>, Head(s).what # "answer"
    PROVE  \/ /\ Head(s).what = "node"
              /\ AuditWaiting(Tail(s)) = AuditWaiting(s)
              /\ AnswerWaiting(Tail(s)) = AnswerWaiting(s)
           \/ /\ Head(s).what = "audit" /\ AuditWaiting(s) = Head(s).writes
              /\ AuditWaiting(Tail(s)) = <<>> /\ AnswerWaiting(Tail(s)) = AnswerWaiting(s)
<1>1. /\ NodeItem.what = "node"
      /\ \A w : AuditItem(w).what = "audit" /\ AuditItem(w).writes = w
      /\ \A m : AnswerItem(m).what = "answer"
  BY DEF NodeItem, AuditItem, AnswerItem
<1>2. \A a, b : /\ Head(<<a>>) = a /\ Tail(<<a>>) = <<>>
                /\ Head(<<a, b>>) = a
  OBVIOUS
<1>3. \A a, b : Tail(<<a, b>>) = <<b>>
  BY TailPair
<1> HIDE DEF NodeItem, AuditItem, AnswerItem
<1>4. CASE s = <<NodeItem>>
  <2>1. Head(s) = NodeItem /\ Tail(s) = <<>>
    BY <1>2, <1>4
  <2> QED
    BY <1>1, <1>4, <2>1, WaitingFacts
<1>5. ASSUME NEW w, s = <<NodeItem, AuditItem(w)>>
      PROVE  /\ Head(s).what = "node" /\ AuditWaiting(Tail(s)) = AuditWaiting(s)
             /\ AnswerWaiting(Tail(s)) = AnswerWaiting(s)
  <2>1. Head(s) = NodeItem /\ Tail(s) = <<AuditItem(w)>>
    BY <1>2, <1>3, <1>5
  <2> QED
    BY <1>1, <1>5, <2>1, WaitingFacts
<1>6. ASSUME NEW m, s = <<NodeItem, AnswerItem(m)>>
      PROVE  /\ Head(s).what = "node" /\ AuditWaiting(Tail(s)) = AuditWaiting(s)
             /\ AnswerWaiting(Tail(s)) = AnswerWaiting(s)
  <2>1. Head(s) = NodeItem /\ Tail(s) = <<AnswerItem(m)>>
    BY <1>2, <1>3, <1>6
  <2> QED
    BY <1>1, <1>6, <2>1, WaitingFacts
<1>7. ASSUME NEW w, s = <<AuditItem(w)>>
      PROVE  /\ Head(s).what = "audit" /\ AuditWaiting(s) = Head(s).writes
             /\ AuditWaiting(Tail(s)) = <<>> /\ AnswerWaiting(Tail(s)) = AnswerWaiting(s)
  <2>1. Head(s) = AuditItem(w) /\ Tail(s) = <<>>
    BY <1>2, <1>7
  <2> QED
    BY <1>1, <1>7, <2>1, WaitingFacts
<1>8. ASSUME NEW m, s = <<AnswerItem(m)>>
      PROVE  FALSE
  BY <1>1, <1>2, <1>8
<1> QED
  BY <1>4, <1>5, <1>6, <1>7, <1>8 DEF Shows

\* A turn's own writes are put on the page, and on no other turn's account.
LEMMA ShownMore ==
    ASSUME NEW audit \in Seq(Seq(Turns)), NEW t \in Turns, NEW w \in Seq(Seq(Turns)),
           w # <<>> => w = <<w[1]>> /\ w[1] \in Seq({t})
    PROVE  /\ Copies(FlattenSeq(audit \o w), t)
                  = Copies(FlattenSeq(audit), t) + Copies(FlattenSeq(w), t)
           /\ Copies(FlattenSeq(w), t) \in Nat
           /\ \A r \in Turns : r # t =>
                  Copies(FlattenSeq(audit \o w), r) = Copies(FlattenSeq(audit), r)
<1>1. FlattenSeq(audit) \in Seq(Turns) /\ \A r : Copies(FlattenSeq(audit), r) \in Nat
  BY FlattenType, CopiesFinite
<1>2. CASE w = <<>>
  <2>1. audit \o w = audit
    BY <1>2, ConcatEmptySeq
  <2>2. Copies(FlattenSeq(w), t) = 0
    BY <1>2, FlattenEmpty, CopiesEmpty
  <2> QED
    BY <1>1, <2>1, <2>2
<1>3. CASE w # <<>>
  <2> PICK ws : ws = w[1]
    OBVIOUS
  <2>1. w = <<ws>> /\ ws \in Seq({t})
    BY <1>3
  <2>2. /\ ws \in Seq(Turns) /\ FlattenSeq(w) = ws /\ Copies(ws, t) \in Nat
        /\ \A r \in Turns : r # t => Copies(ws, r) = 0
    BY <2>1, WritesFacts
  <2>3. audit \o w = Append(audit, ws)
    BY <2>1, <2>2, AppendIsConcat
  <2>4. FlattenSeq(audit \o w) = FlattenSeq(audit) \o ws
    BY <2>2, <2>3, FlattenAppend
  <2>5. \A r : Copies(FlattenSeq(audit \o w), r) = Copies(FlattenSeq(audit), r) + Copies(ws, r)
    BY <1>1, <2>2, <2>4, CopiesConcat
  <2> QED
    BY <1>1, <2>2, <2>5
<1> QED
  BY <1>2, <1>3

LEMMA ShowScreen == ASSUME GraphInv, ScreenInv, NEW t \in Turns, Show(t) PROVE ScreenInv'
<1> DEFINE item == Head(unseen[t])
           page == CASE item.what = "node" -> screen
                     [] item.what = "audit" ->
                            [screen EXCEPT !.audit_log = @ \o item.writes]
           left == Tail(unseen[t])
<1>1. /\ script[t] = "live" /\ unseen[t] # <<>> /\ item.what # "answer"
      /\ unseen' = [unseen EXCEPT ![t] = left] /\ screen' = page
      /\ UNCHANGED <<script, node, chan, thread, saver, forked>>
  BY DEF Show
<1>2. unseen[t] \in Shows(t) /\ screen \in Page /\ screen.audit_log \in Seq(Seq(Turns))
  BY <1>1, PageFacts, PageIs
<1>3. \A r \in Turns : unseen'[r] = IF r = t THEN left ELSE unseen[r]
  BY <1>1 DEF GraphInv, ScriptInv
<1>4. WaitInv /\ TellInv /\ Waits(screen, unseen[t], node[t], script[t], t)
  BY DEF ScreenInv, WaitInv
<1>5. CASE /\ item.what = "node"
           /\ AuditWaiting(left) = AuditWaiting(unseen[t])
           /\ AnswerWaiting(left) = AnswerWaiting(unseen[t])
  <2>1. page = screen
    BY <1>5
  <2> HIDE DEF item, page, left
  <2>2. ASSUME NEW r \in Turns
        PROVE  Waits(screen, unseen'[r], node[r], script[r], r)
    <3>1. Waits(screen, unseen[r], node[r], script[r], r)
      BY <1>4 DEF WaitInv
    <3>2. CASE r = t
      <4>1. script[r] # "done"
        BY <1>1, <3>2
      <4> QED
        BY <1>3, <1>5, <3>1, <3>2, <4>1, WaitsFrame
    <3>3. CASE r # t
      BY <1>3, <3>1, <3>3
    <3> QED
      BY <3>2, <3>3
  <2>3. ASSUME Told, NEW r \in Turns
        PROVE  Tells(View, screen, unseen'[r], node[r], script[r], r)
    <3>1. Tells(View, screen, unseen[r], node[r], script[r], r)
      BY <1>4, <2>3 DEF TellInv
    <3>2. CASE r = t
      BY <1>3, <1>5, <3>1, <3>2, TellsFrame
    <3>3. CASE r # t
      BY <1>3, <3>1, <3>3
    <3> QED
      BY <3>2, <3>3
  <2> QED
    BY <1>1, <2>1, <2>2, <2>3, PageScreen
<1>6. CASE /\ item.what = "audit" /\ AuditWaiting(unseen[t]) = item.writes
           /\ AuditWaiting(left) = <<>> /\ AnswerWaiting(left) = AnswerWaiting(unseen[t])
  <2>1. page.messages = screen.messages /\ page.audit_log = screen.audit_log \o item.writes
    BY <1>2, <1>6 DEF Page
  <2>2. /\ item.writes \in Seq(Seq(Turns))
        /\ item.writes # <<>> =>
              /\ item.writes = <<item.writes[1]>> /\ item.writes[1] \in Seq({t})
              /\ Shown(screen, t) = 0 /\ node[t] \notin Early
    <3>1. item.writes \in Seq(Seq(Turns))
      BY <1>1, <1>2, <1>6, ShowsFacts
    <3> HIDE DEF item
    <3> QED
      BY <1>4, <1>6, <3>1 DEF Waits
  <2> HIDE DEF item, page, left
  <2> PICK w : w = item.writes
    OBVIOUS
  <2>3. /\ Shown(page, t) = Shown(screen, t) + Copies(FlattenSeq(w), t)
        /\ Copies(FlattenSeq(w), t) \in Nat
        /\ \A r \in Turns : r # t => Shown(page, r) = Shown(screen, r)
    <3>1. /\ w \in Seq(Seq(Turns))
          /\ w # <<>> => w = <<w[1]>> /\ w[1] \in Seq({t})
          /\ page.audit_log = screen.audit_log \o w
      BY <2>1, <2>2
    <3> DEFINE audit == screen.audit_log
    <3>2. audit \in Seq(Seq(Turns)) /\ page.audit_log = audit \o w
      BY <1>2, <3>1
    <3> HIDE DEF audit
    <3>3. /\ Copies(FlattenSeq(audit \o w), t)
                = Copies(FlattenSeq(audit), t) + Copies(FlattenSeq(w), t)
          /\ Copies(FlattenSeq(w), t) \in Nat
          /\ \A r \in Turns : r # t =>
                Copies(FlattenSeq(audit \o w), r) = Copies(FlattenSeq(audit), r)
      BY <3>1, <3>2, ShownMore
    <3> QED
      BY <3>2, <3>3 DEF Shown, audit
  <2>4. Shown(screen, t) \in Nat
    BY <1>2, PageCounts
  <2>5. w = <<>> => Shown(page, t) = Shown(screen, t)
    BY <2>3, <2>4, FlattenEmpty, CopiesEmpty
  <2>6. AnswerWaiting(left) = AnswerWaiting(unseen[t])
    BY <1>6
  <2>7. ASSUME NEW r \in Turns
        PROVE  Waits(page, unseen'[r], node[r], script[r], r)
    <3>1. Waits(screen, unseen[r], node[r], script[r], r)
      BY <1>4 DEF WaitInv
    <3>2. CASE r = t
      <4>1. node[t] \in Early => Shown(page, t) = 0
        BY <1>4, <2>2, <2>5 DEF Waits
      <4> QED
        BY <1>1, <1>3, <1>6, <2>1, <3>1, <3>2, <4>1 DEF Waits
    <3>3. CASE r # t
      BY <1>3, <2>1, <2>3, <3>1, <3>3 DEF Waits
    <3> QED
      BY <3>2, <3>3
  <2>8. ASSUME Told, NEW r \in Turns
        PROVE  Tells(View, page, unseen'[r], node[r], script[r], r)
    <3>1. Tells(View, screen, unseen[r], node[r], script[r], r)
      BY <1>4, <2>8 DEF TellInv
    <3>2. CASE r = t
      <4>1. Shown(page, t) = Held(View, t)
        BY <1>1, <1>6, <2>3, <3>1, <3>2 DEF Tells
      <4>2. Held(View, t) \in Nat /\ FlattenSeq(<<>>) = <<>> /\ Copies(<<>>, t) = 0
        BY PageIs, ChannelCounts, FlattenEmpty, CopiesEmpty
      <4>3. Shown(page, t) + Copies(FlattenSeq(AuditWaiting(left)), t) = Held(View, t)
        BY <1>6, <4>1, <4>2
      <4> QED
        BY <1>3, <2>1, <2>6, <3>1, <3>2, <4>1, <4>3 DEF Tells
    <3>3. CASE r # t
      BY <1>3, <2>1, <2>3, <3>1, <3>3, TellsFrame
    <3> QED
      BY <3>2, <3>3
  <2> QED
    BY <1>1, <2>7, <2>8, PageScreen
<1> QED
  BY <1>1, <1>2, <1>5, <1>6, TailWaits

LEMMA PersistScreen == ASSUME GraphInv, ScreenInv, NEW t \in Turns, Persist(t) PROVE ScreenInv'
<1> DEFINE log == screen.messages \o TurnMessages(t)
           page == [screen EXCEPT !.messages = log]
<1>1. /\ script[t] = "live" /\ StreamOver(t) /\ screen' = page
      /\ script' = [script EXCEPT ![t] = "done"] /\ unseen' = [unseen EXCEPT ![t] = <<>>]
      /\ UNCHANGED <<node, chan, thread, saver, forked>>
  BY DEF Persist
<1>2. /\ \A r \in Turns : script'[r] = IF r = t THEN "done" ELSE script[r]
      /\ \A r \in Turns : unseen'[r] = IF r = t THEN <<>> ELSE unseen[r]
      /\ node[t] = "over" /\ "over" \notin Early
  BY <1>1 DEF GraphInv, TypeOK, ScriptInv, StreamOver, Early
<1>3. screen \in Page /\ screen.messages \in Seq(Prompts \cup Answers)
  BY PageIs DEF Page
<1>4. /\ AnswerWaiting(unseen[t]) = TurnMessages(t)
      /\ AuditWaiting(unseen[t]) = <<>>
      /\ AuditWaiting(<<>>) = <<>> /\ AnswerWaiting(<<>>) = <<>>
      /\ TurnMessages(t) = <<>> \/ \E m \in OwnAnswers(t) : TurnMessages(t) = <<m>>
  <2>1. CASE unseen[t] = <<>>
    BY <2>1, WaitingFacts DEF TurnMessages
  <2>2. ASSUME NEW m \in OwnAnswers(t), unseen[t] = <<AnswerItem(m)>>
        PROVE  /\ AnswerWaiting(unseen[t]) = TurnMessages(t)
               /\ AuditWaiting(unseen[t]) = <<>>
               /\ TurnMessages(t) = <<m>>
    <3>1. TurnMessages(t) = <<m>>
      BY <2>2 DEF TurnMessages, AnswerItem
    <3> QED
      BY <2>2, <3>1, WaitingFacts
  <2>3. unseen[t] = <<>> \/ \E m \in OwnAnswers(t) : unseen[t] = <<AnswerItem(m)>>
    BY <1>1, PageFacts, ShowsFacts DEF StreamOver
  <2> QED
    BY <2>1, <2>2, <2>3, WaitingFacts
<1>5. ASSUME NEW m
      PROVE  /\ Copies(log, m) = Copies(screen.messages, m) + Copies(TurnMessages(t), m)
             /\ Copies(screen.messages, m) \in Nat /\ Copies(TurnMessages(t), m) \in Nat
  <2>1. TurnMessages(t) \in Seq(Prompts \cup Answers)
    <3>1. \A m1 \in OwnAnswers(t) : <<m1>> \in Seq(Prompts \cup Answers)
      BY DEF OwnAnswers
    <3>2. <<>> \in Seq(Prompts \cup Answers)
      OBVIOUS
    <3> QED
      BY <1>4, <3>1, <3>2
  <2>2. Copies(log, m) = Copies(screen.messages, m) + Copies(TurnMessages(t), m)
    BY <1>3, <2>1, CopiesConcat
  <2> QED
    BY <1>3, <2>1, <2>2, CopiesFinite
<1>6. ASSUME NEW r \in Turns, r # t, NEW m \in AnswersOf(r)
      PROVE  Copies(log, m) = Copies(screen.messages, m)
  <2>1. Copies(TurnMessages(t), m) = 0
    BY <1>4, <1>6, AnswerFoundOnce, CopiesEmpty DEF OwnAnswers, AnswersOf
  <2> QED
    BY <1>5, <2>1
<1>7. page.messages = log /\ page.audit_log = screen.audit_log
  BY <1>3 DEF Page
<1>8. \A r : Shown(page, r) = Shown(screen, r)
  BY <1>7 DEF Shown
<1> HIDE DEF page, log
<1>9. WaitInv /\ TellInv
  BY DEF ScreenInv
<1>10. ASSUME NEW r \in Turns
       PROVE  Waits(page, unseen'[r], node[r], script'[r], r)
  <2>1. Waits(screen, unseen[r], node[r], script[r], r)
    BY <1>9 DEF WaitInv
  <2>2. CASE r = t
    BY <1>2, <1>4, <2>2 DEF Waits
  <2>3. CASE r # t
    BY <1>2, <1>6, <1>7, <1>8, <2>1, <2>3 DEF Waits
  <2> QED
    BY <2>2, <2>3
<1>11. ASSUME Told, NEW r \in Turns
       PROVE  Tells(View, page, unseen'[r], node[r], script'[r], r)
  <2>1. Tells(View, screen, unseen[r], node[r], script[r], r)
    BY <1>9, <1>11 DEF TellInv
  <2>2. CASE r = t
    <3>1. ASSUME NEW m \in AnswersOf(t)
          PROVE  Copies(page.messages, m) + Copies(<<>>, m) = Copies(View.messages, m)
      <4>1. Copies(screen.messages, m) + Copies(TurnMessages(t), m) = Copies(View.messages, m)
        BY <1>1, <1>4, <2>1, <2>2 DEF Tells
      <4> QED
        BY <1>5, <1>7, <4>1, CopiesEmpty
    <3>2. unseen'[t] = <<>> /\ script'[t] = "done" /\ script[t] = "live"
      BY <1>1, <1>2
    <3> QED
      BY <1>2, <1>4, <1>8, <2>1, <2>2, <3>1, <3>2 DEF Tells
  <2>3. CASE r # t
    BY <1>2, <1>6, <1>7, <1>8, <2>1, <2>3, TellsFrame
  <2> QED
    BY <2>2, <2>3
<1> QED
  BY <1>1, <1>10, <1>11, PageScreen

-----------------------------------------------------------------------------
(* Every step, and the theorems                                            *)

LEMMA InitScreen == Init => ScreenInv
<1> SUFFICES ASSUME Init PROVE ScreenInv
  OBVIOUS
<1>1. \A r \in Turns : node[r] = "unsent" /\ unseen[r] = <<>> /\ script[r] = "none"
  BY DEF Init
<1>2. ~Running
  BY <1>1, NewestFacts DEF Running, Nodes
<1>3. screen.messages = <<>> /\ screen.audit_log = <<>> /\ View = NoChannels
  BY <1>2 DEF Init, View
<1>4. NoChannels.messages = <<>> /\ NoChannels.pending_writes = <<>> /\ NoChannels.audit_log = <<>>
  BY DEF NoChannels
<1>5. \A r : /\ Shown(screen, r) = 0 /\ Copies(screen.messages, r) = 0
             /\ Held(View, r) = 0 /\ Logged(View, r) = 0 /\ Copies(View.messages, r) = 0
  BY <1>3, <1>4, FlattenEmpty, CopiesEmpty DEF Shown, Held, Logged
<1>6. AuditWaiting(<<>>) = <<>> /\ AnswerWaiting(<<>>) = <<>>
  BY WaitingFacts
<1>7. WaitInv
  BY <1>1, <1>5, <1>6 DEF WaitInv, Waits
<1>8. TellInv
  BY <1>1, <1>5 DEF TellInv, Tells
<1> QED
  BY <1>2, <1>7, <1>8 DEF ScreenInv, SaverInv

LEMMA StepScreen == GraphInv /\ ScreenInv /\ [Next]_vars => ScreenInv'
<1> SUFFICES ASSUME GraphInv, ScreenInv, [Next]_vars PROVE ScreenInv'
  OBVIOUS
<1>1. CASE Submit
  BY <1>1, SubmitScreen
<1>2. CASE Rerun
  <2>1. /\ \A r \in Turns : script'[r] = script[r] \/ script'[r] = "stopped"
        /\ UNCHANGED <<node, unseen, chan, thread, saver, forked, screen>>
    BY <1>2 DEF Rerun, GraphInv, TypeOK
  <2> QED
    BY <2>1, StillScreen
<1>3. CASE Refresh \/ Done \/ UNCHANGED vars
  <2>1. UNCHANGED <<script, node, unseen, chan, thread, saver, forked, screen>>
    BY <1>3 DEF Refresh, Done, vars
  <2> QED
    BY <2>1, StillScreen
<1>4. ASSUME NEW t \in Turns, TurnFails(t), node[t] \in Nodes
      PROVE  ScreenInv'
  <2>1. /\ UNCHANGED <<turn, script, unseen, thread, saver, forked, screen>>
        /\ node'[t] = "over"
        /\ \A r \in Turns : r # t => chan'[r] = chan[r] /\ node'[r] = node[r]
    BY <1>4 DEF TurnFails, GraphInv, TypeOK
  <2> QED
    BY <1>4, <2>1, EndsScreen DEF Nodes
<1>5. ASSUME NEW t \in Turns, Abandon(t)
      PROVE  ScreenInv'
  <2>1. /\ UNCHANGED <<turn, script, thread, saver, forked, screen>>
        /\ node'[t] = IF node[t] = "unsent" THEN "unsent" ELSE "over"
        /\ unseen'[t] = <<>> /\ script[t] = "stopped"
        /\ \A r \in Turns : r # t => /\ chan'[r] = chan[r] /\ node'[r] = node[r]
                                     /\ unseen'[r] = unseen[r]
    BY <1>5 DEF Abandon, GraphInv, TypeOK, ScriptInv
  <2> QED
    BY <2>1, EndsScreen
<1>6. ASSUME NEW t \in Turns, GraphStep(t)
      PROVE  ScreenInv'
  <2>1. CASE \/ \E reply \in Reply : RouterReplyRaises(t, reply)
             \/ RouterUnreachable(t) \/ FanoutRaises(t) \/ ResponderRaises(t)
    BY <1>4, <2>1 DEF RouterReplyRaises, RouterUnreachable, FanoutRaises, ResponderRaises,
       Runs, Nodes
  <2> QED
    BY <1>6, <2>1, OrchestratorScreen, FanoutNoneScreen, FanoutScreen, ResponderScreen
       DEF GraphStep
<1>7. ASSUME NEW t \in Turns, ScriptStep(t)
      PROVE  ScreenInv'
  BY <1>5, <1>7, SendScreen, ShowScreen, PersistScreen DEF ScriptStep
<1> QED
  BY <1>1, <1>2, <1>3, <1>6, <1>7 DEF Next

\* What waits to be shown is the turn's own and was not shown before, the
\* thread's newest checkpoint is the newest run's state while that run saves
\* last, and until a run has saved over a newer one the page and the channels
\* tell the same of every turn but for what waits (app.py:266-290, graph.py:112).
THEOREM ScreenInvariant == Spec => []ScreenInv
<1>1. Init => GraphInv /\ ScreenInv
  BY InitInv, InitScreen
<1>2. GraphInv /\ ScreenInv /\ [Next]_vars => (GraphInv /\ ScreenInv)'
  BY StepInv, StepScreen
<1> QED
  BY <1>1, <1>2, PTL DEF Spec

\* The page and the thread tell the same story of every turn, whichever turns
\* raised, were stopped or were abandoned in between, as long as no run has
\* saved over a newer one (app.py:266-290; graph.py:112, the reducer of
\* pending_writes; graph.py:133-139).
THEOREM ScreensAreThreads == Spec => []ScreenIsThread
<1>1. GraphInv /\ ScreenInv => ScreenIsThread
  <2> SUFFICES ASSUME GraphInv, ScreenInv, saver = Newest, ~forked, NEW t \in Turns
               PROVE  /\ Shown(screen, t) \in {0, Held(thread, t)}
                      /\ Logged(thread, t) = Held(thread, t)
                      /\ script[t] = "done" =>
                            /\ Shown(screen, t) = Held(thread, t)
                            /\ \A m \in Answers : m.turn = t =>
                                  Copies(screen.messages, m) = Copies(thread.messages, m)
    BY DEF ScreenIsThread, Shown, Held, Logged
  <2>1. View = thread
    BY DEF View, ScreenInv, SaverInv
  <2>2. Tells(thread, screen, unseen[t], node[t], script[t], t)
    BY <2>1 DEF ScreenInv, TellInv, Told
  <2>3. script[t] = "done" => unseen[t] = <<>>
    BY DEF ScreenInv, WaitInv, Waits
  <2>4. /\ AuditWaiting(<<>>) = <<>> /\ AnswerWaiting(<<>>) = <<>>
        /\ FlattenSeq(<<>>) = <<>> /\ \A x : Copies(<<>>, x) = 0
    BY WaitingFacts, FlattenEmpty, CopiesEmpty
  <2>5. /\ Shown(screen, t) \in Nat /\ \A x : Copies(screen.messages, x) \in Nat
    BY PageIs, PageCounts
  <2>6. ASSUME script[t] = "done"
        PROVE  /\ Shown(screen, t) = Held(thread, t)
               /\ \A m \in Answers : m.turn = t =>
                     Copies(screen.messages, m) = Copies(thread.messages, m)
    <3>1. Shown(screen, t) + 0 = Held(thread, t)
      BY <2>2, <2>3, <2>4, <2>6 DEF Tells
    <3>2. \A m \in AnswersOf(t) : Copies(screen.messages, m) + 0 = Copies(thread.messages, m)
      BY <2>2, <2>3, <2>4, <2>6 DEF Tells
    <3> QED
      BY <2>5, <3>1, <3>2 DEF AnswersOf
  <2> QED
    BY <2>2, <2>6 DEF Tells
<1> QED
  BY <1>1, GraphInvariant, ScreenInvariant, PTL

-----------------------------------------------------------------------------
(* The memory of the thread: invariant                                     *)

\* No result stands twice in a history.
OneResult(ms) ==
    \A i, j \in DOMAIN ms : ms[i].type = "tool" /\ ms[i] = ms[j] => i = j

\* A call is made once, and its result stands behind it.
OneCall(ms) ==
    \A i \in DOMAIN ms :
        /\ ms[i].type = "ai" => \A j \in DOMAIN ms :
              ms[j].type = "ai" /\ ms[i].calls \cap ms[j].calls # {} => i = j
        /\ ms[i].type = "tool" =>
              \E j \in 1..i - 1 : ms[j].type = "ai" /\ ms[i].call \in ms[j].calls

\* Neither checkpoint holds a message that was not handed to a writer.
HistoryInv ==
    /\ said \in Seq(Message) /\ top \in Seq(Message) /\ indexed \in Seq(Message)
    /\ Range(top) \subseteq Range(said) /\ Range(indexed) \subseteq Range(said)
    /\ OneResult(said) /\ OneResult(top) /\ OneResult(indexed)
    /\ OneCall(said)

\* What a single writer leaves.
WriterInv ==
    /\ writers \subseteq {"append_message", "graph"}
    /\ "graph" \notin writers => indexed = said
    /\ "append_message" \notin writers => indexed = <<>> /\ top = said
    /\ "append_message" \in writers => indexed # <<>>

MemoryInv == HistoryInv /\ WriterInv

-----------------------------------------------------------------------------
(* Histories grow by one message                                           *)

LEMMA GrownFacts ==
    ASSUME NEW ms \in Seq(Message), NEW m \in Message
    PROVE  /\ Append(ms, m) \in Seq(Message)
           /\ Len(ms) \in Nat /\ Len(Append(ms, m)) = Len(ms) + 1
           /\ DOMAIN ms = 1..Len(ms) /\ DOMAIN Append(ms, m) = 1..Len(ms) + 1
           /\ \A i \in DOMAIN ms : Append(ms, m)[i] = ms[i]
           /\ Append(ms, m)[Len(ms) + 1] = m
           /\ Append(ms, m) # <<>>
           /\ Range(Append(ms, m)) = Range(ms) \cup {m}
<1>1. Range(Append(ms, m)) = Range(ms) \cup {m}
  BY AppendFacts
<1> QED
  BY <1>1

\* A call that waits for its result has none in the history.
LEMMA PendingHasNone ==
    ASSUME NEW ms \in Seq(Message), OneCall(ms), NEW m \in Message,
           m.type = "tool", m.call \in Pending(ms, Len(ms))
    PROVE  /\ m \notin Range(ms)
           /\ \E j \in DOMAIN ms : ms[j].type = "ai" /\ m.call \in ms[j].calls
<1>1. DOMAIN ms = 1..Len(ms) /\ Len(ms) \in Nat
  OBVIOUS
<1>2. PICK i \in 1..Len(ms) :
          /\ ms[i].type = "ai" /\ m.call \in ms[i].calls
          /\ \A j \in i + 1..Len(ms) : ms[j].type = "tool" => ms[j].call # m.call
  BY DEF Pending
<1>3. ASSUME NEW k \in DOMAIN ms, ms[k] = m PROVE FALSE
  <2>1. PICK j \in 1..k - 1 : ms[j].type = "ai" /\ m.call \in ms[j].calls
    BY <1>3 DEF OneCall
  <2>2. j \in DOMAIN ms /\ ms[i].calls \cap ms[j].calls # {}
    BY <1>1, <1>2, <2>1
  <2>3. j = i
    BY <1>1, <1>2, <2>1, <2>2 DEF OneCall
  <2>4. k \in i + 1..Len(ms)
    BY <1>1, <2>1, <2>3
  <2> QED
    BY <1>2, <1>3, <2>4
<1> QED
  BY <1>1, <1>2, <1>3 DEF Range

LEMMA GrownOneResult ==
    ASSUME NEW ms \in Seq(Message), NEW m \in Message, OneResult(ms),
           m.type = "tool" => m \notin Range(ms)
    PROVE  OneResult(Append(ms, m))
<1> DEFINE new == Append(ms, m)
<1>1. /\ Len(ms) \in Nat /\ DOMAIN ms = 1..Len(ms) /\ DOMAIN new = 1..Len(ms) + 1
      /\ \A i \in DOMAIN ms : new[i] = ms[i]
      /\ new[Len(ms) + 1] = m
  BY GrownFacts
<1>2. m.type = "tool" => \A i \in DOMAIN ms : new[i] # m
  BY <1>1 DEF Range
<1> HIDE DEF new
<1> SUFFICES ASSUME NEW i \in DOMAIN new, NEW j \in DOMAIN new,
                    new[i].type = "tool", new[i] = new[j]
             PROVE  i = j
  BY DEF OneResult, new
<1>3. CASE i \in DOMAIN ms /\ j \in DOMAIN ms
  BY <1>1, <1>3 DEF OneResult
<1>4. CASE i = Len(ms) + 1 \/ j = Len(ms) + 1
  BY <1>1, <1>2, <1>4
<1> QED
  BY <1>1, <1>3, <1>4

LEMMA GrownOneCall ==
    ASSUME NEW ms \in Seq(Message), OneCall(ms), NEW m \in Following(ms)
    PROVE  OneCall(Append(ms, m))
<1> DEFINE new == Append(ms, m)
<1>1. /\ Len(ms) \in Nat /\ DOMAIN ms = 1..Len(ms) /\ DOMAIN new = 1..Len(ms) + 1
      /\ \A i \in DOMAIN ms : new[i] = ms[i]
      /\ new[Len(ms) + 1] = m
  BY GrownFacts DEF Following
<1>2. m.type = "ai" => \A i \in DOMAIN ms :
                           ms[i].type = "ai" => ms[i].calls \cap m.calls = {}
  BY DEF Following
<1>3. m.type = "tool" => \E j \in DOMAIN ms : ms[j].type = "ai" /\ m.call \in ms[j].calls
  BY PendingHasNone DEF Following
<1> HIDE DEF new
<1>4. ASSUME NEW i \in DOMAIN new, new[i].type = "ai",
             NEW j \in DOMAIN new, new[j].type = "ai", new[i].calls \cap new[j].calls # {}
      PROVE  i = j
  <2>1. CASE i \in DOMAIN ms /\ j \in DOMAIN ms
    BY <1>1, <1>4, <2>1 DEF OneCall
  <2>2. CASE i = Len(ms) + 1 /\ j \in DOMAIN ms
    BY <1>1, <1>2, <1>4, <2>2
  <2>3. CASE i \in DOMAIN ms /\ j = Len(ms) + 1
    BY <1>1, <1>2, <1>4, <2>3
  <2> QED
    BY <1>1, <2>1, <2>2, <2>3
<1>5. ASSUME NEW i \in DOMAIN new, new[i].type = "tool"
      PROVE  \E j \in 1..i - 1 : new[j].type = "ai" /\ new[i].call \in new[j].calls
  <2>1. CASE i \in DOMAIN ms
    <3>1. PICK j \in 1..i - 1 : ms[j].type = "ai" /\ ms[i].call \in ms[j].calls
      BY <1>1, <1>5, <2>1 DEF OneCall
    <3>2. j \in DOMAIN ms
      BY <1>1, <2>1
    <3> QED
      BY <1>1, <2>1, <3>1, <3>2
  <2>2. CASE i = Len(ms) + 1
    BY <1>1, <1>3, <1>5, <2>2
  <2> QED
    BY <1>1, <2>1, <2>2
<1> QED
  BY <1>4, <1>5 DEF OneCall, new

-----------------------------------------------------------------------------
(* The invariant holds                                                     *)

LEMMA MemoryWritten ==
    ASSUME MemoryInv, NEW m \in Following(said)
    PROVE  /\ m \in Message
           /\ Append(said, m) \in Seq(Message) /\ Append(said, m) # <<>>
           /\ OneResult(Append(said, m)) /\ OneCall(Append(said, m))
           /\ Range(Append(said, m)) = Range(said) \cup {m}
           /\ \A ms \in {top, indexed} :
                 /\ Append(ms, m) \in Seq(Message) /\ Append(ms, m) # <<>>
                 /\ OneResult(Append(ms, m))
                 /\ Range(Append(ms, m)) \subseteq Range(Append(said, m))
<1>1. m \in Message /\ (m.type = "tool" => m.call \in Pending(said, Len(said)))
  BY DEF Following
<1>2. m.type = "tool" => m \notin Range(said)
  BY <1>1, PendingHasNone DEF MemoryInv, HistoryInv
<1>3. ASSUME NEW ms \in Seq(Message), OneResult(ms), Range(ms) \subseteq Range(said)
      PROVE  /\ Append(ms, m) \in Seq(Message) /\ Append(ms, m) # <<>>
             /\ OneResult(Append(ms, m)) /\ Range(Append(ms, m)) = Range(ms) \cup {m}
  <2>1. m.type = "tool" => m \notin Range(ms)
    BY <1>2, <1>3
  <2>2. OneResult(Append(ms, m))
    BY <1>1, <1>3, <2>1, GrownOneResult
  <2> QED
    BY <1>1, <2>2, GrownFacts
<1>4. OneCall(Append(said, m))
  BY GrownOneCall DEF MemoryInv, HistoryInv
<1> QED
  BY <1>1, <1>3, <1>4 DEF MemoryInv, HistoryInv

\* Whoever writes the session, append_message, the graph or both, and in whatever
\* order: no call and no result is in a history twice, a result comes after its
\* call, and a single writer keeps one complete checkpoint (checkpoint.py:9-70).
THEOREM MemoryInvariant == MemorySpec => []MemoryInv
<1>1. MemoryInit => MemoryInv
  BY EmptyFacts DEF MemoryInit, MemoryInv, HistoryInv, WriterInv, OneResult, OneCall
<1>2. MemoryInv /\ [MemoryNext]_memory => MemoryInv'
  <2> SUFFICES ASSUME MemoryInv, [MemoryNext]_memory PROVE MemoryInv'
    OBVIOUS
  <2>1. ASSUME NEW m \in Following(said), AppendMessage(m) PROVE MemoryInv'
    <3> DEFINE grown == Append(said, m)
               new == Append(Session, m)
    <3>1. /\ said' = grown /\ indexed' = new /\ top' \in {new, top}
          /\ writers' = writers \cup {"append_message"}
      BY <2>1 DEF AppendMessage
    <3>2. /\ grown \in Seq(Message) /\ OneResult(grown) /\ OneCall(grown)
          /\ Range(grown) = Range(said) \cup {m}
      BY MemoryWritten
    <3>3. Session \in {top, indexed}
      BY DEF Session
    <3>4. /\ new \in Seq(Message) /\ new # <<>> /\ OneResult(new)
          /\ Range(new) \subseteq Range(grown)
      BY <3>3, MemoryWritten
    <3>5. "graph" \notin writers => Session = said
      BY DEF MemoryInv, WriterInv, Session
    <3> HIDE DEF grown, new
    <3>6. HistoryInv'
      BY <3>1, <3>2, <3>4 DEF MemoryInv, HistoryInv
    <3>7. "graph" \notin writers => new = grown
      BY <3>5 DEF new, grown
    <3>8. WriterInv'
      BY <3>1, <3>4, <3>7 DEF MemoryInv, WriterInv
    <3> QED
      BY <3>6, <3>8 DEF MemoryInv
  <2>2. ASSUME NEW m \in Following(said), GraphSaves(m) PROVE MemoryInv'
    <3> DEFINE grown == Append(said, m)
               new == Append(top, m)
    <3>1. /\ said' = grown /\ indexed' = indexed /\ top' \in {new, top}
          /\ "append_message" \notin writers => top' = new
          /\ writers' = writers \cup {"graph"}
      BY <2>2 DEF GraphSaves
    <3>2. /\ grown \in Seq(Message) /\ OneResult(grown) /\ OneCall(grown)
          /\ Range(grown) = Range(said) \cup {m}
      BY MemoryWritten
    <3>3. /\ new \in Seq(Message) /\ OneResult(new) /\ Range(new) \subseteq Range(grown)
      BY MemoryWritten
    <3>4. "append_message" \notin writers => new = grown
      BY DEF MemoryInv, WriterInv
    <3> HIDE DEF grown, new
    <3>5. HistoryInv'
      BY <3>1, <3>2, <3>3 DEF MemoryInv, HistoryInv
    <3>6. WriterInv'
      BY <3>1, <3>4 DEF MemoryInv, WriterInv
    <3> QED
      BY <3>5, <3>6 DEF MemoryInv
  <2>3. CASE MemoryDone \/ UNCHANGED memory
    BY <2>3 DEF MemoryDone, memory, MemoryInv, HistoryInv, WriterInv
  <2> QED
    BY <2>1, <2>2, <2>3 DEF MemoryNext
<1> QED
  BY <1>1, <1>2, PTL DEF MemorySpec

\* A thread with a single writer reads back exactly what was written, wherever the
\* random ids fall (checkpoint.py, get_session and append_message).
THEOREM MemoryIsComplete == MemorySpec => []SessionComplete
<1>1. Cardinality({"append_message", "graph"}) = 2
  <2>1. Cardinality({"append_message"}) = 1 /\ IsFiniteSet({"append_message"})
    BY FS_Singleton
  <2>2. Cardinality({"append_message"} \cup {"graph"}) = 1 + 1
    BY <2>1, FS_AddElement
  <2>3. {"append_message"} \cup {"graph"} = {"append_message", "graph"}
    OBVIOUS
  <2> QED
    BY <2>2, <2>3
<1>2. MemoryInv => SessionComplete
  <2> SUFFICES ASSUME MemoryInv, Cardinality(writers) <= 1 PROVE Session = said
    BY DEF SessionComplete
  <2>1. writers # {"append_message", "graph"}
    BY <1>1
  <2>2. "graph" \notin writers \/ "append_message" \notin writers
    BY <2>1 DEF MemoryInv, WriterInv
  <2> QED
    BY <2>2 DEF MemoryInv, WriterInv, Session
<1> QED
  BY <1>2, MemoryInvariant, PTL

-----------------------------------------------------------------------------
(* Windows                                                                 *)

\* compress_messages keeps fewer messages than the window holds.
LEMMA KeepFacts ==
    ASSUME NEW l \in Limits
    PROVE  /\ l[1] \in Nat /\ l[1] > 0
           /\ KeepCount(l[1], l[2]) \in 0..l[1] - 1
<1>1. l[1] \in Nat /\ l[1] > 0 /\ l[2] \in Nat
  BY MemoryAssumption
<1>2. l[1] \div 2 \in Nat
  BY <1>1
<1> DEFINE most == Max({l[2], l[1] \div 2})
<1>3. most \in Nat
  <2> DEFINE half == l[1] \div 2
  <2> HIDE DEF half
  <2>1. \E n \in {l[2], half} : \A m \in {l[2], half} : n >= m
    BY <1>1, <1>2 DEF half
  <2>2. Max({l[2], half}) \in {l[2], half}
    BY <2>1 DEF Max
  <2> QED
    BY <1>1, <1>2, <2>2 DEF half
<1>4. KeepCount(l[1], l[2]) = Min({most, l[1] - 1})
  BY DEF KeepCount
<1> HIDE DEF most
<1>5. \E n \in {most, l[1] - 1} : \A m \in {most, l[1] - 1} : n <= m
  BY <1>1, <1>3
<1>6. /\ Min({most, l[1] - 1}) \in {most, l[1] - 1}
      /\ Min({most, l[1] - 1}) <= l[1] - 1
  BY <1>5 DEF Min
<1> QED
  BY <1>1, <1>3, <1>4, <1>6

\* The cut is undone no further than it has to be.
LEMMA SafeFacts ==
    ASSUME NEW ms, NEW cut \in Nat
    PROVE  /\ SafeBoundary(ms, cut) \in 0..cut
           /\ Pending(ms, SafeBoundary(ms, cut)) = {}
           /\ \A n \in 0..cut : Pending(ms, n) = {} => n <= SafeBoundary(ms, cut)
<1> DEFINE safe == {n \in 0..cut : Pending(ms, n) = {}}
<1>1. 0 \in safe
  BY DEF Pending
<1>2. Max(safe) \in safe /\ \A n \in safe : n <= Max(safe)
  BY <1>1, MaxFacts
<1>3. SafeBoundary(ms, cut) = Max(safe)
  BY DEF SafeBoundary
<1> QED
  BY <1>2, <1>3

\* Of a history that is too long, the summary stands for a prefix in which no call
\* waits, or for everything when nothing is kept.
LEMMA WindowFacts ==
    ASSUME NEW ms \in Seq(Message), NEW l \in Limits
    PROVE  LET w == Window(ms, l[1], l[2])
               keep == KeepCount(l[1], l[2])
           IN  /\ Len(ms) \in Nat /\ w.summarised \in 0..Len(ms)
               /\ Len(ms) <= l[1] => w.summarised = 0 /\ w.recent = ms
               /\ Len(ms) > l[1] =>
                     /\ w.summarised = Boundary(ms, l[1], l[2])
                     /\ w.recent = SubSeq(ms, w.summarised + 1, Len(ms))
                     /\ keep = 0 => w.summarised = Len(ms)
                     /\ keep > 0 => w.summarised = SafeBoundary(ms, Len(ms) - keep)
               /\ Len(w.recent) = Len(ms) - w.summarised
               /\ \A i \in DOMAIN w.recent :
                     /\ w.summarised + i \in DOMAIN ms
                     /\ w.recent[i] = ms[w.summarised + i]
<1> DEFINE keep == KeepCount(l[1], l[2])
           b == Boundary(ms, l[1], l[2])
           w == Window(ms, l[1], l[2])
<1>1. /\ Len(ms) \in Nat /\ DOMAIN ms = 1..Len(ms)
      /\ l[1] \in Nat /\ l[1] > 0 /\ keep \in 0..l[1] - 1
  BY KeepFacts
<1>2. w = IF Len(ms) <= l[1] THEN [summarised |-> 0, recent |-> ms]
          ELSE [summarised |-> b, recent |-> SubSeq(ms, b + 1, Len(ms))]
  BY DEF Window
<1>3. b = IF keep = 0 THEN Len(ms) ELSE SafeBoundary(ms, Len(ms) - keep)
  BY DEF Boundary
<1> HIDE DEF keep, b, w
<1>4. CASE Len(ms) <= l[1]
  BY <1>1, <1>2, <1>4 DEF w, keep
<1>5. CASE Len(ms) > l[1]
  <2>1. b \in 0..Len(ms)
    <3>1. CASE keep = 0
      BY <1>1, <1>3, <3>1
    <3>2. CASE keep # 0
      <4>1. Len(ms) - keep \in Nat
        BY <1>1, <1>5
      <4>2. SafeBoundary(ms, Len(ms) - keep) \in 0..Len(ms) - keep
        BY <4>1, SafeFacts
      <4> QED
        BY <1>1, <1>3, <3>2, <4>1, <4>2
    <3> QED
      BY <3>1, <3>2
  <2> DEFINE rest == SubSeq(ms, b + 1, Len(ms))
  <2>2. /\ Len(rest) = Len(ms) - b /\ DOMAIN rest = 1..Len(ms) - b
        /\ \A i \in 1..Len(ms) - b : rest[i] = ms[b + i]
    <3> DEFINE from == b + 1
               to == Len(ms)
    <3>1. from \in Int /\ to \in Int /\ \A i \in from..to : ms[i] \in Message
      BY <1>1, <2>1
    <3>2. /\ from <= to \/ from = to + 1
          /\ to - from + 1 = Len(ms) - b
          /\ \A i \in 1..Len(ms) - b : from + i - 1 = b + i
      BY <1>1, <2>1
    <3>3. rest = SubSeq(ms, from, to)
      OBVIOUS
    <3> HIDE DEF from, to, rest
    <3>4. /\ rest \in Seq(Message)
          /\ Len(rest) = IF from <= to THEN to - from + 1 ELSE 0
          /\ \A i \in 1..to - from + 1 : rest[i] = ms[from + i - 1]
      BY <3>1, <3>3, SubSeqProperties
    <3>5. Len(rest) = Len(ms) - b
      BY <3>1, <3>2, <3>4
    <3>6. DOMAIN rest = 1..Len(ms) - b
      BY <3>4, <3>5
    <3> QED
      BY <3>2, <3>4, <3>5, <3>6
  <2> HIDE DEF rest
  <2>3. w.summarised = b /\ w.recent = rest
    <3>1. w = [summarised |-> b, recent |-> SubSeq(ms, b + 1, Len(ms))]
      BY <1>1, <1>2, <1>5
    <3> QED
      BY <3>1 DEF rest
  <2>4. \A i \in 1..Len(ms) - b : b + i \in DOMAIN ms
    BY <1>1, <2>1
  <2>5. /\ keep = 0 => b = Len(ms)
        /\ keep > 0 => b = SafeBoundary(ms, Len(ms) - keep)
    BY <1>1, <1>3
  <2>6. /\ Len(w.recent) = Len(ms) - w.summarised
        /\ \A i \in DOMAIN w.recent :
              w.summarised + i \in DOMAIN ms /\ w.recent[i] = ms[w.summarised + i]
    BY <2>2, <2>3, <2>4
  <2>7. w.recent = SubSeq(ms, w.summarised + 1, Len(ms)) /\ w.summarised = b
    BY <2>3 DEF rest
  <2> QED
    BY <1>1, <1>5, <2>1, <2>5, <2>6, <2>7 DEF w, keep, b
<1> QED
  BY <1>1, <1>4, <1>5

\* A window is no longer than max_history, the summary included, when the place
\* where it cuts lies between groups of calls (compression.py, compress_messages).
THEOREM WindowsAreBounded == MemorySpec => []WindowBounded
<1>1. MemoryInv => WindowBounded
  <2> SUFFICES ASSUME MemoryInv, NEW l \in Limits
               PROVE  LET ms == Session
                          w == Window(ms, l[1], l[2])
                          cut == Len(ms) - KeepCount(l[1], l[2])
                      IN  /\ Size(w) <= Len(ms)
                          /\ Len(ms) > l[1] /\ Pending(ms, cut) = {} => Size(w) <= l[1]
    BY DEF WindowBounded
  <2> DEFINE ms == Session
             w == Window(ms, l[1], l[2])
             keep == KeepCount(l[1], l[2])
             cut == Len(ms) - keep
  <2>1. ms \in Seq(Message)
    BY DEF MemoryInv, HistoryInv, Session
  <2>2. Size(w) = Len(w.recent) + IF w.summarised > 0 THEN 1 ELSE 0
    BY DEF Size
  <2> HIDE DEF ms
  <2>3. l[1] \in Nat /\ l[1] > 0 /\ keep \in 0..l[1] - 1
    BY KeepFacts
  <2>4. /\ Len(ms) \in Nat /\ w.summarised \in 0..Len(ms)
        /\ Len(w.recent) = Len(ms) - w.summarised
        /\ Len(ms) <= l[1] => w.summarised = 0
        /\ Len(ms) > l[1] /\ keep = 0 => w.summarised = Len(ms)
        /\ Len(ms) > l[1] /\ keep > 0 => w.summarised = SafeBoundary(ms, cut)
    BY <2>1, WindowFacts
  <2> HIDE DEF keep, w
  <2>5. Size(w) <= Len(ms)
    BY <2>2, <2>4
  <2>6. ASSUME Len(ms) > l[1], Pending(ms, cut) = {} PROVE Size(w) <= l[1]
    <3>1. cut \in Nat /\ cut \in 0..cut /\ cut <= Len(ms)
      BY <2>3, <2>4, <2>6
    <3> HIDE DEF cut
    <3>2. SafeBoundary(ms, cut) \in 0..cut /\ cut <= SafeBoundary(ms, cut)
      BY <2>6, <3>1, SafeFacts
    <3>3. SafeBoundary(ms, cut) = cut
      BY <3>1, <3>2
    <3>4. w.summarised = cut
      BY <2>3, <2>4, <2>6, <3>3 DEF cut
    <3>5. Len(w.recent) = keep
      BY <2>3, <2>4, <3>4 DEF cut
    <3> QED
      BY <2>2, <2>3, <2>4, <2>6, <3>4, <3>5
  <2> QED
    BY <2>5, <2>6 DEF w, cut, keep, ms
<1> QED
  BY <1>1, MemoryInvariant, PTL

\* A window that shows a result shows the call it answers (compression.py:38-55,
\* compress_messages): the summarised part leaves no call waiting, and no result
\* stands twice.
THEOREM WindowsKeepPairs == MemorySpec => []WindowKeepsPairs
<1>1. MemoryInv => WindowKeepsPairs
  <2> SUFFICES ASSUME MemoryInv PROVE WindowKeepsPairs
    OBVIOUS
  <2> DEFINE Answered(h, i) == \E j \in 1..i-1 : /\ h[j].type = "ai"
                                                /\ h[i].call \in h[j].calls
  <2> SUFFICES ASSUME NEW l \in Limits
               PROVE  \A i \in DOMAIN Window(Session, l[1], l[2]).recent :
                          /\ Window(Session, l[1], l[2]).recent[i].type = "tool"
                          /\ Answered(Session, Window(Session, l[1], l[2]).summarised + i)
                          => Answered(Window(Session, l[1], l[2]).recent, i)
    BY DEF WindowKeepsPairs
  <2> DEFINE ms == Session
             w == Window(ms, l[1], l[2])
             b == w.summarised
             keep == KeepCount(l[1], l[2])
  <2>1. ms \in Seq(Message) /\ OneResult(ms)
    BY DEF MemoryInv, HistoryInv, Session
  <2> HIDE DEF Answered, w
  <2> SUFFICES ASSUME NEW i \in DOMAIN w.recent, w.recent[i].type = "tool",
                      Answered(ms, b + i)
               PROVE  Answered(w.recent, i)
    BY DEF w
  <2>2. PICK j \in 1..(b + i) - 1 : ms[j].type = "ai" /\ ms[b + i].call \in ms[j].calls
    BY DEF Answered
  <2> HIDE DEF ms
  <2>3. /\ Len(ms) \in Nat /\ b \in 0..Len(ms)
        /\ Len(ms) <= l[1] => b = 0
        /\ Len(ms) > l[1] /\ keep = 0 => b = Len(ms)
        /\ Len(ms) > l[1] /\ keep > 0 => b = SafeBoundary(ms, Len(ms) - keep)
        /\ Len(w.recent) = Len(ms) - b
    BY <2>1, WindowFacts DEF w
  <2>4. \A n \in DOMAIN w.recent : b + n \in DOMAIN ms /\ w.recent[n] = ms[b + n]
    BY <2>1, WindowFacts DEF w
  <2>5. l[1] \in Nat /\ keep \in 0..l[1] - 1
    BY KeepFacts
  <2>6. DOMAIN w.recent = 1..Len(ms) - b /\ DOMAIN ms = 1..Len(ms)
    <3>1. CASE Len(ms) <= l[1]
      BY <2>1, <2>3, <3>1, WindowFacts DEF w
    <3>2. CASE Len(ms) > l[1]
      BY <2>1, <2>3, <3>2, WindowFacts, SplitFacts DEF w
    <3> QED
      BY <2>1, <2>3, <2>5, <3>1, <3>2
  <2> HIDE DEF keep
  <2> DEFINE p == b + i
  <2>7. /\ b \in Nat /\ i \in Nat /\ p \in 1..Len(ms) /\ j \in 1..p - 1
        /\ p = b + i /\ i > 0 /\ i <= Len(ms) - b /\ Len(ms) \in Nat
    BY <2>2, <2>3, <2>6
  <2>8. w.recent[i] = ms[p]
    BY <2>4
  <2> HIDE DEF p, b
  <2>9. ms[p].type = "tool" /\ ms[p] \in Message
    BY <2>1, <2>6, <2>7, <2>8
  <2>10. j > b
    <3> SUFFICES ASSUME j <= b PROVE FALSE
      BY <2>7
    <3>1. Len(ms) > l[1] /\ keep > 0
      <4>1. b # 0 /\ b # Len(ms)
        BY <2>7
      <4>2. ~(Len(ms) <= l[1]) /\ ~(Len(ms) > l[1] /\ keep = 0)
        BY <2>3, <4>1 DEF b
      <4> QED
        BY <2>5, <2>7, <4>2
    <3>2. Len(ms) - keep \in Nat
      BY <2>5, <2>7, <3>1
    <3>3. Pending(ms, b) = {}
      BY <2>3, <3>1, <3>2, SafeFacts DEF b
    <3> DEFINE c == ms[p].call
    <3>4. c \in Calls /\ ms[p] = [type |-> "tool", call |-> c]
      BY <2>9 DEF Message
    <3>5. PICK k \in j + 1..b : ms[k].type = "tool" /\ ms[k].call = c
      <4>1. j \in 1..b /\ ms[j].type = "ai" /\ c \in ms[j].calls
        BY <2>2, <2>7 DEF p
      <4> HIDE DEF c
      <4> QED
        BY <3>3, <3>4, <4>1 DEF Pending
    <3>6. k \in 1..Len(ms) /\ k < p
      BY <2>7, <3>5
    <3>7. ms[k] = [type |-> "tool", call |-> c]
      BY <2>1, <2>6, <3>5, <3>6 DEF Message
    <3>8. k = p
      BY <2>1, <2>6, <2>7, <2>9, <3>4, <3>6, <3>7 DEF OneResult
    <3> QED
      BY <2>7, <3>6, <3>8
  <2>11. j - b \in 1..i - 1 /\ b + (j - b) = j /\ j - b \in 1..Len(ms) - b
    BY <2>7, <2>10
  <2>12. w.recent[j - b] = ms[j]
    BY <2>4, <2>6, <2>11 DEF b
  <2>13. w.recent[j - b].type = "ai" /\ w.recent[i].call \in w.recent[j - b].calls
    BY <2>2, <2>8, <2>12 DEF p
  <2> QED
    BY <2>11, <2>13 DEF Answered
<1> QED
  BY <1>1, MemoryInvariant, PTL

\* What the thread grows by changes nothing in what has been said.
LEMMA GrownPending ==
    ASSUME NEW ms \in Seq(Message), NEW m \in Message, NEW n \in 0..Len(ms)
    PROVE  Pending(Append(ms, m), n) = Pending(ms, n)
<1> DEFINE new == Append(ms, m)
<1>1. Len(ms) \in Nat /\ \A i \in 1..Len(ms) : new[i] = ms[i]
  BY GrownFacts
<1> HIDE DEF new
<1>2. \A i \in 1..n : /\ i \in 1..Len(ms) /\ new[i] = ms[i]
                      /\ \A j \in i + 1..n : new[j] = ms[j]
  BY <1>1
<1>3. \A c : (c \in Pending(new, n)) <=> (c \in Pending(ms, n))
  BY <1>2 DEF Pending
<1> QED
  BY <1>3 DEF new

LEMMA GrownWindow ==
    ASSUME NEW ms \in Seq(Message), NEW m \in Message, NEW l \in Limits
    PROVE  Window(ms, l[1], l[2]).summarised
               <= Window(Append(ms, m), l[1], l[2]).summarised
<1> DEFINE new == Append(ms, m)
           keep == KeepCount(l[1], l[2])
           old == Window(ms, l[1], l[2]).summarised
           then == Window(new, l[1], l[2]).summarised
<1>1. new \in Seq(Message) /\ Len(ms) \in Nat /\ Len(new) = Len(ms) + 1
  BY GrownFacts
<1>2. l[1] \in Nat /\ l[1] > 0 /\ keep \in 0..l[1] - 1
  BY KeepFacts
<1> HIDE DEF new
<1>3. /\ old \in 0..Len(ms)
      /\ Len(ms) <= l[1] => old = 0
      /\ Len(ms) > l[1] /\ keep > 0 => old = SafeBoundary(ms, Len(ms) - keep)
  BY WindowFacts
<1>4. /\ then \in 0..Len(new)
      /\ Len(new) > l[1] /\ keep = 0 => then = Len(new)
      /\ Len(new) > l[1] /\ keep > 0 => then = SafeBoundary(new, Len(new) - keep)
  BY <1>1, WindowFacts
<1> HIDE DEF old, then, keep
<1>5. CASE Len(ms) > l[1] /\ keep > 0
  <2> DEFINE cut == Len(ms) - keep
  <2>1. /\ cut \in Nat /\ cut <= Len(ms)
        /\ Len(new) - keep = cut + 1 /\ Len(new) > l[1]
    BY <1>1, <1>2, <1>5
  <2> HIDE DEF cut
  <2>2. SafeBoundary(ms, cut) \in 0..cut /\ Pending(ms, SafeBoundary(ms, cut)) = {}
    BY <2>1, SafeFacts
  <2> DEFINE b == SafeBoundary(ms, cut)
  <2> HIDE DEF b
  <2>3. b \in 0..Len(ms) /\ b \in 0..cut + 1
    BY <1>1, <2>1, <2>2 DEF b
  <2>4. Pending(new, b) = {}
    BY <2>2, <2>3, GrownPending DEF b, new
  <2>5. cut + 1 \in Nat
    BY <2>1
  <2>6. b <= SafeBoundary(new, cut + 1)
    BY <2>3, <2>4, <2>5, SafeFacts
  <2>7. old = b /\ then = SafeBoundary(new, cut + 1)
    BY <1>3, <1>4, <1>5, <2>1 DEF b, cut
  <2> QED
    BY <2>6, <2>7 DEF old, then, new
<1>6. CASE ~(Len(ms) > l[1] /\ keep > 0)
  <2>1. old <= then
    BY <1>1, <1>2, <1>3, <1>4, <1>6
  <2> QED
    BY <2>1 DEF old, then, new
<1> QED
  BY <1>5, <1>6

\* What has gone into the summary of a window does not come back in a later window
\* (compression.py, compress_messages on a growing thread).
THEOREM SummariesOnlyGrow == MemorySpec => SummaryOnlyGrows
<1>1. MemoryInv /\ [MemoryNext]_memory =>
          [Len(Session') > Len(Session) =>
              \A l \in Limits :
                  Window(Session, l[1], l[2]).summarised
                      <= Window(Session', l[1], l[2]).summarised]_memory
  <2> SUFFICES ASSUME MemoryInv, MemoryNext, Len(Session') > Len(Session), NEW l \in Limits
               PROVE  Window(Session, l[1], l[2]).summarised
                          <= Window(Session', l[1], l[2]).summarised
    OBVIOUS
  <2>1. /\ Session \in Seq(Message) /\ Len(Session) \in Nat
        /\ \A m \in Following(said) : m \in Message
    <3>1. Session \in Seq(Message)
      BY DEF MemoryInv, HistoryInv, Session
    <3>2. \A m \in Following(said) : m \in Message
      BY DEF Following
    <3> HIDE DEF Session
    <3> QED
      BY <3>1, <3>2
  <2>2. ASSUME NEW m \in Following(said), AppendMessage(m)
        PROVE  Session' = Append(Session, m)
    <3>1. indexed' = Append(Session, m)
      BY <2>2 DEF AppendMessage
    <3>2. Append(Session, m) # <<>>
      BY <2>1, GrownFacts
    <3> QED
      BY <3>1, <3>2 DEF Session
  <2>3. ASSUME NEW m \in Following(said), GraphSaves(m)
        PROVE  Session' = Append(Session, m)
    <3>1. indexed' = indexed /\ top' \in {Append(top, m), top}
      BY <2>3 DEF GraphSaves
    <3>2. Session' # Session
      BY <2>1
    <3> QED
      BY <3>1, <3>2 DEF Session
  <2>4. ~MemoryDone
    <3> SUFFICES ASSUME MemoryDone PROVE FALSE
      OBVIOUS
    <3>1. Session' = Session
      BY DEF MemoryDone, memory, Session
    <3> QED
      BY <2>1, <3>1
  <2>5. PICK m \in Following(said) : Session' = Append(Session, m)
    BY <2>2, <2>3, <2>4 DEF MemoryNext
  <2> QED
    BY <2>1, <2>5, GrownWindow
<1> QED
  BY <1>1, MemoryInvariant, PTL DEF MemorySpec, SummaryOnlyGrows
=============================================================================
