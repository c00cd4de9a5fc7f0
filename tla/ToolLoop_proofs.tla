---------------------------- MODULE ToolLoop_proofs ----------------------------
(***************************************************************************)
(* What run_tool_loop promises, for any tools, budget, number of retries   *)
(* and of calls in a reply: a transcript in which every call is answered,  *)
(* an audit that is the file calls in order, effects bounded by the        *)
(* attempts, and the thread that SubAgentEngine assumes.                   *)
(***************************************************************************)
EXTENDS ToolLoop, DataLemmas

-----------------------------------------------------------------------------
(* The invariant                                                           *)

\* A reply before the last one: its answers, then the next reply.
Closed(i) ==
    LET n == Len(messages[i].calls)
    IN  /\ i + n + 1 \in Replies
        /\ \A k \in 1..n : Answers(i, k)

Working == pc \in {"calls", "invoke"}

\* The calls of the last reply that are answered
Answered == IF Working THEN next - 1 ELSE Len(Current.calls)

\* The transcript is the replies, each with its answers; those of the last one
\* end where the loop stands.
Shape ==
    /\ \A i \in Replies : i <= reply /\ (i # reply => Closed(i))
    /\ reply = 0 => messages = <<>>
    /\ reply # 0 => /\ reply \in Replies /\ Len(messages) = reply + Answered
                    /\ \A k \in 1..Answered : Answers(reply, k)
    /\ Working => reply # 0 /\ next \in 1..Len(Current.calls)
    /\ reply # 0 => usage # 0

\* Only calls the loop has looked at had an effect; the one under way at most as
\* often as it failed, and not at all when it is a file call.
EffectsInv ==
    /\ Range(effects) \subseteq ReachedIds
    /\ EffectsBounded
    /\ pc = "calls" => attempt = 0
    /\ pc = "invoke" => \A id : id = Id =>
          /\ Times(id) <= attempt
          /\ TheCall.name \in Files => Times(id) = 0

\* Before the tools are selected nothing is paid.
Unpaid == pc = "select" => paid = 0

LoopInv == TypeOK /\ Shape /\ AuditMatchesCalls /\ EffectsInv /\ Unpaid

-----------------------------------------------------------------------------
(* Messages and ids                                                        *)

\* A reply is a sequence of at most MaxToolCalls calls.
LEMMA ReplyFacts ==
    ASSUME TypeOK, NEW i \in Replies
    PROVE  /\ messages[i] \in Message /\ i \in 1..Len(messages) /\ i \in Nat
           /\ messages[i].calls \in Seq(Call) /\ messages[i].calls \in BoundedSeq(Call, MaxToolCalls)
           /\ Len(messages[i].calls) \in 0..MaxToolCalls
<1>1. messages[i] \in Message /\ i \in 1..Len(messages) /\ Len(messages) \in Nat
  BY DEF TypeOK, Replies
<1>2. messages[i].calls \in BoundedSeq(Call, MaxToolCalls)
  BY <1>1 DEF Message, Replies
<1> QED
  BY <1>1, <1>2, ToolLoopAssumption DEF BoundedSeq, SeqOf

\* A message at the end leaves the others where they are.
LEMMA AppendMessage ==
    ASSUME TypeOK, NEW m \in Message, messages' = Append(messages, m)
    PROVE  /\ messages' \in Seq(Message) /\ Len(messages) \in Nat
           /\ Len(messages') = Len(messages) + 1
           /\ messages'[Len(messages) + 1] = m
           /\ \A i \in 1..Len(messages) : messages'[i] = messages[i]
           /\ Replies' = Replies \cup (IF m.type = "ai" THEN {Len(messages) + 1} ELSE {})
           /\ Replies \subseteq 1..Len(messages)
<1>1. /\ messages' \in Seq(Message) /\ Len(messages) \in Nat
      /\ Len(messages') = Len(messages) + 1
      /\ DOMAIN messages' = 1..Len(messages) + 1 /\ DOMAIN messages = 1..Len(messages)
      /\ messages'[Len(messages) + 1] = m
      /\ \A i \in 1..Len(messages) : messages'[i] = messages[i]
  BY AppendProperties DEF TypeOK
<1> QED
  BY <1>1 DEF Replies

\* What the loop stands at.
LEMMA CurrentFacts ==
    ASSUME TypeOK, Shape, Working
    PROVE  /\ reply \in Replies /\ reply \in Nat /\ reply # 0
           /\ Current.calls \in Seq(Call) /\ Len(Current.calls) \in 0..MaxToolCalls
           /\ next \in 1..Len(Current.calls) /\ TheCall \in Call /\ Id \in Nat \X Nat
           /\ Reached(reply) = IF pc = "invoke" THEN next ELSE next - 1
<1>1. reply \in Replies /\ next \in 1..Len(Current.calls)
  BY DEF Shape
<1>2. /\ reply \in Nat /\ reply # 0
      /\ Current.calls \in Seq(Call) /\ Len(Current.calls) \in 0..MaxToolCalls
  BY <1>1, ReplyFacts DEF Current
<1> QED
  BY <1>1, <1>2, ToolLoopAssumption DEF TheCall, Id, Working, Reached

\* The ids of the calls looked at: a reply and a place in it.
LEMMA IdFacts ==
    /\ \A i, k : <<i, k>> \in ReachedIds <=> i \in Replies /\ k \in 1..Reached(i)
    /\ \A id \in ReachedIds : id = <<id[1], id[2]>>
BY DEF ReachedIds

-----------------------------------------------------------------------------
(* The transcript                                                          *)

\* The answers of an earlier reply stay where they are.
LEMMA ClosedFrame ==
    ASSUME TypeOK, NEW i \in Replies, Closed(i),
           NEW m \in Message, messages' = Append(messages, m)
    PROVE  Closed(i)'
<1> DEFINE n == Len(messages[i].calls)
<1>1. i \in 1..Len(messages) /\ n \in Nat /\ i + n + 1 \in Replies
  BY ReplyFacts DEF Closed
<1>2. /\ Len(messages) \in Nat /\ Replies \subseteq Replies' /\ i + n + 1 <= Len(messages)
      /\ \A j \in 1..Len(messages) : messages'[j] = messages[j]
  BY <1>1, AppendMessage
<1>3. messages'[i] = messages[i] /\ i + n + 1 \in Replies'
  BY <1>1, <1>2
<1>4. ASSUME NEW k \in 1..n PROVE Answers(i, k)'
  <2>1. i + k \in 1..Len(messages)
    BY <1>1, <1>2, <1>4
  <2>2. Answers(i, k)
    BY <1>4 DEF Closed
  <2> QED
    BY <1>2, <2>1, <2>2 DEF Answers
<1> QED
  BY <1>3, <1>4 DEF Closed

\* The call the loop stands at is answered: the loop stands behind the answer.
LEMMA AnswerFrame ==
    ASSUME TypeOK, Shape, Working, UNCHANGED <<reply, usage>>,
           Answer
    PROVE  /\ Shape' /\ messages' \in Seq(Message) /\ Replies' = Replies
           /\ reply \in 0..Len(messages') /\ next' \in 0..MaxToolCalls /\ attempt' = 0
           /\ pc' \in {"calls", "model"}
           /\ Reached(reply)' = next
           /\ \A i \in Replies : /\ messages'[i] = messages[i]
                                 /\ i # reply => Reached(i)' = Reached(i)
<1> DEFINE m == ToolMessage
           L == Len(messages)
           n == Len(Current.calls)
<1>1. /\ reply \in Replies /\ reply \in Nat /\ reply # 0 /\ n \in 0..MaxToolCalls
      /\ next \in 1..n /\ Id \in Nat \X Nat
  BY CurrentFacts
<1>2. m \in Message /\ m.type = "tool" /\ m.id = <<reply, next>>
  BY <1>1 DEF Message, ToolMessage, Id
<1> HIDE DEF m
<1>3. messages' = Append(messages, m) /\ attempt' = 0
  BY DEF Answer, m
<1>4. /\ messages' \in Seq(Message) /\ L \in Nat /\ Len(messages') = L + 1
      /\ messages'[L + 1] = m /\ \A i \in 1..L : messages'[i] = messages[i]
      /\ Replies' = Replies /\ Replies \subseteq 1..L
  BY <1>2, <1>3, AppendMessage
<1>5. L = reply + next - 1 /\ \A k \in 1..next - 1 : Answers(reply, k)
  BY <1>1 DEF Shape, Answered
<1>6. Current' = Current /\ Len(Current'.calls) = n
  BY <1>1, <1>4 DEF Current
<1>7. /\ next < n => next' = next + 1 /\ pc' = "calls"
      /\ ~(next < n) => next' = 0 /\ pc' = "model" /\ next = n
  BY <1>1 DEF Answer
<1>8. Answered' = next /\ Reached(reply)' = next
  <2>1. CASE next < n
    BY <1>1, <1>7, <2>1 DEF Answered, Working, Reached
  <2>2. CASE ~(next < n)
    <3>1. pc' = "model" /\ next = n
      BY <1>7, <2>2
    <3> QED
      BY <1>6, <3>1 DEF Answered, Working, Reached, Current
  <2> QED
    BY <2>1, <2>2
<1>9. ASSUME NEW k \in 1..next PROVE Answers(reply, k)'
  <2>1. CASE k = next
    BY <1>1, <1>2, <1>4, <1>5, <2>1 DEF Answers
  <2>2. CASE k # next
    <3>1. k \in 1..next - 1 /\ reply + k \in 1..L
      BY <1>1, <1>5, <2>2
    <3> QED
      BY <1>4, <1>5, <3>1 DEF Answers
  <2> QED
    BY <2>1, <2>2
<1>10. ASSUME NEW i \in Replies
       PROVE  /\ i <= reply /\ (i # reply => Closed(i)') /\ messages'[i] = messages[i]
              /\ i # reply => Reached(i)' = Reached(i)
  <2>1. i <= reply /\ (i # reply => Closed(i)')
    BY <1>2, <1>3, ClosedFrame DEF Shape
  <2>2. messages'[i] = messages[i]
    BY <1>4
  <2> QED
    BY <2>1, <2>2 DEF Reached
<1>11. Working' => next' \in 1..Len(Current'.calls)
  BY <1>1, <1>6, <1>7 DEF Working
<1>12. Shape'
  <2>1. \A i \in Replies' : i <= reply' /\ (i # reply' => Closed(i)')
    BY <1>4, <1>10
  <2>2. /\ reply' \in Replies' /\ Len(messages') = reply' + Answered'
        /\ \A k \in 1..Answered' : Answers(reply, k)'
    BY SMTT(20), <1>1, <1>4, <1>5, <1>8, <1>9
  <2>3. usage' # 0
    BY <1>1 DEF Shape
  <2> QED
    BY <1>1, <1>11, <2>1, <2>2, <2>3 DEF Shape
<1>13. reply \in 0..Len(messages') /\ next' \in 0..MaxToolCalls /\ pc' \in {"calls", "model"}
  BY <1>1, <1>4, <1>7, ToolLoopAssumption
<1> QED
  BY <1>3, <1>4, <1>8, <1>10, <1>12, <1>13

-----------------------------------------------------------------------------
(* The calls looked at, the audit and the effects                          *)

\* When the loop has looked at the call it stands at, its id joins the others,
\* and comes behind them unless it was among them.
LEMMA LookFrame ==
    ASSUME TypeOK, Shape, Working, reply' = reply, Replies' = Replies,
           Reached(reply)' = next,
           \A i \in Replies : /\ messages'[i] = messages[i]
                              /\ i # reply => Reached(i)' = Reached(i)
    PROVE  /\ ReachedIds' = ReachedIds \cup {Id}
           /\ \A id \in ReachedIds' : CallOf(id)' = CallOf(id)
           /\ pc = "invoke" => Id \in ReachedIds
           /\ pc = "calls" => \A id \in ReachedIds :
                 id[1] < Id[1] \/ (id[1] = Id[1] /\ id[2] < Id[2])
<1>1. /\ reply \in Replies /\ next \in Nat /\ next # 0 /\ reply \in Nat
      /\ Reached(reply) = IF pc = "invoke" THEN next ELSE next - 1
  BY CurrentFacts
<1>2. \A i \in Replies : i \in Nat /\ Reached(i) \in Nat
  <2>1. ASSUME NEW i \in Replies PROVE i \in Nat /\ Len(messages[i].calls) \in Nat
    BY ReplyFacts, ToolLoopAssumption
  <2> QED
    BY <1>1, <2>1 DEF Reached
<1>3. \A i, k : <<i, k>> \in ReachedIds' <=> i \in Replies /\ k \in 1..Reached(i)'
  BY DEF ReachedIds
<1>4. ASSUME NEW i, NEW k
      PROVE  <<i, k>> \in ReachedIds' <=> <<i, k>> \in ReachedIds \/ <<i, k>> = Id
  <2>1. CASE i = reply
    <3>1. <<i, k>> \in ReachedIds' <=> k \in 1..next
      BY <1>1, <1>3, <2>1
    <3>2. <<i, k>> \in ReachedIds <=> k \in 1..Reached(reply)
      BY <1>1, <2>1, IdFacts
    <3>3. <<i, k>> = Id <=> k = next
      BY <2>1 DEF Id
    <3>4. k \in 1..next <=> k \in 1..Reached(reply) \/ k = next
      BY <1>1
    <3> QED
      BY <3>1, <3>2, <3>3, <3>4
  <2>2. CASE i # reply
    BY <1>3, <2>2, IdFacts DEF Id
  <2> QED
    BY <2>1, <2>2
<1>5. ReachedIds' = ReachedIds \cup {Id}
  <2>1. \A id \in ReachedIds' : id = <<id[1], id[2]>>
    BY DEF ReachedIds
  <2>2. \A id \in ReachedIds' : id \in ReachedIds \cup {Id}
    BY <1>4, <2>1
  <2>3. \A id \in ReachedIds \cup {Id} : id \in ReachedIds'
    BY <1>4, IdFacts DEF Id
  <2> QED
    BY <2>2, <2>3
<1>6. ASSUME NEW id \in ReachedIds' PROVE CallOf(id)' = CallOf(id)
  <2>1. id[1] \in Replies
    BY <1>1, <1>5, IdFacts DEF Id
  <2> QED
    BY <2>1 DEF CallOf
<1>7. pc = "invoke" => Id \in ReachedIds
  BY <1>1, IdFacts DEF Id
<1>8. ASSUME pc = "calls", NEW id \in ReachedIds
      PROVE  id[1] < reply \/ (id[1] = reply /\ id[2] < next)
  <2>1. id[1] \in Replies /\ id[2] \in 1..Reached(id[1])
    BY IdFacts
  <2>2. id[1] <= reply
    BY <2>1 DEF Shape
  <2>3. CASE id[1] = reply
    BY <1>1, <1>8, <2>1, <2>3
  <2>4. CASE id[1] # reply
    <3>1. id[1] \in Nat
      BY <1>2, <2>1
    <3> QED
      BY <1>1, <2>2, <2>4, <3>1
  <2> QED
    BY <2>3, <2>4
<1>9. Id[1] = reply /\ Id[2] = next
  BY DEF Id
<1> QED
  BY <1>5, <1>6, <1>7, <1>8, <1>9

\* The recording of a call keeps the audit the file calls in order.
LEMMA AuditRecords ==
    ASSUME TypeOK, Shape, pc = "calls", AuditMatchesCalls, Record,
           ReachedIds' = ReachedIds \cup {Id},
           \A id \in ReachedIds' : CallOf(id)' = CallOf(id),
           \A id \in ReachedIds : id[1] < Id[1] \/ (id[1] = Id[1] /\ id[2] < Id[2])
    PROVE  AuditMatchesCalls' /\ write_ops' \in Seq(Nat \X Nat)
<1>1. CallOf(Id) = TheCall /\ Id \in Nat \X Nat
  BY CurrentFacts DEF CallOf, TheCall, Current, Id, Working
<1>2. CASE TheCall.name \in Files
  <2>1. write_ops' = Append(write_ops, Id)
    BY <1>2 DEF Record
  <2>2. /\ write_ops' \in Seq(Nat \X Nat) /\ Len(write_ops) \in Nat
        /\ DOMAIN write_ops' = 1..Len(write_ops) + 1 /\ DOMAIN write_ops = 1..Len(write_ops)
        /\ \A i \in 1..Len(write_ops) : write_ops'[i] = write_ops[i]
        /\ write_ops'[Len(write_ops) + 1] = Id
    BY <1>1, <2>1, AppendProperties DEF TypeOK
  <2>3. Range(write_ops') = Range(write_ops) \cup {Id}
    <3>1. write_ops \in Seq(Nat \X Nat)
      BY DEF TypeOK
    <3>2. Range(Append(write_ops, Id)) = Range(write_ops) \cup {Id}
      BY <1>1, <3>1, AppendFacts
    <3> QED
      BY <2>1, <3>2
  <2>4. Range(write_ops') = {id \in ReachedIds' : CallOf(id)'.name \in Files}
    BY <1>1, <1>2, <2>3 DEF AuditMatchesCalls
  <2>5. \A i, j \in DOMAIN write_ops' : i < j =>
          \/ write_ops'[i][1] < write_ops'[j][1]
          \/ write_ops'[i][1] = write_ops'[j][1] /\ write_ops'[i][2] < write_ops'[j][2]
    <3> SUFFICES ASSUME NEW i \in DOMAIN write_ops', NEW j \in DOMAIN write_ops', i < j
                 PROVE  \/ write_ops'[i][1] < write_ops'[j][1]
                        \/ write_ops'[i][1] = write_ops'[j][1] /\ write_ops'[i][2] < write_ops'[j][2]
      OBVIOUS
    <3>1. i \in 1..Len(write_ops) /\ write_ops'[i] = write_ops[i]
      <4>1. i \in 1..Len(write_ops) + 1 /\ j \in 1..Len(write_ops) + 1 /\ i < j
        BY <2>2
      <4> QED
        BY SMTT(20), <2>2, <4>1
    <3>2. CASE j \in 1..Len(write_ops)
      <4>1. write_ops'[j] = write_ops[j] /\ j \in DOMAIN write_ops /\ i \in DOMAIN write_ops
        BY <2>2, <3>1, <3>2
      <4> QED
        BY <3>1, <4>1 DEF AuditMatchesCalls
    <3>3. CASE j = Len(write_ops) + 1
      <4>1. write_ops[i] \in ReachedIds
        BY <2>2, <3>1 DEF AuditMatchesCalls, Range
      <4>2. write_ops'[j] = Id /\ write_ops'[i] \in ReachedIds
        BY <2>2, <3>1, <3>3, <4>1
      <4> QED
        BY <4>2
    <3> QED
      BY <2>2, <3>2, <3>3
  <2> QED
    BY <2>2, <2>4, <2>5 DEF AuditMatchesCalls
<1>3. CASE TheCall.name \notin Files
  <2>1. write_ops' = write_ops
    BY <1>3 DEF Record
  <2>2. Range(write_ops') = {id \in ReachedIds' : CallOf(id)'.name \in Files}
    BY <1>1, <1>3, <2>1 DEF AuditMatchesCalls
  <2> QED
    BY <2>1, <2>2 DEF AuditMatchesCalls, TypeOK
<1> QED
  BY <1>2, <1>3

\* An audit with nothing new to list.
LEMMA AuditFrame ==
    ASSUME AuditMatchesCalls, write_ops' = write_ops, ReachedIds' = ReachedIds,
           \A id \in ReachedIds : CallOf(id)' = CallOf(id)
    PROVE  AuditMatchesCalls'
<1>1. Range(write_ops') = {id \in ReachedIds' : CallOf(id)'.name \in Files}
  BY DEF AuditMatchesCalls
<1> QED
  BY <1>1 DEF AuditMatchesCalls

\* How often a call took effect, before and after one more effect.
LEMMA TimesFacts ==
    ASSUME effects \in Seq(Nat \X Nat), NEW id
    PROVE  /\ Times(id) \in Nat /\ (id \notin Range(effects) => Times(id) = 0)
           /\ \A new \in Nat \X Nat : effects' = Append(effects, new) =>
                 /\ effects' \in Seq(Nat \X Nat) /\ Range(effects') = Range(effects) \cup {new}
                 /\ Times(id)' = IF id = new THEN Times(id) + 1 ELSE Times(id)
<1> DEFINE at == {i \in DOMAIN effects : effects[i] = id}
<1>1. DOMAIN effects = 1..Len(effects) /\ Len(effects) \in Nat
  OBVIOUS
<1>2. IsFiniteSet(at) /\ Cardinality(at) \in Nat
  <2>1. IsFiniteSet(1..Len(effects)) /\ at \subseteq 1..Len(effects)
    BY <1>1, FS_Interval
  <2> QED
    BY <2>1, FS_Subset, FS_CardinalityType
<1>3. id \notin Range(effects) => Cardinality(at) = 0
  <2>1. id \notin Range(effects) => at = {}
    BY DEF Range
  <2> QED
    BY <2>1, FS_EmptySet
<1>4. ASSUME NEW new \in Nat \X Nat, effects' = Append(effects, new)
      PROVE  /\ effects' \in Seq(Nat \X Nat) /\ Range(effects') = Range(effects) \cup {new}
             /\ Times(id)' = IF id = new THEN Times(id) + 1 ELSE Times(id)
  <2> DEFINE then == {i \in DOMAIN effects' : effects'[i] = id}
  <2>1. /\ effects' \in Seq(Nat \X Nat)
        /\ DOMAIN effects' = 1..Len(effects) + 1 /\ effects'[Len(effects) + 1] = new
        /\ \A i \in 1..Len(effects) : effects'[i] = effects[i]
    BY <1>4, AppendProperties
  <2>2. Range(effects') = Range(effects) \cup {new}
    BY <1>4, AppendFacts
  <2>3. CASE id = new
    <3>1. then = at \cup {Len(effects) + 1} /\ Len(effects) + 1 \notin at
      BY <1>1, <2>1, <2>3
    <3>2. Cardinality(then) = Cardinality(at) + 1
      BY <1>2, <3>1, FS_AddElement
    <3> QED
      BY <2>1, <2>2, <2>3, <3>2 DEF Times
  <2>4. CASE id # new
    <3>1. effects'[Len(effects) + 1] # id
      BY <2>1, <2>4
    <3>2. \A i \in then : i \in 1..Len(effects) + 1 /\ i # Len(effects) + 1
      BY <2>1, <3>1
    <3>3. \A i \in then : i \in 1..Len(effects)
      BY <1>1, <3>2
    <3>4. \A i \in then : i \in at
      BY <1>1, <2>1, <3>3
    <3>5. \A i \in at : i \in then
      BY <1>1, <2>1
    <3>6. then = at
      BY <3>4, <3>5
    <3> QED
      BY <2>1, <2>2, <2>4, <3>6 DEF Times
  <2> QED
    BY <2>3, <2>4
<1> QED
  BY <1>2, <1>3, <1>4 DEF Times

\* No new effect: what bounds the effects keeps to bound them.
LEMMA EffectsFrame ==
    ASSUME EffectsInv, effects' = effects, ReachedIds \subseteq ReachedIds',
           \A id \in ReachedIds : CallOf(id)' = CallOf(id)
    PROVE  /\ Range(effects') \subseteq ReachedIds' /\ EffectsBounded'
           /\ \A id : Times(id)' = Times(id)
<1>1. \A id : Times(id)' = Times(id)
  BY DEF Times
<1>2. \A id \in Range(effects) : id \in ReachedIds
  BY DEF EffectsInv
<1> QED
  BY <1>1, <1>2 DEF EffectsInv, EffectsBounded

\* The call under way may take effect: at most once more than it has failed, and
\* a file call for the first time.
LEMMA EffectsAdds ==
    ASSUME LoopInv, pc = "invoke",
           \/ effects' = effects
           \/ effects' = Append(effects, Id),
           ReachedIds' = ReachedIds \cup {Id},
           \A id \in ReachedIds' : CallOf(id)' = CallOf(id)
    PROVE  /\ effects' \in Seq(Nat \X Nat)
           /\ Range(effects') \subseteq ReachedIds' /\ EffectsBounded'
           /\ \A id : id = Id => Times(id)' \in 0..attempt + 1
<1>1. /\ effects \in Seq(Nat \X Nat) /\ Id \in Nat \X Nat /\ CallOf(Id) = TheCall
      /\ attempt \in 0..MaxRetries - 1
  BY CurrentFacts DEF LoopInv, TypeOK, CallOf, TheCall, Current, Id, Working
<1>2. \A id : id = Id =>
         /\ Times(id) \in Nat /\ Times(id) <= attempt
         /\ TheCall.name \in Files => Times(id) = 0
  BY <1>1, TimesFacts DEF LoopInv, EffectsInv
<1> PICK new : new = Id
  OBVIOUS
<1>3. /\ Times(new) \in Nat /\ Times(new) <= attempt /\ attempt \in Int
      /\ TheCall.name \in Files => Times(new) = 0
  BY <1>1, <1>2, ToolLoopAssumption
<1>4. CASE effects' = effects
  <2>1. /\ Range(effects') \subseteq ReachedIds' /\ EffectsBounded'
        /\ \A id : Times(id)' = Times(id)
    BY <1>4, EffectsFrame DEF LoopInv
  <2>2. Times(new)' \in 0..attempt + 1
    BY <1>3, <2>1
  <2> QED
    BY <1>1, <1>4, <2>1, <2>2
<1>5. CASE effects' = Append(effects, Id)
  <2>1. /\ effects' \in Seq(Nat \X Nat) /\ Range(effects') = Range(effects) \cup {new}
        /\ \A id : Times(id)' = IF id = new THEN Times(id) + 1 ELSE Times(id)
    BY <1>1, <1>5, TimesFacts
  <2>3. ASSUME NEW id \in Range(effects')
        PROVE  Times(id)' <= MaxRetries /\ (CallOf(id)'.name \in Files => Times(id)' = 1)
    <3>1. id \in ReachedIds'
      BY <2>1 DEF LoopInv, EffectsInv
    <3>2. CASE id = new
      <4>1. Times(id)' = Times(new) + 1 /\ CallOf(id)' = TheCall
        BY <1>1, <2>1, <3>1, <3>2
      <4> QED
        BY <1>1, <1>3, <4>1, ToolLoopAssumption
    <3>3. CASE id # new
      BY <2>1, <3>1, <3>3 DEF LoopInv, EffectsInv, EffectsBounded
    <3> QED
      BY <3>2, <3>3
  <2>4. EffectsBounded'
    BY <2>3 DEF EffectsBounded
  <2>5. Times(new)' \in 0..attempt + 1
    <3>1. Times(new)' = Times(new) + 1
      BY <2>1
    <3> QED
      BY <1>3, <3>1
  <2> QED
    BY <2>1, <2>4, <2>5 DEF LoopInv, EffectsInv
<1> QED
  BY <1>4, <1>5

-----------------------------------------------------------------------------
(* The steps                                                               *)

LEMMA InitInv == Init => LoopInv
<1> SUFFICES ASSUME Init PROVE LoopInv
  OBVIOUS
<1>1. TypeOK
  BY ToolLoopAssumption DEF Init, TypeOK
<1>2. Replies = {} /\ ReachedIds = {}
  BY DEF Init, Replies, ReachedIds
<1>3. Shape
  BY <1>2 DEF Init, Shape, Working
<1>4. Range(<<>>) = {} /\ DOMAIN <<>> = {}
  BY EmptyFacts
<1>5. AuditMatchesCalls
  BY <1>2, <1>4 DEF Init, AuditMatchesCalls
<1>6. EffectsInv
  BY <1>2, <1>4 DEF Init, EffectsInv, EffectsBounded
<1> QED
  BY <1>1, <1>3, <1>5, <1>6 DEF LoopInv, Init, Unpaid

\* A step that only counts an attempt, or ends the loop.
LEMMA StillInv ==
    ASSUME LoopInv, UNCHANGED <<messages, reply, usage, write_ops, effects, turns, next>>,
           \/ pc' = pc /\ paid' = paid
           \/ ~Working /\ pc' \in {"model", "returned", "raised"} /\ paid' \in Nat,
           attempt' \in 0..MaxRetries - 1, attempt <= attempt',
           pc = "calls" => attempt' = attempt,
           final' \in Text \cup {"none", "report"}
    PROVE  LoopInv'
<1>1. TypeOK'
  BY DEF LoopInv, TypeOK, Working
<1>2. /\ Working' <=> Working
      /\ pc' = "calls" <=> pc = "calls"
      /\ pc' = "invoke" <=> pc = "invoke"
      /\ Replies' = Replies /\ Current' = Current
  BY DEF Working, Replies, Current
<1>3. Answered' = Answered /\ \A i : Reached(i)' = Reached(i)
  BY <1>2 DEF Answered, Reached, Current, Working
<1>4. ReachedIds' = ReachedIds /\ \A id : CallOf(id)' = CallOf(id)
  BY <1>2, <1>3 DEF ReachedIds, CallOf
<1>5. Shape'
  <2>1. /\ \A i : Closed(i)' <=> Closed(i)
        /\ \A i, k : Answers(i, k)' <=> Answers(i, k)
    BY <1>2 DEF Closed, Answers
  <2>2. \A i \in Replies : i <= reply /\ (i # reply => Closed(i)')
    BY <2>1 DEF LoopInv, Shape
  <2>3. \A k \in 1..Answered : Answers(reply, k)' <=> Answers(reply, k)
    BY DEF Answers
  <2> QED
    BY <1>2, <1>3, <2>2, <2>3 DEF LoopInv, Shape
<1>6. AuditMatchesCalls'
  BY <1>4, AuditFrame DEF LoopInv
<1>7. EffectsInv'
  <2>1. Range(effects') \subseteq ReachedIds' /\ EffectsBounded' /\ \A id : Times(id)' = Times(id)
    BY <1>4, EffectsFrame DEF LoopInv
  <2>2. Id' = Id /\ TheCall' = TheCall /\ \A id : Times(id) \in Nat
    BY <1>2, TimesFacts DEF Id, TheCall, LoopInv, TypeOK
  <2> QED
    BY <1>2, <2>1, <2>2 DEF LoopInv, EffectsInv, TypeOK
<1> QED
  BY <1>1, <1>5, <1>6, <1>7 DEF LoopInv, Unpaid

\* The model's reply: a new last reply, none of whose calls is looked at.
LEMMA ModelRepliesInv == ASSUME LoopInv, ModelReplies PROVE LoopInv'
<1>1. PICK text \in Text, cs \in BoundedSeq(Call, MaxToolCalls) :
         /\ messages' = Append(messages, [type |-> "ai", calls |-> cs, text |-> text])
         /\ IF cs = <<>>
            THEN pc' = "returned" /\ final' = text /\ next' = 0
            ELSE pc' = "calls" /\ final' = final /\ next' = 1
  BY DEF ModelReplies
<1> DEFINE m == [type |-> "ai", calls |-> cs, text |-> text]
           L == Len(messages)
<1>2. m \in Message /\ m.type = "ai" /\ m.calls = cs
  BY DEF Message
<1> HIDE DEF m
<1>3. /\ messages' = Append(messages, m) /\ reply' = L + 1
      /\ turns' = turns + 1 /\ turns < MaxIterations /\ attempt' = 0
      /\ usage' = usage + 1 /\ paid' = paid + 1
      /\ UNCHANGED <<write_ops, effects>> /\ pc = "model"
  BY <1>1 DEF ModelReplies, m
<1>4. /\ messages' \in Seq(Message) /\ L \in Nat /\ Len(messages') = L + 1
      /\ messages'[L + 1] = m /\ \A i \in 1..L : messages'[i] = messages[i]
      /\ Replies' = Replies \cup {L + 1} /\ Replies \subseteq 1..L
  BY <1>2, <1>3, AppendMessage DEF LoopInv
<1>5. cs \in Seq(Call) /\ Len(cs) \in 0..MaxToolCalls /\ (cs # <<>> => Len(cs) # 0)
  <2>1. cs \in Seq(Call) /\ Len(cs) \in 0..MaxToolCalls
    BY ToolLoopAssumption DEF BoundedSeq, SeqOf
  <2> QED
    BY <2>1, EmptySeq
<1>6. TypeOK'
  <2>1. turns' \in 0..MaxIterations /\ usage' \in Nat /\ paid' \in Nat
    BY <1>3, ToolLoopAssumption DEF LoopInv, TypeOK
  <2>2. next' \in 0..MaxToolCalls /\ pc' \in {"calls", "returned"}
    BY <1>1, <1>5, ToolLoopAssumption
  <2>3. final' \in Text \cup {"none", "report"}
    BY <1>1 DEF LoopInv, TypeOK
  <2>4. reply' \in 0..Len(messages') /\ attempt' \in 0..MaxRetries - 1
    BY <1>3, <1>4, ToolLoopAssumption
  <2> QED
    BY <1>3, <1>4, <2>1, <2>2, <2>3, <2>4 DEF LoopInv, TypeOK
<1>7. ASSUME NEW i \in Replies
      PROVE  Closed(i)' /\ Reached(i)' = Reached(i) /\ i < L + 1
  <2>1. i \in 1..L /\ messages'[i] = messages[i] /\ i # reply'
    BY <1>3, <1>4
  <2>2. Reached(i)' = Reached(i)
    BY <1>3, <2>1 DEF Reached
  <2>3. CASE i # reply
    <3>1. Closed(i)
      BY <2>3 DEF LoopInv, Shape
    <3> QED
      BY <1>2, <1>3, <1>4, <2>1, <2>2, <3>1, ClosedFrame DEF LoopInv
  <2>4. CASE i = reply
    <3> DEFINE n == Len(messages[i].calls)
    <3>1. n \in Nat /\ L = i + n /\ \A k \in 1..n : Answers(i, k)
      <4>1. reply # 0 /\ Answered = n
        BY <1>3, <1>4, <2>4 DEF Answered, Working, Current
      <4> QED
        BY <2>4, <4>1, ReplyFacts, ToolLoopAssumption DEF LoopInv, Shape
    <3>2. ASSUME NEW k \in 1..n PROVE Answers(i, k)'
      <4>1. i + k \in 1..L
        BY <2>1, <3>1
      <4> QED
        BY <1>4, <3>1, <4>1 DEF Answers
    <3>3. i + n + 1 \in Replies'
      BY <1>4, <3>1
    <3> QED
      BY <1>4, <2>1, <2>2, <3>2, <3>3 DEF Closed
  <2> QED
    BY <2>3, <2>4
<1>8. Reached(reply)' = 0 /\ (\A i : i = reply' => Reached(i)' = 0) /\ Answered' = 0 /\ Current'.calls = cs
  <2>1. Current' = m
    BY <1>3, <1>4 DEF Current
  <2>2. CASE cs = <<>>
    <3>1. Len(cs) = 0 /\ pc' = "returned"
      BY <1>1, <2>2
    <3>2. Len(messages'[reply'].calls) = 0
      BY <1>2, <1>3, <1>4, <3>1
    <3> QED
      BY <1>2, <2>1, <3>1, <3>2 DEF Reached, Answered, Working
  <2>3. CASE cs # <<>>
    <3>1. pc' = "calls" /\ next' = 1
      BY <1>1, <2>3
    <3> QED
      BY <1>2, <1>3, <2>1, <3>1 DEF Reached, Answered, Working
  <2> QED
    BY <2>2, <2>3
<1>9. Shape'
  <2>1. ASSUME NEW i \in Replies'
        PROVE  i <= reply' /\ (i # reply' => Closed(i)')
    <3>1. CASE i \in Replies
      <4>1. i < L + 1 /\ i \in Nat
        BY <1>4, <1>7, <3>1
      <4> QED
        BY <1>3, <1>7, <3>1, <4>1
    <3>2. CASE i = L + 1
      BY <1>3, <1>4, <3>2
    <3> QED
      BY <1>4, <3>1, <3>2
  <2>2. reply' \in Replies' /\ Len(messages') = reply' + Answered' /\ reply' # 0
    BY <1>3, <1>4, <1>8
  <2>3. Working' => next' \in 1..Len(Current'.calls)
    BY <1>1, <1>5, <1>8 DEF Working
  <2>4. usage' # 0
    BY <1>3 DEF LoopInv, TypeOK
  <2>5. 1..Answered' = {}
    BY <1>8
  <2> QED
    BY <2>1, <2>2, <2>3, <2>4, <2>5 DEF Shape
<1>10. ReachedIds' = ReachedIds
  <2>1. \A i, k : <<i, k>> \in ReachedIds' <=> i \in Replies' /\ k \in 1..Reached(i)'
    BY DEF ReachedIds
  <2>2. ASSUME NEW i, NEW k
        PROVE  <<i, k>> \in ReachedIds' <=> <<i, k>> \in ReachedIds
    <3>1. CASE i = L + 1
      <4>1. Reached(i)' = 0 /\ 1..0 = {} /\ i \notin Replies
        BY <1>3, <1>4, <1>8, <3>1
      <4> QED
        BY <2>1, <4>1, IdFacts
    <3>2. CASE i # L + 1
      BY <1>4, <1>7, <2>1, <3>2, IdFacts
    <3> QED
      BY <3>1, <3>2
  <2>3. \A id \in ReachedIds' : id = <<id[1], id[2]>>
    BY DEF ReachedIds
  <2> QED
    BY <2>2, <2>3, IdFacts
<1>11. \A id \in ReachedIds : CallOf(id)' = CallOf(id)
  BY <1>4, IdFacts DEF CallOf
<1>12. AuditMatchesCalls'
  BY <1>3, <1>10, <1>11, AuditFrame DEF LoopInv
<1>13. EffectsInv'
  <2>1. Range(effects') \subseteq ReachedIds' /\ EffectsBounded'
    BY <1>3, <1>10, <1>11, EffectsFrame DEF LoopInv
  <2> QED
    BY <1>1, <1>3, <2>1 DEF EffectsInv
<1> QED
  BY <1>1, <1>6, <1>9, <1>12, <1>13 DEF LoopInv, Unpaid

LEMMA CallUnknownToolInv == ASSUME LoopInv, CallUnknownTool PROVE LoopInv'
<1>1. /\ pc = "calls" /\ Record /\ Answer
      /\ UNCHANGED <<reply, usage, paid, effects, turns, final>> /\ Working
  BY DEF CallUnknownTool, Working
<1>2. /\ Shape' /\ messages' \in Seq(Message) /\ Replies' = Replies
      /\ reply \in 0..Len(messages') /\ next' \in 0..MaxToolCalls /\ attempt' = 0
      /\ pc' \in {"calls", "model"} /\ Reached(reply)' = next
      /\ \A i \in Replies : /\ messages'[i] = messages[i]
                            /\ i # reply => Reached(i)' = Reached(i)
  BY <1>1, AnswerFrame DEF LoopInv
<1>3. /\ ReachedIds' = ReachedIds \cup {Id}
      /\ \A id \in ReachedIds' : CallOf(id)' = CallOf(id)
      /\ \A id \in ReachedIds : id[1] < Id[1] \/ (id[1] = Id[1] /\ id[2] < Id[2])
  BY <1>1, <1>2, LookFrame DEF LoopInv
<1>4. AuditMatchesCalls' /\ write_ops' \in Seq(Nat \X Nat)
  BY <1>1, <1>3, AuditRecords DEF LoopInv
<1>5. EffectsInv'
  <2>1. Range(effects') \subseteq ReachedIds' /\ EffectsBounded'
    BY <1>1, <1>3, EffectsFrame DEF LoopInv
  <2> QED
    BY <1>2, <2>1 DEF EffectsInv
<1>6. TypeOK'
  BY <1>1, <1>2, <1>4, ToolLoopAssumption DEF LoopInv, TypeOK
<1> QED
  BY <1>2, <1>4, <1>5, <1>6 DEF LoopInv, Unpaid

LEMMA CallBoundToolInv == ASSUME LoopInv, CallBoundTool PROVE LoopInv'
<1>1. /\ pc = "calls" /\ Record /\ pc' = "invoke"
      /\ UNCHANGED <<messages, reply, usage, paid, effects, turns, next, attempt, final>>
      /\ Working
  BY DEF CallBoundTool, Working
<1>2. Replies' = Replies /\ Reached(reply)' = next /\ Current' = Current /\ Id' = Id
      /\ \A i \in Replies : i # reply => Reached(i)' = Reached(i)
  BY <1>1 DEF Replies, Reached, Current, Id
<1>3. /\ ReachedIds' = ReachedIds \cup {Id}
      /\ \A id \in ReachedIds' : CallOf(id)' = CallOf(id)
      /\ \A id \in ReachedIds : id[1] < Id[1] \/ (id[1] = Id[1] /\ id[2] < Id[2])
  BY <1>1, <1>2, LookFrame DEF LoopInv
<1>4. AuditMatchesCalls' /\ write_ops' \in Seq(Nat \X Nat)
  BY <1>1, <1>3, AuditRecords DEF LoopInv
<1>5. Shape'
  <2>1. Answered' = Answered /\ Working'
    BY <1>1 DEF Answered, Working
  <2>2. /\ \A i : Closed(i)' <=> Closed(i)
        /\ \A k : Answers(reply, k)' <=> Answers(reply, k)
    BY <1>1, <1>2 DEF Closed, Answers
  <2>3. \A i \in Replies : i <= reply /\ (i # reply => Closed(i)')
    BY <2>2 DEF LoopInv, Shape
  <2> QED
    BY <1>1, <1>2, <2>1, <2>2, <2>3 DEF LoopInv, Shape
<1>6. EffectsInv'
  <2>1. Range(effects') \subseteq ReachedIds' /\ EffectsBounded' /\ \A id : Times(id)' = Times(id)
    BY <1>1, <1>3, EffectsFrame DEF LoopInv
  <2>2. ASSUME NEW id, id = Id PROVE Times(id)' = 0
    <3>1. Id \in Nat \X Nat /\ Id \notin ReachedIds
      <4>1. reply \in Nat /\ next \in Nat /\ Id = <<reply, next>> /\ Reached(reply) = next - 1
        BY <1>1, CurrentFacts DEF LoopInv, Id
      <4> QED
        BY <4>1, IdFacts
    <3>2. id \notin Range(effects)
      BY <2>2, <3>1 DEF LoopInv, EffectsInv
    <3> QED
      BY <2>1, <3>2, TimesFacts DEF LoopInv, TypeOK
  <2>3. attempt' = 0
    BY <1>1 DEF LoopInv, EffectsInv
  <2>4. \A id : id = Id' => Times(id)' = 0
    BY <1>2, <2>2
  <2> QED
    BY <1>1, <2>1, <2>3, <2>4 DEF EffectsInv
<1>7. TypeOK'
  BY <1>1, <1>4 DEF LoopInv, TypeOK
<1> QED
  BY <1>1, <1>4, <1>5, <1>6, <1>7 DEF LoopInv, Unpaid

\* The tool is done with, whether it took effect once more or not.
LEMMA InvokeEndsInv ==
    ASSUME LoopInv, pc = "invoke",
           Answer,
           UNCHANGED <<reply, usage, paid, write_ops, turns, final>>,
           \/ effects' = effects
           \/ effects' = Append(effects, Id)
    PROVE  LoopInv'
<1>1. Working
  BY DEF Working
<1>2. /\ Shape' /\ messages' \in Seq(Message) /\ Replies' = Replies
      /\ reply \in 0..Len(messages') /\ next' \in 0..MaxToolCalls /\ attempt' = 0
      /\ pc' \in {"calls", "model"} /\ Reached(reply)' = next
      /\ \A i \in Replies : /\ messages'[i] = messages[i]
                            /\ i # reply => Reached(i)' = Reached(i)
  BY <1>1, AnswerFrame DEF LoopInv
<1>3. /\ ReachedIds' = ReachedIds \cup {Id} /\ Id \in ReachedIds
      /\ \A id \in ReachedIds' : CallOf(id)' = CallOf(id)
  BY <1>1, <1>2, LookFrame DEF LoopInv
<1>4. AuditMatchesCalls'
  BY <1>3, AuditFrame DEF LoopInv
<1>5. effects' \in Seq(Nat \X Nat) /\ EffectsInv'
  <2>1. /\ effects' \in Seq(Nat \X Nat)
        /\ Range(effects') \subseteq ReachedIds' /\ EffectsBounded'
    BY <1>3, EffectsAdds
  <2> QED
    BY <1>2, <2>1 DEF EffectsInv
<1>6. TypeOK'
  BY <1>2, <1>5, ToolLoopAssumption DEF LoopInv, TypeOK
<1> QED
  BY <1>2, <1>4, <1>5, <1>6 DEF LoopInv, Unpaid

\* A tool that is no file tool failed, with an effect or without, and is tried again.
LEMMA InvokeRetriedInv ==
    ASSUME LoopInv, pc = "invoke", TheCall.name \notin Files, MayRetry, Retry,
           UNCHANGED <<reply, usage, paid, write_ops, turns, final>>,
           \/ effects' = effects
           \/ effects' = Append(effects, Id)
    PROVE  LoopInv'
<1>1. /\ UNCHANGED <<messages, pc, next>> /\ attempt' = attempt + 1 /\ attempt < MaxRetries - 1
  BY DEF Retry, MayRetry
<1>2. /\ Replies' = Replies /\ Current' = Current /\ Id' = Id /\ TheCall' = TheCall
      /\ Working' /\ Working /\ Answered' = Answered /\ \A i : Reached(i)' = Reached(i)
  BY <1>1 DEF Replies, Reached, Current, Id, TheCall, Working, Answered
<1>3. ReachedIds' = ReachedIds /\ Id \in ReachedIds /\ \A id : CallOf(id)' = CallOf(id)
  <2>1. ReachedIds' = ReachedIds /\ \A id : CallOf(id)' = CallOf(id)
    BY <1>1, <1>2 DEF ReachedIds, CallOf
  <2>2. reply \in Replies /\ next \in 1..Reached(reply) /\ Id = <<reply, next>>
    BY <1>2, CurrentFacts, ToolLoopAssumption DEF LoopInv, Id
  <2> QED
    BY <2>1, <2>2, IdFacts
<1>4. AuditMatchesCalls'
  BY <1>3, AuditFrame DEF LoopInv
<1>5. effects' \in Seq(Nat \X Nat) /\ EffectsInv'
  <2>1. ReachedIds' = ReachedIds \cup {Id}
    BY <1>3
  <2>2. /\ effects' \in Seq(Nat \X Nat)
        /\ Range(effects') \subseteq ReachedIds' /\ EffectsBounded'
        /\ \A id : id = Id => Times(id)' \in 0..attempt + 1
    BY <1>3, <2>1, EffectsAdds
  <2>3. \A id : id = Id' => Times(id)' <= attempt'
    BY <1>1, <1>2, <2>2
  <2> QED
    BY <1>1, <1>2, <2>2, <2>3 DEF EffectsInv
<1>6. TypeOK'
  BY <1>1, <1>5, ToolLoopAssumption DEF LoopInv, TypeOK
<1>7. Shape'
  <2>1. /\ \A i : Closed(i)' <=> Closed(i)
        /\ \A k : Answers(reply, k)' <=> Answers(reply, k)
    BY <1>1, <1>2 DEF Closed, Answers
  <2>2. \A i \in Replies : i <= reply /\ (i # reply => Closed(i)')
    BY <2>1 DEF LoopInv, Shape
  <2> QED
    BY <1>1, <1>2, <2>1, <2>2 DEF LoopInv, Shape
<1> QED
  BY <1>1, <1>4, <1>5, <1>6, <1>7 DEF LoopInv, Unpaid

LEMMA StepInv == LoopInv /\ [Next]_vars => LoopInv'
<1> SUFFICES ASSUME LoopInv, [Next]_vars PROVE LoopInv'
  OBVIOUS
<1> USE ToolLoopAssumption
<1>0. attempt \in 0..MaxRetries - 1 /\ final \in Text \cup {"none", "report"}
  BY DEF LoopInv, TypeOK
<1>1. CASE ModelReplies
  BY <1>1, ModelRepliesInv
<1>10. CASE SelectTools
  BY <1>0, <1>10, StillInv DEF SelectTools, Working
<1>2. CASE ModelFailsTransiently \/ ToolRefusalRetried
  BY <1>0, <1>2, StillInv DEF ModelFailsTransiently, ToolRefusalRetried, MayRetry, Retry
<1>3. CASE ModelFails \/ Exhausted \/ ExhaustedRaises
  <2>1. /\ UNCHANGED <<messages, reply, usage, paid, write_ops, effects, turns, next, attempt>>
        /\ ~Working /\ pc # "calls" /\ pc' \in {"returned", "raised"}
        /\ final' \in Text \cup {"none", "report"}
    BY <1>0, <1>3 DEF ModelFails, Exhausted, ExhaustedRaises, Working, Text
  <2>2. paid' \in Nat /\ attempt' \in 0..MaxRetries - 1 /\ attempt <= attempt'
    BY <1>0, <2>1 DEF LoopInv, TypeOK
  <2> QED
    BY <2>1, <2>2, StillInv
<1>4. CASE CallUnknownTool
  BY <1>4, CallUnknownToolInv
<1>5. CASE CallBoundTool
  BY <1>5, CallBoundToolInv
<1>6. CASE ToolRefuses
  BY <1>6, InvokeEndsInv DEF ToolRefuses
<1>7. CASE ToolReturns
  BY <1>7, InvokeEndsInv DEF ToolReturns
<1>8. ASSUME NEW last \in BOOLEAN, ToolRaises(last) PROVE LoopInv'
  <2>1. CASE last
    BY <1>8, <2>1, InvokeEndsInv DEF ToolRaises
  <2>2. CASE ~last
    BY <1>8, <2>2, InvokeRetriedInv DEF ToolRaises
  <2> QED
    BY <2>1, <2>2
<1>9. CASE Done \/ UNCHANGED vars
  BY <1>0, <1>9, StillInv DEF Done, vars
<1> QED
  BY <1>1, <1>2, <1>3, <1>4, <1>5, <1>6, <1>7, <1>8, <1>9, <1>10 DEF Next

-----------------------------------------------------------------------------
(* The theorems                                                            *)

\* The transcript keeps its shape, and audit and effects stay within the calls the
\* loop has looked at, through every reply, refusal, retry and failure
\* (subagents.py:326-360, utils.py:45-62).
THEOREM LoopInvariant == Spec => []LoopInv
BY InitInv, StepInv, PTL DEF Spec

\* Every variable keeps its type; in particular attempts and iterations stay
\* within their budgets.
THEOREM LoopTypeCorrect == Spec => []TypeOK
<1>1. LoopInv => TypeOK
  BY DEF LoopInv
<1> QED
  BY <1>1, LoopInvariant, PTL

\* Whenever the model is asked, each call of each reply has its one answer, in
\* order, right behind the reply (subagents.py:331-360).
THEOREM TranscriptIsPaired == Spec => []TranscriptPaired
<1>1. ASSUME LoopInv, pc \in {"model", "returned"}, NEW i \in Replies
      PROVE  LET n == Len(messages[i].calls)
             IN  /\ i + n <= Len(messages) /\ \A k \in 1..n : Answers(i, k)
                 /\ i + n < Len(messages) => i + n + 1 \in Replies
  <2>1. /\ i \in 1..Len(messages) /\ Len(messages[i].calls) \in Nat /\ Len(messages) \in Nat
        /\ \A j \in Replies : j <= Len(messages)
    BY <1>1, ReplyFacts, ToolLoopAssumption DEF LoopInv, TypeOK, Replies
  <2>2. CASE i = reply
    BY <1>1, <2>1, <2>2 DEF LoopInv, Shape, Answered, Working, Current
  <2>3. CASE i # reply
    BY <1>1, <2>1, <2>3 DEF LoopInv, Shape, Closed
  <2> QED
    BY <2>2, <2>3
<1>2. LoopInv => TranscriptPaired
  BY <1>1 DEF TranscriptPaired
<1> QED
  BY <1>2, LoopInvariant, PTL

\* The write audit is the file calls looked at, once each and in their order
\* (subagents.py:336-345).
THEOREM AuditIsTheCalls == Spec => []AuditMatchesCalls
<1>1. LoopInv => AuditMatchesCalls
  BY DEF LoopInv
<1> QED
  BY <1>1, LoopInvariant, PTL

\* A call takes effect at most MaxRetries times, a file write at most once
\* (utils.py:45-62, subagents.py:349-355).
THEOREM EffectsAreBounded == Spec => []EffectsBounded
<1>1. LoopInv => EffectsBounded
  BY DEF LoopInv, EffectsInv
<1> QED
  BY <1>1, LoopInvariant, PTL

\* The loop is the thread SubAgentEngine assumes of a local department: it pays
\* before it records, takes nothing back and ends once (subagents.py:293-387).
THEOREM LoopMeetsRun == Spec => MeetsRun
<1>1. Init => Run!Init
  BY DEF Init, Run!Init
<1>2. LoopInv /\ [Next]_vars => [Run!Next]_(Run!dvars)
  <2> SUFFICES ASSUME LoopInv, [Next]_vars PROVE [Run!Next]_(Run!dvars)
    OBVIOUS
  <2> DEFINE st == IF pc \in {"returned", "raised"} THEN pc ELSE "busy"
  <2>1. CASE ModelReplies
    <3>1. /\ st = "busy" /\ st' \in {"busy", "returned"} /\ usage' = usage + 1 /\ paid' = paid + 1
          /\ write_ops' = write_ops
      BY <2>1 DEF ModelReplies
    <3> QED
      BY <3>1 DEF Run!Next, Run!Spend
  <2>2. CASE CallUnknownTool \/ CallBoundTool
    <3>1. /\ st = "busy" /\ st' = "busy" /\ usage' = usage /\ paid' = paid /\ Record
          /\ Working
      BY <2>2 DEF CallUnknownTool, CallBoundTool, Answer, Working
    <3>2. usage \in Nat /\ usage # 0 /\ write_ops \in Seq(Nat \X Nat) /\ Id \in Nat \X Nat
      BY <3>1, CurrentFacts DEF LoopInv, TypeOK, Shape
    <3>3. Len(write_ops') = Len(write_ops) + 1 \/ write_ops' = write_ops
      BY <3>1, <3>2, AppendProperties DEF Record
    <3> QED
      BY <3>1, <3>2, <3>3 DEF Run!Next, Run!Write, Run!dvars
  <2>3. CASE ModelFails \/ Exhausted \/ ExhaustedRaises
    <3>1. /\ st = "busy" /\ st' \in {"returned", "raised"}
          /\ usage' = usage /\ paid' = paid /\ write_ops' = write_ops
      BY <2>3 DEF ModelFails, Exhausted, ExhaustedRaises
    <3> QED
      BY <3>1 DEF Run!Next, Run!End
  <2>4. CASE \/ ModelFailsTransiently \/ ToolRefuses \/ ToolRefusalRetried \/ ToolReturns
             \/ \E last \in BOOLEAN : ToolRaises(last)
             \/ Done \/ UNCHANGED vars
    <3>1. st' = st /\ usage' = usage /\ paid' = paid /\ write_ops' = write_ops
      BY <2>4 DEF ModelFailsTransiently, ToolRefuses, ToolRefusalRetried, ToolReturns,
         ToolRaises, Answer, Retry, Done, vars
    <3> QED
      BY <3>1 DEF Run!dvars
  <2>5. CASE SelectTools
    <3>1. /\ st = "busy" /\ st' = "busy" /\ paid = 0 /\ paid' \in {0, 1}
          /\ usage' = usage /\ write_ops' = write_ops
      BY <2>5 DEF SelectTools, LoopInv, Unpaid
    <3> QED
      BY <3>1 DEF Run!Next, Run!Sort, Run!dvars
  <2> QED
    BY <2>1, <2>2, <2>3, <2>4, <2>5 DEF Next
<1> QED
  BY <1>1, <1>2, LoopInvariant, PTL DEF Spec, MeetsRun, Run!Spec
=============================================================================
