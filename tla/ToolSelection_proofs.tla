------------------------ MODULE ToolSelection_proofs ------------------------
(***************************************************************************)
(* Proofs that a payload which is sent arrives whole, for every schema a   *)
(* server may give and every payload a model may make; that an agent       *)
(* reaches only the tools its spec declares; and that a call reaches the   *)
(* tool the spec bound to its name.                                        *)
(***************************************************************************)
EXTENDS ToolSelection, DataLemmas

\* _field_annotation keeps a single type.
LEMMA AnnotationOfOne ==
    ASSUME NEW property \in Property, Len(property.types) = 1
    PROVE  Annotation(property) = property.types[1]
<1>1. DOMAIN property.types = {1} /\ property.types[1] \in Type
  BY DEF Property
<1>2. CASE property.types[1] = "other"
  BY <1>1, <1>2 DEF Annotation
<1>3. CASE property.types[1] # "other"
  <2>1. {i \in DOMAIN property.types : property.types[i] # "other"} = {1}
    BY <1>1, <1>3
  <2>2. (CHOOSE i \in {1} : \A j \in {1} : i <= j) = 1
    OBVIOUS
  <2>3. QED BY <2>1, <2>2 DEF Annotation
<1>4. QED BY <1>2, <1>3

\* Pruning drops the nulls, converts the rest, and leaves nothing for a second
\* pruning to change.
LEMMA PrunedFields ==
    ASSUME NEW sch, NEW pay,
           \A f \in DOMAIN pay : pay[f] \in Value
    PROVE  /\ DOMAIN Pruned(sch, pay) = {f \in DOMAIN pay : pay[f] # "null"}
           /\ \A f \in DOMAIN Pruned(sch, pay) :
                  /\ Pruned(sch, pay)[f]
                     = Converted(Annotation(sch[f]), pay[f])
                  /\ Pruned(sch, pay)[f] \in Value \ {"null"}
  BY DEF Pruned, Converted, Value

\* Of a call that is sent, the server receives what the model gave.
LEMMA SentIsWhole ==
    ASSUME NEW sch, NEW pay,
           \A f \in DOMAIN pay : pay[f] \in Value,
           Outcome(sch, pay) = "sent"
    PROVE  LET received == Received(sch, pay)
           IN  /\ DOMAIN received = {f \in DOMAIN pay : pay[f] # "null"}
               /\ DOMAIN received \subseteq DOMAIN sch
               /\ \A f \in DOMAIN received :
                      \/ received[f] = pay[f]
                      \/ pay[f] = "numeral" /\ received[f] = "integer"
<1> DEFINE once  == Pruned(sch, pay)
           twice == Pruned(sch, once)
<1>1. /\ DOMAIN once = {f \in DOMAIN pay : pay[f] # "null"}
      /\ \A f \in DOMAIN once :
             /\ once[f] = Converted(Annotation(sch[f]), pay[f])
             /\ once[f] \in Value \ {"null"}
  BY PrunedFields
<1>2. /\ DOMAIN twice = DOMAIN once
      /\ \A f \in DOMAIN twice :
             twice[f] = Converted(Annotation(sch[f]), once[f])
  <2>1. \A f \in DOMAIN once : once[f] \in Value /\ once[f] # "null"
    BY <1>1
  <2> HIDE DEF once
  <2>2. /\ DOMAIN twice = {f \in DOMAIN once : once[f] # "null"}
        /\ \A f \in DOMAIN twice :
               twice[f] = Converted(Annotation(sch[f]), once[f])
    <3>1. \A f \in DOMAIN once : once[f] \in Value
      BY <2>1
    <3>2. DOMAIN Pruned(sch, once) = {f \in DOMAIN once : once[f] # "null"}
      BY <3>1, PrunedFields
    <3>3. \A f \in DOMAIN Pruned(sch, once) :
              Pruned(sch, once)[f] = Converted(Annotation(sch[f]), once[f])
      BY <3>1, <3>2 DEF Pruned
    <3>4. QED BY <3>2, <3>3
  <2>3. QED BY <2>1, <2>2
<1>3. DOMAIN pay \subseteq DOMAIN sch
  BY DEF Outcome, Fits
<1>4. \A f \in DOMAIN twice :
          twice[f] = pay[f] \/ (pay[f] = "numeral" /\ twice[f] = "integer")
  BY <1>1, <1>2 DEF Converted
<1> QED BY <1>1, <1>2, <1>3, <1>4 DEF Received

\* What the schema allows is sent, unions and required nulls apart.
LEMMA PlainIsSent ==
    ASSUME NEW sch, NEW pay,
           \A f \in DOMAIN sch : sch[f] \in Property,
           \A f \in DOMAIN pay : pay[f] \in Value,
           Plain(sch, pay), Conforms(sch, pay)
    PROVE  Outcome(sch, pay) = "sent"
<1> DEFINE once == Pruned(sch, pay)
<1>1. \A f \in DOMAIN sch : Annotation(sch[f]) = sch[f].types[1]
  BY AnnotationOfOne DEF Plain
<1>2. ASSUME NEW f \in DOMAIN sch, f \in DOMAIN pay
      PROVE  Admits(Annotation(sch[f]), pay[f])
  <2>1. Is(sch[f].types[1], pay[f])
    <3>1. Len(sch[f].types) = 1 /\ DOMAIN sch[f].types = {1}
      BY DEF Plain, Property
    <3>2. QED BY <1>2, <3>1 DEF Conforms
  <2>2. QED BY <1>1, <2>1 DEF Is, Admits
<1>3. Fits(sch, pay)
  BY <1>2 DEF Fits, Conforms
<1>4. /\ DOMAIN once = {f \in DOMAIN pay : pay[f] # "null"}
      /\ \A f \in DOMAIN once :
             /\ once[f] = Converted(Annotation(sch[f]), pay[f])
             /\ once[f] \in Value \ {"null"}
  BY PrunedFields
<1>5. \A f \in DOMAIN once : Admits(Annotation(sch[f]), once[f])
  <2> SUFFICES ASSUME NEW f \in DOMAIN once
               PROVE  Admits(Annotation(sch[f]), once[f])
    OBVIOUS
  <2>1. f \in DOMAIN sch /\ f \in DOMAIN pay
    BY <1>4 DEF Conforms
  <2>2. Admits(Annotation(sch[f]), pay[f])
    BY <1>2, <2>1
  <2>3. QED BY <1>4, <2>2 DEF Admits, Converted
<1>6. Fits(sch, once)
  <2>1. DOMAIN once \subseteq DOMAIN sch
    BY <1>4 DEF Conforms
  <2>2. ASSUME NEW f \in DOMAIN sch, f \notin DOMAIN once
        PROVE  ~sch[f].required
    BY <1>4, <2>2 DEF Plain, Conforms
  <2>3. QED BY <1>5, <2>1, <2>2 DEF Fits
<1> QED BY <1>3, <1>6 DEF Outcome

-----------------------------------------------------------------------------
\* Whatever schema is declared and whatever payload is made, it is kept.
THEOREM PayloadIsKept ==
    ASSUME NEW sch, NEW pay,
           \A f \in DOMAIN sch : sch[f] \in Property,
           \A f \in DOMAIN pay : pay[f] \in Value
    PROVE  PayloadKept(sch, pay)
<1>1. CASE Outcome(sch, pay) = "sent"
  BY <1>1, SentIsWhole DEF PayloadKept
<1>2. CASE Outcome(sch, pay) # "sent"
  BY <1>2, PlainIsSent DEF PayloadKept
<1> QED BY <1>1, <1>2

\* The inductive invariant: a schema and a payload are there once the call is
\* made.
CalledTyped ==
    pc = "called" =>
        /\ \A f \in DOMAIN schema : schema[f] \in Property
        /\ \A f \in DOMAIN args : args[f] \in Value

LEMMA CalledTypedHolds == Spec => []CalledTyped
<1>1. Init => CalledTyped
  BY DEF Init, CalledTyped
<1>2. CalledTyped /\ [Next]_vars => CalledTyped'
  <2> SUFFICES ASSUME CalledTyped, [Next]_vars, pc' = "called"
               PROVE  /\ \A f \in DOMAIN schema' : schema'[f] \in Property
                      /\ \A f \in DOMAIN args' : args'[f] \in Value
    BY DEF CalledTyped
  <2>1. CASE Dispatch
    BY <2>1, SelectionAssumption DEF Dispatch
  <2>2. CASE Done \/ UNCHANGED vars
    BY <2>2 DEF Done, vars, CalledTyped
  <2>3. ASSUME NEW entries \in BoundedSeq(Entry, MaxDeclared),
               \/ SelectAll(entries) \/ Shortlist(entries)
               \/ SelectWithoutModel(entries)
        PROVE  FALSE
    BY <2>3 DEF SelectAll, Shortlist, SelectWithoutModel
  <2>4. ~TakeRegistry /\ ~Calls
    BY DEF TakeRegistry, Calls
  <2>5. QED BY <2>1, <2>2, <2>3, <2>4 DEF Next
<1>3. QED BY <1>1, <1>2, PTL DEF Spec

\* Every payload that is sent to an MCP server arrives whole.
THEOREM PayloadsArrive == Spec => []PayloadArrives
<1>1. CalledTyped => PayloadArrives
  BY PayloadIsKept DEF CalledTyped, PayloadArrives
<1>2. QED BY <1>1, CalledTypedHolds, PTL

-----------------------------------------------------------------------------
(* Choosing from sequences of names                                        *)

LEMMA OnlyFacts ==
    ASSUME NEW S, NEW s \in Seq(S), NEW T
    PROVE  /\ Only(s, T) \in Seq(S)
           /\ Range(Only(s, T)) = Range(s) \cap T
<1> DEFINE parts == [i \in DOMAIN s |-> IF s[i] \in T THEN <<s[i]>> ELSE <<>>]
<1>1. \A i \in DOMAIN s : s[i] \in S /\ parts[i] \in Seq(S)
  <2> SUFFICES ASSUME NEW i \in DOMAIN s PROVE s[i] \in S /\ parts[i] \in Seq(S)
    OBVIOUS
  <2>1. s[i] \in S
    OBVIOUS
  <2>2. <<s[i]>> \in Seq(S) /\ <<>> \in Seq(S)
    BY <2>1
  <2> QED
    BY <2>1, <2>2
<1>2. DOMAIN parts = DOMAIN s
  OBVIOUS
<1>3. parts \in Seq(Seq(S))
  <2>1. DOMAIN s = 1..Len(s) /\ Len(s) \in Nat
    OBVIOUS
  <2>2. parts \in [1..Len(s) -> Seq(S)]
    BY <1>1, <2>1
  <2> HIDE DEF parts
  <2> QED
    BY <2>1, <2>2
<1>4. \A i \in DOMAIN s : Range(parts[i]) = {s[i]} \cap T
  <2>1. \A e : Range(<<e>>) = {e}
    BY DEF Range
  <2> QED
    BY <2>1, EmptyFacts
<1>5. UNION {Range(parts[i]) : i \in DOMAIN parts} = Range(s) \cap T
  <2>1. Range(s) = {s[i] : i \in DOMAIN s}
    BY DEF Range
  <2> HIDE DEF parts
  <2> QED
    BY <1>2, <1>4, <2>1
<1> HIDE DEF parts
<1>6. Only(s, T) = FlattenSeq(parts)
  BY DEF Only, parts
<1> QED
  BY <1>3, <1>5, <1>6, FlattenRange

\* Dropping repetitions loses no name.
LEMMA DedupedFacts ==
    ASSUME NEW S, NEW s \in Seq(S)
    PROVE  /\ Deduped(s) \in Seq(S)
           /\ Range(Deduped(s)) = Range(s)
<1> DEFINE Again(i) == \E j \in 1..i - 1 : s[j] = s[i]
           parts == [i \in DOMAIN s |-> IF Again(i) THEN <<>> ELSE <<s[i]>>]
<1>1. \A i \in DOMAIN s : s[i] \in S /\ parts[i] \in Seq(S)
  <2> SUFFICES ASSUME NEW i \in DOMAIN s PROVE s[i] \in S /\ parts[i] \in Seq(S)
    OBVIOUS
  <2>1. s[i] \in S
    OBVIOUS
  <2>2. <<s[i]>> \in Seq(S) /\ <<>> \in Seq(S)
    BY <2>1
  <2> QED
    BY <2>1, <2>2
<1>2. parts \in Seq(Seq(S)) /\ DOMAIN parts = DOMAIN s
  <2>1. DOMAIN s = 1..Len(s) /\ Len(s) \in Nat
    OBVIOUS
  <2>2. parts \in [1..Len(s) -> Seq(S)]
    BY <1>1, <2>1
  <2>3. DOMAIN parts = DOMAIN s
    OBVIOUS
  <2> HIDE DEF parts
  <2> QED
    BY <2>1, <2>2, <2>3
<1>3. \A i \in DOMAIN s : Range(parts[i]) = IF Again(i) THEN {} ELSE {s[i]}
  <2>1. \A e : Range(<<e>>) = {e}
    BY DEF Range
  <2> QED
    BY <2>1, EmptyFacts
<1>4. ASSUME NEW e \in Range(s)
      PROVE  \E i \in DOMAIN s : s[i] = e /\ ~Again(i)
  <2> DEFINE places == {i \in DOMAIN s : s[i] = e}
  <2>1. places \in SUBSET Nat /\ places # {}
    BY DEF Range
  <2>2. PICK i \in places : \A j \in places : i <= j
    BY <2>1, LeastNat
  <2>3. i \in 1..Len(s) /\ Len(s) \in Nat /\ s[i] = e
    OBVIOUS
  <2>4. ~Again(i)
    BY <2>2, <2>3
  <2> QED
    BY <2>3, <2>4
<1>5. UNION {Range(parts[i]) : i \in DOMAIN parts} = Range(s)
  <2>1. Range(s) = {s[i] : i \in DOMAIN s}
    BY DEF Range
  <2> HIDE DEF parts, Again
  <2>2. \A i \in DOMAIN s : Range(parts[i]) \subseteq Range(s)
    BY <1>3, <2>1
  <2>3. \A e \in Range(s) : \E i \in DOMAIN s : e \in Range(parts[i])
    BY <1>3, <1>4
  <2> QED
    BY <1>2, <2>2, <2>3
<1> HIDE DEF parts
<1>6. Deduped(s) = FlattenSeq(parts)
  BY DEF Deduped, parts
<1> QED
  BY <1>2, <1>5, <1>6, FlattenRange

LEMMA FirstFacts ==
    ASSUME NEW S, NEW s \in Seq(S), NEW n \in Nat
    PROVE  /\ First(n, s) \in Seq(S)
           /\ Range(First(n, s)) \subseteq Range(s)
           /\ n > 0 /\ s # <<>> => First(n, s) # <<>>
<1> DEFINE k == IF n <= Len(s) THEN n ELSE Len(s)
<1>1. k \in 0..Len(s) /\ Len(s) \in Nat
  OBVIOUS
<1>2. First(n, s) = SubSeq(s, 1, k)
  BY DEF First
<1>3. n > 0 /\ s # <<>> => k # 0
  BY EmptySeq
<1> HIDE DEF k
<1>4. /\ SubSeq(s, 1, k) \in Seq(S) /\ Len(SubSeq(s, 1, k)) = k
      /\ Range(SubSeq(s, 1, k)) \subseteq Range(s)
  BY <1>1, SplitFacts
<1>5. k # 0 => SubSeq(s, 1, k) # <<>>
  BY <1>1, <1>4, EmptySeq
<1> QED
  BY <1>2, <1>3, <1>4, <1>5

-----------------------------------------------------------------------------
(* The tools there are, and those an allowlist admits                      *)

LEMMA ToolsetFacts ==
    /\ Toolset \in Seq(Names)
    /\ Range(Toolset) \subseteq Names \cap (files \cup servers \cup BuiltIns)
    /\ \A n \in Range(Toolset) : Origin(n) = "file" => n \in files
<1>1. Order \in Seq(Names) /\ Range(Order) = Names
  BY SelectionAssumption
<1>2. ASSUME NEW T PROVE Among(T) \in Seq(Names) /\ Range(Among(T)) = Names \cap T
  BY <1>1, OnlyFacts DEF Among
<1> DEFINE a == Among(files)
           b == Among(servers \ files)
           c == Among(BuiltIns \ (files \cup servers))
<1>3. /\ a \in Seq(Names) /\ b \in Seq(Names) /\ c \in Seq(Names)
      /\ Range(a) = Names \cap files /\ Range(b) = Names \cap (servers \ files)
      /\ Range(c) = Names \cap (BuiltIns \ (files \cup servers))
  BY <1>2
<1>4. Toolset = (a \o b) \o c
  BY DEF Toolset
<1> HIDE DEF a, b, c
<1>5. a \o b \in Seq(Names) /\ Range(a \o b) = Range(a) \cup Range(b)
  BY <1>3, ConcatFacts
<1> DEFINE ab == a \o b
<1> HIDE DEF ab
<1>6. ab \o c \in Seq(Names) /\ Range(ab \o c) = Range(ab) \cup Range(c)
  <2>1. ab \in Seq(Names)
    BY <1>5 DEF ab
  <2> QED
    BY <1>3, <2>1, ConcatFacts
<1>7. Range(Toolset) \subseteq Names \cap (files \cup servers \cup BuiltIns)
  BY <1>3, <1>4, <1>5, <1>6 DEF ab
<1>8. \A n \in Range(Toolset) : Origin(n) = "file" => n \in files
  BY <1>7 DEF Origin
<1> QED
  BY <1>4, <1>6, <1>7, <1>8 DEF ab

LEMMA AllowedFacts ==
    ASSUME NEW entries \in BoundedSeq(Entry, MaxDeclared)
    PROVE  /\ Allowed(entries) \in Seq(Names)
           /\ Range(Allowed(entries)) = Range(Toolset) \cap UNION Range(entries)
<1> DEFINE parts == [i \in DOMAIN entries |-> Only(Toolset, entries[i])]
           all == FlattenSeq(parts)
<1>1. DOMAIN entries = 1..Len(entries) /\ Len(entries) \in Nat
  BY SelectionAssumption DEF BoundedSeq, SeqOf
<1>2. \A i \in DOMAIN entries :
          parts[i] \in Seq(Names) /\ Range(parts[i]) = Range(Toolset) \cap entries[i]
  BY ToolsetFacts, OnlyFacts
<1>3. parts \in Seq(Seq(Names)) /\ DOMAIN parts = DOMAIN entries
  BY <1>1, <1>2
<1>4. UNION {Range(parts[i]) : i \in DOMAIN parts} = Range(Toolset) \cap UNION Range(entries)
  <2>1. Range(entries) = {entries[i] : i \in DOMAIN entries}
    BY DEF Range
  <2> HIDE DEF parts
  <2> QED
    BY <1>2, <1>3, <2>1
<1> HIDE DEF parts
<1>5. all \in Seq(Names) /\ Range(all) = Range(Toolset) \cap UNION Range(entries)
  BY <1>3, <1>4, FlattenRange
<1>6. Allowed(entries) = Deduped(all)
  BY DEF Allowed, parts
<1> HIDE DEF all
<1> QED
  BY <1>5, <1>6, DedupedFacts

\* The sorter chooses among what it is shown, and never nothing.
LEMMA SelectedFacts ==
    ASSUME NEW tools \in Seq(Names), tools # <<>>,
           NEW reply \in BoundedSeq(Names \cup {Invented}, MaxNamed)
    PROVE  /\ Range(SelectForQuery(tools, reply)) \subseteq Range(tools)
           /\ SelectForQuery(tools, reply) # <<>>
<1> DEFINE S == Names \cup {Invented}
           some == First(MaxShortlisted, tools)
           sorted == SortTools(tools, reply)
           shortlist == First(MaxShortlisted, sorted)
<1>1. MaxShortlisted \in Nat /\ MaxShortlisted > 0
  BY SelectionAssumption
<1>2. reply \in Seq(S) /\ tools \in Seq(S)
  <2>1. \E m \in Nat : reply \in [1..m -> S]
    BY SelectionAssumption DEF BoundedSeq, SeqOf
  <2> QED
    BY <2>1
<1>3. some \in Seq(S) /\ Range(some) \subseteq Range(tools) /\ some # <<>>
  BY <1>1, <1>2, FirstFacts
<1>4. sorted \in Seq(S) /\ Range(sorted) \subseteq Range(tools)
  <2> DEFINE named == First(MaxShortlisted, reply)
  <2>1. named \in Seq(S)
    BY <1>1, <1>2, FirstFacts
  <2>2. sorted = IF named = <<>> THEN some ELSE Only(named, Range(tools))
    BY DEF SortTools
  <2> HIDE DEF named
  <2>3. Only(named, Range(tools)) \in Seq(S) /\ Range(Only(named, Range(tools))) \subseteq Range(tools)
    BY <2>1, OnlyFacts
  <2> QED
    BY <1>3, <2>2, <2>3
<1>5. SelectForQuery(tools, reply) = IF shortlist # <<>> THEN shortlist ELSE some
  BY DEF SelectForQuery
<1> HIDE DEF sorted, some
<1>6. Range(shortlist) \subseteq Range(sorted)
  BY <1>1, <1>4, FirstFacts
<1> QED
  BY <1>3, <1>4, <1>5, <1>6

LEMMA SelectedOnce ==
    ASSUME NEW entries \in BoundedSeq(Entry, MaxDeclared),
           SelectAll(entries) \/ Shortlist(entries) \/ SelectWithoutModel(entries)
    PROVE  /\ Toolset' = Toolset /\ declared' = entries
           /\ Range(bound') \subseteq Range(Allowed(entries))
           /\ Allowed(entries) # <<>> => bound' # <<>>
<1>1. Toolset' = Toolset /\ declared' = entries
  BY DEF SelectAll, Shortlist, SelectWithoutModel, Toolset, Among
<1>2. /\ MaxShortlisted \in Nat /\ MaxVisible \in Nat /\ MaxVisible > 0
      /\ Allowed(entries) \in Seq(Names) /\ Len(Allowed(entries)) \in Nat
  BY SelectionAssumption, AllowedFacts
<1> DEFINE allowed == Allowed(entries)
           visible == First(MaxVisible, allowed)
<1>3. CASE SelectAll(entries)
  BY <1>1, <1>3 DEF SelectAll
<1>4. CASE Shortlist(entries) \/ SelectWithoutModel(entries)
  <2>1. allowed # <<>>
    BY <1>2, <1>4, EmptySeq DEF Shortlist, SelectWithoutModel
  <2>2. visible \in Seq(Names) /\ Range(visible) \subseteq Range(allowed) /\ visible # <<>>
    BY <1>2, <2>1, FirstFacts
  <2>3. \/ bound' = visible
        \/ \E reply \in BoundedSeq(Names \cup {Invented}, MaxNamed) :
               bound' = SelectForQuery(visible, reply)
    BY <1>4 DEF Shortlist, SelectWithoutModel
  <2> HIDE DEF visible, allowed
  <2>4. Range(bound') \subseteq Range(visible) /\ bound' # <<>>
    BY <2>2, <2>3, SelectedFacts
  <2> QED
    BY <1>1, <2>2, <2>4 DEF allowed
<1> QED
  BY <1>3, <1>4

\* A department is bound to nothing its SKILL.md does not name or claim, and to
\* something whenever a tool it declares exists, whatever the sorter replies
\* (subagents.py:431-495, registry.py:52-121).
THEOREM OnlyTheDeclared == Spec => []OnlyDeclared
<1>1. Init => OnlyDeclared
  BY DEF Init, OnlyDeclared
<1>2. OnlyDeclared /\ [Next]_vars => OnlyDeclared'
  <2> SUFFICES ASSUME OnlyDeclared, [Next]_vars PROVE OnlyDeclared'
    OBVIOUS
  <2>1. ASSUME NEW entries \in BoundedSeq(Entry, MaxDeclared),
               SelectAll(entries) \/ Shortlist(entries) \/ SelectWithoutModel(entries)
        PROVE  OnlyDeclared'
    <3> DEFINE theirs == Range(Toolset) \cap UNION Range(entries)
    <3>1. Allowed(entries) \in Seq(Names) /\ Range(Allowed(entries)) = theirs
      BY AllowedFacts
    <3>2. theirs # {} => Allowed(entries) # <<>>
      BY <3>1, RangeEmpty
    <3>3. /\ Toolset' = Toolset /\ declared' = entries
          /\ Range(bound') \subseteq theirs
          /\ theirs # {} => bound' # <<>>
      BY <2>1, <3>1, <3>2, SelectedOnce
    <3> QED
      BY <3>3 DEF OnlyDeclared
  <2>2. CASE TakeRegistry \/ Calls \/ Dispatch
    <3>1. pc' # "bound"
      BY <2>2 DEF TakeRegistry, Calls, Dispatch
    <3> QED
      BY <3>1 DEF OnlyDeclared
  <2>3. CASE Done \/ UNCHANGED vars
    <3>1. UNCHANGED vars
      BY <2>3 DEF Done
    <3>2. UNCHANGED <<pc, declared, bound>> /\ Toolset' = Toolset
      BY <3>1 DEF vars, selection, Toolset, Among
    <3> QED
      BY <3>2 DEF OnlyDeclared
  <2> QED
    BY <2>1, <2>2, <2>3 DEF Next
<1> QED
  BY <1>1, <1>2, PTL DEF Spec

-----------------------------------------------------------------------------
(* What a call reaches                                                     *)

\* The tool registered last under a name declares it.
LEMMA BuiltFacts ==
    ASSUME NEW specs, NEW agents, NEW n \in Names, Built(specs, agents).tool[n] # None
    PROVE  LET m == Built(specs, agents).tool[n]
           IN  /\ m \in Range(Toolset)
               /\ n = IF Origin(m) = "file" THEN specs[m] ELSE m
<1> DEFINE tools == Toolset
           places == Places(tools, specs, n)
<1>1. Built(specs, agents).tool[n] = IF places = {} THEN None ELSE tools[Max(places)]
  BY DEF Built
<1>2. places # {}
  BY <1>1
<1>3. DOMAIN tools = 1..Len(tools) /\ Len(tools) \in Nat
  BY ToolsetFacts
<1>4. places \in SUBSET (0..Len(tools))
  BY <1>3 DEF Places
<1>5. Max(places) \in places
  BY <1>2, <1>3, <1>4, MaxFacts
<1> HIDE DEF tools
<1> QED
  BY <1>1, <1>2, <1>5 DEF Places, Range, tools

\* A call of a bound tool reaches the tool that was bound, unless another file tool
\* declares its name or an A2A agent has it (subagents.py:243-271, tools.py:345-423,
\* registry.py:197-290).
THEOREM CallsReachBound == Spec => []ReachesBound
<1>1. Init => ReachesBound
  BY DEF Init, ReachesBound
<1>2. OnlyDeclared /\ ReachesBound /\ [Next]_vars => ReachesBound'
  <2> SUFFICES ASSUME OnlyDeclared, ReachesBound, [Next]_vars PROVE ReachesBound'
    OBVIOUS
  <2>1. CASE TakeRegistry
    <3>1. PICK agents \in SUBSET AgentNames : registry' = Completed(Built(spec_name', agents))
      BY <2>1 DEF TakeRegistry
    <3>2. Range(bound) \subseteq Range(Toolset) /\ UNCHANGED <<files, servers, bound>>
      BY <2>1 DEF TakeRegistry, OnlyDeclared
    <3> SUFFICES ASSUME NEW n \in Range(bound), n \notin registry'.remote,
                        \A f \in files : Origin(f) = "file" /\ spec_name'[f] = n => f = n
                 PROVE  Reached(n)' = n
      BY <3>2 DEF ReachesBound, Origin
    <3> DEFINE specs == spec_name'
               built == Built(specs, agents)
    <3>3. n \in Names
      BY <3>2, ToolsetFacts
    <3>4. registry'.tool[n] = IF built.tool[n] = None THEN n ELSE built.tool[n]
      BY <3>1, <3>3 DEF Completed
    <3>5. built.tool[n] # None => built.tool[n] = n
      <4> SUFFICES ASSUME built.tool[n] # None PROVE built.tool[n] = n
        OBVIOUS
      <4> DEFINE m == built.tool[n]
      <4>1. m \in Range(Toolset) /\ n = IF Origin(m) = "file" THEN specs[m] ELSE m
        BY <3>3, BuiltFacts
      <4>2. Origin(m) = "file" => m \in files
        BY <4>1, ToolsetFacts
      <4> QED
        BY <4>1, <4>2
    <3>6. registry'.tool[n] = n
      BY <3>4, <3>5
    <3> QED
      BY <3>6 DEF Reached
  <2>2. CASE Calls \/ Dispatch
    <3>1. pc' # "ready"
      BY <2>2 DEF Calls, Dispatch
    <3> QED
      BY <3>1 DEF ReachesBound
  <2>3. ASSUME NEW entries \in BoundedSeq(Entry, MaxDeclared),
               SelectAll(entries) \/ Shortlist(entries) \/ SelectWithoutModel(entries)
        PROVE  ReachesBound'
    <3>1. pc' # "ready"
      BY <2>3 DEF SelectAll, Shortlist, SelectWithoutModel
    <3> QED
      BY <3>1 DEF ReachesBound
  <2>4. CASE Done \/ UNCHANGED vars
    <3>1. UNCHANGED vars
      BY <2>4 DEF Done
    <3>2. UNCHANGED <<pc, files, servers, bound, registry, spec_name>>
      BY <3>1 DEF vars, selection
    <3> QED
      BY <3>2 DEF ReachesBound, Reached, Origin
  <2> QED
    BY <2>1, <2>2, <2>3, <2>4 DEF Next
<1> QED
  BY <1>1, <1>2, OnlyTheDeclared, PTL DEF Spec
=============================================================================
