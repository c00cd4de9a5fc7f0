-------------------------- MODULE Workspace_proofs --------------------------
(***************************************************************************)
(* Proofs about what departments that run at once share.  In the           *)
(* workspace, files which no two calls had open together hold what their   *)
(* calls would have left one after another, and that whose changes last    *)
(* has told the parent, and what is written is read under the name it is   *)
(* shown by: for any number of departments, paths, links, roots, texts and *)
(* clears.  Of the tools of the process, a department that was not         *)
(* overtaken can call every tool bound to its model, file tools are no     *)
(* older than the hash they were loaded under, and a quiet reset leaves no *)
(* older tool of a server: for any number of threads, edits and resets.    *)
(***************************************************************************)
EXTENDS Workspace, ToolRuntime, DataLemmas

-----------------------------------------------------------------------------
(* Texts                                                                   *)

\* A text is a sequence of at most MaxWords words.
LEMMA ContentsFacts ==
    /\ \A t \in Contents : t \in Seq({Word, Other}) /\ Len(t) <= MaxWords
    /\ \A t \in Seq({Word, Other}) : Len(t) <= MaxWords => t \in Contents
    /\ <<>> \in Contents /\ Absent \notin Contents
<1>1. ASSUME NEW t \in Contents PROVE t \in Seq({Word, Other}) /\ Len(t) <= MaxWords
  BY WorkspaceAssumption DEF Contents, BoundedSeq, SeqOf
<1>2. ASSUME NEW t \in Seq({Word, Other}), Len(t) <= MaxWords PROVE t \in Contents
  <2>1. Len(t) \in 0 .. MaxWords /\ t \in [1 .. Len(t) -> {Word, Other}]
    BY <1>2, WorkspaceAssumption
  <2> QED
    BY <2>1 DEF Contents, BoundedSeq, SeqOf
<1>3. <<>> \in Contents
  <2>1. <<>> \in Seq({Word, Other}) /\ Len(<<>>) = 0 /\ 0 <= MaxWords
    BY WorkspaceAssumption
  <2> QED
    BY <1>2, <2>1
<1> QED
  BY <1>1, <1>2, <1>3, WorkspaceAssumption

\* Replacing words leaves a text a text.
LEMMA ReplacedType ==
    ASSUME NEW t \in Contents
    PROVE  Replaced(t) \in Contents
<1>1. t \in Seq({Word, Other}) /\ Len(t) <= MaxWords
  BY ContentsFacts
<1>2. Replaced(t) \in Seq({Word, Other}) /\ Len(Replaced(t)) = Len(t)
  BY <1>1 DEF Replaced
<1> QED
  BY <1>1, <1>2, ContentsFacts

\* Written over an empty file, a buffer is the text; over any other it leaves a
\* text no longer than the longer of the two.
LEMMA OverFacts ==
    ASSUME NEW b \in Contents
    PROVE  /\ Over(<<>>, b) = b
           /\ \A t \in Contents : Over(t, b) \in Contents
<1>1. b \in Seq({Word, Other}) /\ Len(b) <= MaxWords /\ Len(b) \in Nat
  BY ContentsFacts
<1>2. Over(<<>>, b) = b
  <2>1. SubSeq(<<>>, Len(b) + 1, Len(<<>>)) = <<>>
    BY <1>1, SubSeqEmpty
  <2> QED
    BY <1>1, <2>1, ConcatEmptySeq DEF Over
<1>3. ASSUME NEW t \in Contents PROVE Over(t, b) \in Contents
  <2> DEFINE rest == SubSeq(t, Len(b) + 1, Len(t))
  <2>1. t \in Seq({Word, Other}) /\ Len(t) <= MaxWords /\ Len(t) \in Nat
    BY ContentsFacts
  <2>2. /\ rest \in Seq({Word, Other})
        /\ Len(rest) = IF Len(b) + 1 <= Len(t) THEN Len(t) - Len(b) ELSE 0
    BY <1>1, <2>1, SubSeqProperties
  <2>3. b \o rest \in Seq({Word, Other}) /\ Len(b \o rest) = Len(b) + Len(rest)
    BY <1>1, <2>2, ConcatProperties
  <2>4. Len(b \o rest) <= MaxWords
    BY <1>1, <2>1, <2>2, <2>3, WorkspaceAssumption
  <2> QED
    BY <2>3, <2>4, ContentsFacts DEF Over
<1> QED
  BY <1>2, <1>3

-----------------------------------------------------------------------------
(* The invariant                                                           *)

\* While no link is gone, a path that was told means what it meant.
Leads(op) == links = Links => place[op.path] = op.file

\* The parent can name the file of every call: the write_ops of a department it
\* waits for reach the file that one works at and the files it changed last, and
\* so do the pending writes once they are folded.  Only a department that is
\* waited for, or was given up, is at a call.
ToldInv ==
    /\ \A d \in Departments : dept[d] \notin {"asked", "given_up"} => thread[d].at = "idle"
    /\ \A d \in Departments : dept[d] = "none" => ops[d] = {}
    /\ \A d \in Departments : dept[d] = "asked" /\ thread[d].at # "idle" =>
           \E op \in ops[d] : op.file = thread[d].file
    /\ \A f \in Locations : \A d \in Departments :
           writer[f] = d /\ dept[d] \in {"none", "asked", "answered"} =>
               \E op \in ops[d] : op.file = f
    /\ \A f \in Locations : \A d \in Departments :
           writer[f] = d /\ dept[d] = "folded" => \E op \in told : op.file = f
    /\ \A d \in Departments : \A op \in ops[d] : Leads(op)
    /\ \A op \in told : Leads(op)

\* A file nothing has raced for: one call at most is at it, which still knows what
\* the file held, or will write over an empty one what should then be there.
TextInv(f) ==
    /\ \A d, e \in Departments : Uses(d, f) /\ Uses(e, f) => d = e
    /\ ~InUse(f) => files[f] = expected[f]
    /\ \A d \in Departments : Uses(d, f) /\ thread[d].at = "loaded" =>
           /\ files[f] = expected[f] /\ files[f] # Absent
           /\ thread[d].text = Replaced(files[f])
    /\ \A d \in Departments : Uses(d, f) /\ thread[d].at = "open" =>
           /\ files[f] = <<>> /\ thread[d].linked
           /\ ~thread[d].new => /\ expected[f] # Absent
                                /\ thread[d].text = Replaced(expected[f])

\* A file that is open under its name is there.
LinkInv ==
    \A d \in Departments : thread[d].at = "open" =>
        (thread[d].linked => files[thread[d].file] # Absent)

WorkInv == TypeOK /\ ToldInv /\ LinkInv /\ \A f \in Locations \ raced : TextInv(f)

-----------------------------------------------------------------------------
(* Frames                                                                  *)

\* What a thread is at, and with which text.
LEMMA ThreadFacts ==
    ASSUME TypeOK, NEW d \in Departments
    PROVE  /\ thread[d] \in Threads
           /\ thread[d].at \in {"idle", "loaded", "open"}
           /\ thread[d].at # "idle" => thread[d].file \in Locations /\ thread[d].text \in Contents
BY DEF TypeOK, Threads, Idle

\* A location where nothing changes.
LEMMA TextFrame ==
    ASSUME NEW f, TextInv(f), files'[f] = files[f], expected'[f] = expected[f],
           \A d \in Departments : Uses(d, f)' <=> Uses(d, f),
           \A d \in Departments : Uses(d, f) => thread'[d] = thread[d]
    PROVE  TextInv(f)'
BY DEF TextInv, InUse

\* Files that are there stay, and one that is opened is there.
LEMMA LinkFrame ==
    ASSUME WorkInv, \A g \in Locations : files[g] # Absent => files'[g] # Absent,
           \A d \in Departments : thread'[d].at = "open" =>
               thread'[d] = thread[d] \/ files'[thread'[d].file] # Absent
    PROVE  LinkInv'
<1> SUFFICES ASSUME NEW d \in Departments, thread'[d].at = "open", thread'[d].linked,
                    thread'[d] = thread[d]
             PROVE  files'[thread'[d].file] # Absent
  BY DEF LinkInv
<1>1. thread[d].file \in Locations
  BY ThreadFacts DEF WorkInv
<1> QED
  BY <1>1 DEF WorkInv, LinkInv

\* A step that touches no file.
LEMMA QuietFrame ==
    ASSUME WorkInv, UNCHANGED <<files, thread, expected, raced>>
    PROVE  /\ Locations' = Locations /\ Threads' = Threads
           /\ LinkInv' /\ \A f \in Locations' \ raced' : TextInv(f)'
<1>1. Locations' = Locations
  BY DEF Locations
<1>2. Threads' = Threads
  BY <1>1 DEF Threads
<1>3. ASSUME NEW f \in Locations \ raced PROVE TextInv(f)'
  BY DEF WorkInv, TextInv, InUse, Uses
<1>4. LinkInv'
  BY DEF WorkInv, LinkInv
<1> QED
  BY <1>1, <1>2, <1>3, <1>4

-----------------------------------------------------------------------------
(* Init, turns and deadlines                                               *)

\* The links that are left are those at first without some of the workspace's own,
\* which alone a clear unlinks; paths mean what they lead to.
LinksInv ==
    /\ root \in Roots
    /\ \E left \in SUBSET DOMAIN Links :
          /\ links = Remaining(left)
          /\ \A at \in DOMAIN Links \ left : TopLevel(root, at)
    /\ \A at \in clearing : TopLevel(root, at)
    /\ place = [p \in Paths |-> WritePath(links, p, root)]
    /\ Locations = Reachable(root)

\* What a path means when links of the root are gone is a file of the model.
LEMMA ReachableFacts ==
    ASSUME NEW r, NEW left \in SUBSET DOMAIN Links,
           \A at \in DOMAIN Links \ left : TopLevel(r, at),
           NEW p \in Paths, WritePath(Remaining(left), p, r) # Denied
    PROVE  WritePath(Remaining(left), p, r) \in Reachable(r)
<1> DEFINE own == {at \in DOMAIN Links : TopLevel(r, at)}
           gone == DOMAIN Links \ left
<1>1. gone \in SUBSET own /\ DOMAIN Links \ gone = left
  OBVIOUS
<1> DEFINE means(g) == {WritePath(Remaining(DOMAIN Links \ g), q, r) : q \in Paths}
<1>2. Reachable(r) = (UNION {means(g) : g \in SUBSET own}) \ {Denied}
  BY DEF Reachable
<1> DEFINE file == WritePath(Remaining(left), p, r)
<1>3. file \in means(gone) /\ file # Denied
  BY <1>1
<1> HIDE DEF own, gone, means, file
<1>4. \E g \in SUBSET own : file \in means(g)
  BY <1>1, <1>3
<1>5. file \in Reachable(r)
  BY <1>2, <1>3, <1>4
<1> QED
  BY <1>5 DEF file

\* Whatever links are left, a path means a file of the model or none.
LEMMA LinksFacts ==
    ASSUME LinksInv
    PROVE  /\ \A p \in Paths : WritePath(links, p, root) \in Locations \cup {Denied}
           /\ DOMAIN links \subseteq DOMAIN Links /\ links = Remaining(DOMAIN links)
<1>1. PICK left \in SUBSET DOMAIN Links :
          links = Remaining(left) /\ \A at \in DOMAIN Links \ left : TopLevel(root, at)
  BY DEF LinksInv
<1>2. DOMAIN links = left
  BY <1>1 DEF Remaining
<1>3. ASSUME NEW p \in Paths, WritePath(links, p, root) # Denied
      PROVE  WritePath(links, p, root) \in Locations
  BY <1>1, <1>3, ReachableFacts DEF LinksInv
<1> QED
  BY <1>1, <1>2, <1>3

LEMMA InitLinks == Init => LinksInv
<1> SUFFICES ASSUME Init PROVE LinksInv
  OBVIOUS
<1>1. links = Remaining(DOMAIN Links) /\ clearing = {}
  BY GuardrailsAssumption DEF Init, Remaining
<1>2. Locations = Reachable(root)
  BY DEF Init, Locations
<1> QED
  BY <1>1, <1>2 DEF Init, LinksInv

LEMMA InitInv == Init => WorkInv
<1> SUFFICES ASSUME Init PROVE WorkInv
  OBVIOUS
<1>1. \A d \in Departments : thread[d] = Idle /\ ~(Idle.at # "idle")
  BY DEF Init, Idle
<1>2. TypeOK
  <2>1. files \in [Locations -> Contents \cup {Absent}] /\ expected = files
    <3>1. PICK left \in Texts \cup {Absent} :
             files = [g \in Reachable(root) |-> IF Real(Links, g) THEN left ELSE Absent]
      BY DEF Init
    <3>2. left \in Contents \cup {Absent}
      BY WorkspaceAssumption DEF Contents
    <3>3. Locations = Reachable(root)
      BY <3>1 DEF Locations
    <3> QED
      BY <3>1, <3>2, <3>3 DEF Init
  <2>2. writer \in [Locations -> Departments \cup {Absent}]
    BY DEF Init
  <2>3. thread \in [Departments -> Threads]
    BY DEF Init, Threads
  <2>4. /\ DOMAIN links \subseteq DOMAIN Links /\ links = Remaining(DOMAIN links)
        /\ DOMAIN place = Paths /\ \A p \in Paths : place[p] \in Locations \cup {Denied}
    BY InitLinks, LinksFacts DEF LinksInv
  <2> QED
    BY <2>1, <2>2, <2>3, <2>4, WorkspaceAssumption DEF Init, TypeOK
<1>3. ToldInv
  <2>1. \A g \in Locations : \A d \in Departments : writer[g] # d
    BY WorkspaceAssumption DEF Init
  <2> QED
    BY <1>1, <2>1 DEF Init, ToldInv
<1>4. LinkInv /\ \A g \in Locations : TextInv(g)
  BY <1>1 DEF Init, LinkInv, TextInv, Uses, InUse, Idle
<1> QED
  BY <1>2, <1>3, <1>4 DEF WorkInv

\* A step of the turns that touches no file and no thread.
LEMMA TurnFrame ==
    ASSUME WorkInv,
           UNCHANGED <<root, links, place, files, thread, calls, clearing, clears, expected,
                       raced, writer>>,
           dept' \in [Departments -> {"none", "asked", "answered", "folded", "lost", "given_up"}],
           ops' \in [Departments -> SUBSET Ops], spoilt' \subseteq Departments,
           told' \subseteq Ops, ToldInv'
    PROVE  WorkInv'
<1>1. /\ Locations' = Locations /\ Threads' = Threads
      /\ LinkInv' /\ \A f \in Locations' \ raced' : TextInv(f)'
  BY QuietFrame
<1>2. Ops' = Ops
  BY <1>1 DEF Ops
<1>3. TypeOK'
  BY <1>1, <1>2 DEF WorkInv, TypeOK
<1> QED
  BY <1>1, <1>3 DEF WorkInv

LEMMA StartTurnInv ==
    ASSUME WorkInv, NEW asked \in SUBSET Departments, StartTurn(asked)
    PROVE  WorkInv'
<1>1. /\ UNCHANGED <<root, links, place, files, thread, calls, ops, spoilt, told, clearing,
                     clears, expected, raced, writer>>
      /\ dept' = [d \in Departments |-> IF d \in asked THEN "asked" ELSE dept[d]]
      /\ \A d \in asked : dept[d] = "none"
  BY DEF StartTurn
<1>2. Locations' = Locations
  BY <1>1 DEF Locations
<1>3. \A d \in Departments : dept'[d] # dept[d] => dept[d] = "none" /\ dept'[d] = "asked"
  BY <1>1
<1>4. ToldInv'
  BY <1>1, <1>2, <1>3 DEF WorkInv, ToldInv, Leads
<1>5. /\ dept' \in [Departments -> {"none", "asked", "answered", "folded", "lost", "given_up"}]
      /\ ops' \in [Departments -> SUBSET Ops] /\ spoilt' \subseteq Departments
      /\ told' \subseteq Ops
  BY <1>1 DEF WorkInv, TypeOK
<1> QED
  BY <1>1, <1>4, <1>5, TurnFrame

LEMMA AnswersInv ==
    ASSUME WorkInv, NEW d \in Departments, Answers(d)
    PROVE  WorkInv'
<1>1. /\ UNCHANGED <<root, links, place, files, thread, calls, ops, spoilt, told, clearing,
                     clears, expected, raced, writer>>
      /\ dept' = [dept EXCEPT ![d] = "answered"]
      /\ dept[d] = "asked" /\ thread[d].at = "idle"
  BY DEF Answers
<1>2. Locations' = Locations
  BY <1>1 DEF Locations
<1>3. \A e \in Departments : dept'[e] = IF e = d THEN "answered" ELSE dept[e]
  BY <1>1 DEF WorkInv, TypeOK
<1>4. ToldInv'
  BY <1>1, <1>2, <1>3 DEF WorkInv, ToldInv, Leads
<1>5. /\ dept' \in [Departments -> {"none", "asked", "answered", "folded", "lost", "given_up"}]
      /\ ops' \in [Departments -> SUBSET Ops] /\ spoilt' \subseteq Departments
      /\ told' \subseteq Ops
  BY <1>1 DEF WorkInv, TypeOK
<1> QED
  BY <1>1, <1>4, <1>5, TurnFrame

LEMMA ForgottenInv ==
    ASSUME WorkInv, NEW d \in Departments, Fails(d) \/ GivenUp(d)
    PROVE  WorkInv'
<1>1. PICK outcome \in {"lost", "given_up"} :
          Forgotten(d, outcome) /\ (outcome = "lost" => thread[d].at = "idle")
  BY DEF Fails, GivenUp
<1>2. /\ UNCHANGED <<root, links, place, files, thread, calls, told, clearing, clears,
                     expected, raced, writer>>
      /\ dept' = [dept EXCEPT ![d] = outcome] /\ dept[d] = "asked"
      /\ ops' = [ops EXCEPT ![d] = {}] /\ spoilt' = spoilt \ {d}
  BY <1>1 DEF Forgotten
<1>3. Locations' = Locations
  BY <1>2 DEF Locations
<1>4. \A e \in Departments : dept'[e] = IF e = d THEN outcome ELSE dept[e]
  BY <1>2 DEF WorkInv, TypeOK
<1>7. \A e \in Departments : ops'[e] = IF e = d THEN {} ELSE ops[e]
  BY <1>2 DEF WorkInv, TypeOK
<1>5. ToldInv'
  BY <1>1, <1>2, <1>3, <1>4, <1>7 DEF WorkInv, ToldInv, Leads
<1>6. /\ dept' \in [Departments -> {"none", "asked", "answered", "folded", "lost", "given_up"}]
      /\ ops' \in [Departments -> SUBSET Ops] /\ spoilt' \subseteq Departments
      /\ told' \subseteq Ops
  BY <1>2 DEF WorkInv, TypeOK
<1> QED
  BY <1>2, <1>5, <1>6, TurnFrame

\* The fold hands all that was recorded to the parent, or nothing of it.
LEMMA FoldInv ==
    ASSUME WorkInv, Fold \/ FoldRaises
    PROVE  WorkInv'
<1> DEFINE all == UNION {ops[d] : d \in AnsweredDepartments}
<1>1. PICK outcome \in {"folded", "lost"} :
          /\ Settles(outcome) /\ FanoutOver
          /\ told' = IF outcome = "folded" THEN told \cup all ELSE told
  BY DEF Fold, FoldRaises
<1>2. /\ UNCHANGED <<root, links, place, files, thread, calls, clearing, clears,
                     expected, raced, writer>>
      /\ dept' = [d \in Departments |-> IF dept[d] = "answered" THEN outcome ELSE dept[d]]
      /\ ops' = [d \in Departments |-> {}] /\ spoilt' = {}
      /\ \A d \in Departments : dept[d] # "asked"
  BY <1>1 DEF Settles, FanoutOver
<1>3. Locations' = Locations
  BY <1>2 DEF Locations
<1>4. /\ \A d \in Departments : dept[d] = "answered" => ops[d] \subseteq all
      /\ \A op \in all : \E d \in Departments : op \in ops[d]
  BY DEF AnsweredDepartments
<1> HIDE DEF all
<1>5. told' \subseteq Ops
  BY <1>1, <1>4 DEF WorkInv, TypeOK
<1>6. ToldInv'
  <2>1. \A op \in told' : Leads(op)'
    BY <1>1, <1>2, <1>4 DEF WorkInv, ToldInv, Leads
  <2>2. ASSUME NEW f \in Locations, NEW d \in Departments, writer[f] = d, dept'[d] = "folded"
        PROVE  \E op \in told' : op.file = f
    BY <1>1, <1>2, <1>4, <2>2 DEF WorkInv, ToldInv
  <2>3. ASSUME NEW f \in Locations, NEW d \in Departments, writer[f] = d,
               dept'[d] \in {"none", "asked", "answered"}
        PROVE  FALSE
    BY <1>1, <1>2, <2>3 DEF WorkInv, ToldInv
  <2>4. \A d \in Departments : dept'[d] \notin {"asked", "given_up"} => thread[d].at = "idle"
    BY <1>1, <1>2 DEF WorkInv, ToldInv
  <2>5. \A d \in Departments : ops'[d] = {} /\ dept'[d] # "asked"
    BY <1>1, <1>2
  <2> QED
    BY <1>2, <1>3, <2>1, <2>2, <2>3, <2>4, <2>5 DEF ToldInv
<1>7. /\ dept' \in [Departments -> {"none", "asked", "answered", "folded", "lost", "given_up"}]
      /\ ops' \in [Departments -> SUBSET Ops] /\ spoilt' \subseteq Departments
  BY <1>2 DEF WorkInv, TypeOK
<1> QED
  BY <1>2, <1>5, <1>6, <1>7, TurnFrame

-----------------------------------------------------------------------------
(* File calls                                                              *)

\* What the recording of a call does.
LEMMA CallsFacts ==
    ASSUME WorkInv, NEW d \in Departments, NEW path \in Paths, Calls(d, path)
    PROVE  /\ UNCHANGED <<root, links, place, dept, spoilt, told, clearing, clears, expected>>
           /\ calls' \in 0 .. MaxCalls /\ ops' \in [Departments -> SUBSET Ops]
           /\ \A e \in Departments : dept[e] # "asked" => ops'[e] = ops[e]
           /\ \A e \in Departments : /\ ops[e] \subseteq ops'[e]
                                      /\ \A op \in ops'[e] : op \in ops[e] \/ op.file = place[op.path]
           /\ \/ dept[d] = "given_up"
              \/ dept[d] = "asked" /\ \E op \in ops'[d] : op.file = place[path]
           /\ ~\E f \in Locations : Uses(d, f)
           /\ thread[d].at = "idle"
<1> DEFINE new == [path |-> path, file |-> place[path]]
<1>1. calls' \in 0 .. MaxCalls
  BY WorkspaceAssumption DEF Calls, NextCall, WorkInv, TypeOK
<1>2. new \in Ops /\ new.file = place[path] /\ new.path = path
  BY DEF WorkInv, TypeOK, Ops
<1> HIDE DEF new
<1>3. /\ dept[d] \in {"asked", "given_up"} /\ thread[d].at = "idle"
      /\ ops' = IF dept[d] = "given_up" THEN ops ELSE [ops EXCEPT ![d] = @ \cup {new}]
      /\ UNCHANGED <<root, links, place, dept, spoilt, told, clearing, clears, expected>>
  BY DEF Calls, NextCall, new
<1>4. ops' \in [Departments -> SUBSET Ops]
  BY <1>2, <1>3 DEF WorkInv, TypeOK
<1>5. \A e \in Departments :
          ops'[e] = IF e = d /\ dept[d] = "asked" THEN ops[e] \cup {new} ELSE ops[e]
  BY <1>3 DEF WorkInv, TypeOK
<1> QED
  BY <1>1, <1>2, <1>3, <1>4, <1>5 DEF Uses

\* A step after which each thread and each change is still covered by a recorded
\* call keeps the parent able to tell.
LEMMA ToldFrame ==
    ASSUME WorkInv, UNCHANGED <<links, place, dept, told>>, Locations' = Locations,
           \A e \in Departments : dept[e] # "asked" => ops'[e] = ops[e],
           \A e \in Departments : /\ ops[e] \subseteq ops'[e]
                                  /\ \A op \in ops'[e] : op \in ops[e] \/ op.file = place[op.path],
           \A e \in Departments : thread'[e].at # "idle" =>
               \/ thread[e].at # "idle" /\ thread'[e].file = thread[e].file
               \/ dept[e] = "given_up"
               \/ dept[e] = "asked" /\ \E op \in ops'[e] : op.file = thread'[e].file,
           \A f \in Locations : \A e \in Departments : writer'[f] = e =>
               \/ writer[f] = e
               \/ dept[e] = "given_up"
               \/ dept[e] = "asked" /\ \E op \in ops'[e] : op.file = f
    PROVE  ToldInv'
<1>1. \A e \in Departments : dept[e] \notin {"asked", "given_up"} => thread'[e].at = "idle"
  BY DEF WorkInv, ToldInv
<1>2. \A e \in Departments : dept[e] = "none" => ops'[e] = {}
  BY DEF WorkInv, ToldInv
<1>3. ASSUME NEW e \in Departments, dept[e] = "asked", thread'[e].at # "idle"
      PROVE  \E op \in ops'[e] : op.file = thread'[e].file
  BY <1>3 DEF WorkInv, ToldInv
<1>4. ASSUME NEW f \in Locations, NEW e \in Departments, writer'[f] = e,
             dept[e] \in {"none", "asked", "answered"}
      PROVE  \E op \in ops'[e] : op.file = f
  BY <1>4 DEF WorkInv, ToldInv
<1>5. ASSUME NEW f \in Locations, NEW e \in Departments, writer'[f] = e, dept[e] = "folded"
      PROVE  \E op \in told : op.file = f
  BY <1>5 DEF WorkInv, ToldInv
<1>6. ASSUME NEW e \in Departments, NEW op \in ops'[e] PROVE Leads(op)'
  BY DEF WorkInv, ToldInv, Leads
<1>7. \A op \in told : Leads(op)'
  BY DEF WorkInv, ToldInv, Leads
<1> QED
  BY <1>1, <1>2, <1>3, <1>4, <1>5, <1>6, <1>7 DEF ToldInv

\* Where a thread stands, no department that has answered does.
LEMMA BusyFacts ==
    ASSUME WorkInv, NEW d \in Departments, thread[d].at # "idle"
    PROVE  \/ dept[d] = "given_up"
           \/ dept[d] = "asked" /\ \E op \in ops[d] : op.file = thread[d].file
BY DEF WorkInv, ToldInv

LEMMA ToolRefusesInv ==
    ASSUME WorkInv, NEW d \in Departments, NEW path \in Paths,
           NEW tool \in {"write_file", "edit_file"}, ToolRefuses(d, path, tool)
    PROVE  WorkInv'
<1>1. Calls(d, path) /\ UNCHANGED <<files, thread, raced, writer>>
  BY DEF ToolRefuses
<1>2. /\ Locations' = Locations /\ Threads' = Threads
      /\ LinkInv' /\ \A f \in Locations' \ raced' : TextInv(f)'
  BY <1>1, CallsFacts, QuietFrame
<1>3. TypeOK'
  <2>1. Ops' = Ops
    BY <1>2 DEF Ops
  <2> QED
    BY <1>1, <1>2, <2>1, CallsFacts DEF WorkInv, TypeOK
<1>4. ToldInv'
  BY <1>1, <1>2, CallsFacts, ToldFrame
<1> QED
  BY <1>2, <1>3, <1>4 DEF WorkInv

LEMMA SchemaRefusesInv ==
    ASSUME WorkInv, NEW d \in Departments, SchemaRefuses(d)
    PROVE  WorkInv'
<1>1. UNCHANGED <<root, links, place, files, dept, thread, ops, told, clearing, clears,
                  expected, raced, writer>>
  BY DEF SchemaRefuses
<1>2. calls' \in 0 .. MaxCalls /\ spoilt' \subseteq Departments
  BY WorkspaceAssumption DEF SchemaRefuses, NextCall, WorkInv, TypeOK
<1>3. /\ Locations' = Locations /\ Threads' = Threads
      /\ LinkInv' /\ \A f \in Locations' \ raced' : TextInv(f)'
  BY <1>1, QuietFrame
<1>4. TypeOK'
  <2>1. Ops' = Ops
    BY <1>3 DEF Ops
  <2> QED
    BY <1>1, <1>2, <1>3, <2>1 DEF WorkInv, TypeOK
<1>5. ToldInv'
  BY <1>1, <1>3, ToldFrame
<1> QED
  BY <1>3, <1>4, <1>5 DEF WorkInv

\* The file at which a call begins: one that is met is raced for.
LEMMA MeetsFacts ==
    ASSUME TypeOK, NEW f \in Locations, Meets(f)
    PROVE  /\ raced' \subseteq Locations /\ raced \subseteq raced'
           /\ f \notin raced' => ~InUse(f)
BY DEF TypeOK, Meets

LEMMA OpenToWriteInv ==
    ASSUME WorkInv, NEW d \in Departments, NEW path \in Paths, OpenToWrite(d, path)
    PROVE  WorkInv'
<1> DEFINE f == place[path]
<1>1. Calls(d, path) /\ f \in Locations /\ Meets(f)
  BY DEF OpenToWrite, WorkInv, TypeOK
<1>2. PICK text \in Texts : Truncated(d, f, text, TRUE)
  BY DEF OpenToWrite
<1> DEFINE new == [at |-> "open", file |-> f, text |-> text, new |-> TRUE, linked |-> TRUE]
<1>3. /\ files' = [files EXCEPT ![f] = <<>>] /\ thread' = [thread EXCEPT ![d] = new]
      /\ writer' = [writer EXCEPT ![f] = d] /\ text \in Contents
  BY <1>2, WorkspaceAssumption DEF Truncated, Contents
<1>4. new \in Threads
  BY <1>1, <1>3 DEF Threads
<1>9. Locations' = Locations /\ Threads' = Threads /\ Ops' = Ops
  BY <1>3 DEF Locations, Threads, Ops
<1> HIDE DEF f
<1>5. TypeOK'
  <2>1. thread' \in [Departments -> Threads]
    BY <1>3, <1>4 DEF WorkInv, TypeOK
  <2>2. files' \in [Locations -> Contents \cup {Absent}]
    BY <1>3, ContentsFacts DEF WorkInv, TypeOK
  <2>3. writer' \in [Locations -> Departments \cup {Absent}]
    BY <1>3 DEF WorkInv, TypeOK
  <2>4. raced' \subseteq Locations
    BY <1>1, MeetsFacts DEF WorkInv
  <2> QED
    BY <1>1, <1>9, <2>1, <2>2, <2>3, <2>4, CallsFacts DEF WorkInv, TypeOK
<1>6. ToldInv'
  <2>1. place[path] = f
    BY DEF f
  <2>2. \A e \in Departments : thread'[e] = IF e = d THEN new ELSE thread[e]
    BY <1>3 DEF WorkInv, TypeOK
  <2>3. \A g \in Locations : writer'[g] = IF g = f THEN d ELSE writer[g]
    BY <1>3 DEF WorkInv, TypeOK
  <2> QED
    BY <1>1, <1>9, <2>1, <2>2, <2>3, CallsFacts, ToldFrame
<1>7. ASSUME NEW g \in Locations \ raced' PROVE TextInv(g)'
  <2>1. /\ \A e \in Departments : thread'[e] = IF e = d THEN new ELSE thread[e]
        /\ files'[g] = IF g = f THEN <<>> ELSE files[g]
        /\ expected' = expected /\ TextInv(g) /\ thread[d].at = "idle"
    BY <1>1, <1>3, CallsFacts, MeetsFacts DEF WorkInv, TypeOK
  <2>2. CASE g # f
    <3>1. \A e \in Departments : Uses(e, g)' <=> Uses(e, g)
      BY <2>1, <2>2 DEF Uses
    <3>2. \A e \in Departments : Uses(e, g) => thread'[e] = thread[e]
      BY <2>1 DEF Uses
    <3> QED
      BY <2>1, <2>2, <3>1, <3>2, TextFrame
  <2>3. CASE g = f
    <3>1. \A e \in Departments : Uses(e, g)' <=> e = d
      BY <1>1, <2>1, <2>3, MeetsFacts DEF Uses, InUse, WorkInv
    <3> QED
      BY <2>1, <2>3, <3>1 DEF TextInv, InUse
  <2> QED
    BY <2>2, <2>3
<1>8. LinkInv'
  <2>1. \A e \in Departments : thread'[e] = IF e = d THEN new ELSE thread[e]
    BY <1>3 DEF WorkInv, TypeOK
  <2>2. \A g \in Locations : files'[g] = IF g = f THEN <<>> ELSE files[g]
    BY <1>3 DEF WorkInv, TypeOK
  <2>3. <<>> # Absent
    BY ContentsFacts
  <2> QED
    BY <1>1, <2>1, <2>2, <2>3, LinkFrame
<1> QED
  BY <1>5, <1>6, <1>7, <1>8, <1>9 DEF WorkInv

LEMMA ReadToEditInv ==
    ASSUME WorkInv, NEW d \in Departments, NEW path \in Paths, ReadToEdit(d, path)
    PROVE  WorkInv'
<1> DEFINE f == place[path]
           new == [at |-> "loaded", file |-> f, text |-> Replaced(files[f])]
<1>1. Calls(d, path) /\ f \in Locations /\ Meets(f)
  BY DEF ReadToEdit, WorkInv, TypeOK
<1>2. /\ thread' = [thread EXCEPT ![d] = new] /\ UNCHANGED <<files, writer>>
      /\ files[f] # Absent
  BY DEF ReadToEdit, HasWord
<1>3. new \in Threads
  <2>1. files[f] \in Contents
    BY <1>1, <1>2 DEF WorkInv, TypeOK
  <2> QED
    BY <1>1, <2>1, ReplacedType DEF Threads
<1>9. Locations' = Locations /\ Threads' = Threads /\ Ops' = Ops
  BY <1>2 DEF Locations, Threads, Ops
<1> HIDE DEF f
<1>4. TypeOK'
  <2>1. thread' \in [Departments -> Threads]
    BY <1>2, <1>3 DEF WorkInv, TypeOK
  <2>2. raced' \subseteq Locations
    BY <1>1, MeetsFacts DEF WorkInv
  <2> QED
    BY <1>1, <1>2, <1>9, <2>1, <2>2, CallsFacts DEF WorkInv, TypeOK
<1>5. ToldInv'
  <2>1. place[path] = f
    BY DEF f
  <2>2. \A e \in Departments : thread'[e] = IF e = d THEN new ELSE thread[e]
    BY <1>2 DEF WorkInv, TypeOK
  <2> QED
    BY <1>1, <1>2, <1>9, <2>1, <2>2, CallsFacts, ToldFrame
<1>6. ASSUME NEW g \in Locations \ raced' PROVE TextInv(g)'
  <2>1. /\ \A e \in Departments : thread'[e] = IF e = d THEN new ELSE thread[e]
        /\ files' = files /\ expected' = expected /\ TextInv(g) /\ thread[d].at = "idle"
    BY <1>1, <1>2, CallsFacts, MeetsFacts DEF WorkInv, TypeOK
  <2>2. CASE g # f
    <3>1. \A e \in Departments : Uses(e, g)' <=> Uses(e, g)
      BY <2>1, <2>2 DEF Uses
    <3>2. \A e \in Departments : Uses(e, g) => thread'[e] = thread[e]
      BY <2>1 DEF Uses
    <3> QED
      BY <2>1, <3>1, <3>2, TextFrame
  <2>3. CASE g = f
    <3>1. ~InUse(f)
      BY <1>1, <2>3, MeetsFacts DEF WorkInv
    <3>2. \A e \in Departments : Uses(e, g)' <=> e = d
      BY <2>1, <2>3, <3>1 DEF Uses, InUse
    <3> QED
      BY <1>2, <2>1, <2>3, <3>1, <3>2 DEF TextInv, InUse
  <2> QED
    BY <2>2, <2>3
<1>7. LinkInv'
  <2>1. \A e \in Departments : thread'[e] = IF e = d THEN new ELSE thread[e]
    BY <1>2 DEF WorkInv, TypeOK
  <2> QED
    BY <1>2, <2>1, LinkFrame
<1> QED
  BY <1>2, <1>4, <1>5, <1>6, <1>7, <1>9 DEF WorkInv

LEMMA OpenToEditInv ==
    ASSUME WorkInv, NEW d \in Departments, OpenToEdit(d)
    PROVE  WorkInv'
<1> DEFINE f == thread[d].file
           new == [at |-> "open", file |-> f, text |-> thread[d].text,
                   new |-> FALSE, linked |-> TRUE]
<1>1. /\ thread[d].at = "loaded" /\ f \in Locations /\ thread[d].text \in Contents
      /\ UNCHANGED <<root, links, place, dept, calls, ops, spoilt, told, clearing, clears,
                     expected, raced>>
  BY ThreadFacts DEF OpenToEdit, WorkInv
<1>2. /\ files' = [files EXCEPT ![f] = <<>>] /\ thread' = [thread EXCEPT ![d] = new]
      /\ writer' = [writer EXCEPT ![f] = d]
  BY DEF OpenToEdit, Truncated
<1>3. new \in Threads
  BY <1>1 DEF Threads
<1>8. Locations' = Locations /\ Threads' = Threads /\ Ops' = Ops
  BY <1>2 DEF Locations, Threads, Ops
<1> DEFINE text == thread[d].text
<1> HIDE DEF f, text
<1>4. TypeOK'
  <2>1. thread' \in [Departments -> Threads]
    BY <1>2, <1>3 DEF WorkInv, TypeOK
  <2>2. files' \in [Locations -> Contents \cup {Absent}]
    BY <1>2, ContentsFacts DEF WorkInv, TypeOK
  <2>3. writer' \in [Locations -> Departments \cup {Absent}]
    BY <1>2 DEF WorkInv, TypeOK
  <2> QED
    BY <1>1, <1>8, <2>1, <2>2, <2>3 DEF WorkInv, TypeOK
<1>5. ToldInv'
  <2>1. \/ dept[d] = "given_up"
        \/ dept[d] = "asked" /\ \E op \in ops[d] : op.file = f
    BY <1>1, BusyFacts DEF f
  <2>2. \A e \in Departments : thread'[e].at # "idle" => thread[e].at # "idle" /\ thread'[e].file = thread[e].file
    BY <1>1, <1>2 DEF WorkInv, TypeOK, f
  <2>3. \A g \in Locations : writer'[g] = IF g = f THEN d ELSE writer[g]
    BY <1>2 DEF WorkInv, TypeOK
  <2> QED
    BY <1>1, <1>8, <2>1, <2>2, <2>3, ToldFrame
<1>6. ASSUME NEW g \in Locations \ raced' PROVE TextInv(g)'
  <2>1. /\ \A e \in Departments : thread'[e] = IF e = d THEN new ELSE thread[e]
        /\ files'[g] = IF g = f THEN <<>> ELSE files[g]
        /\ TextInv(g) /\ thread[d].at # "idle" /\ new.at = "open" /\ thread[d].file = f
        /\ new.file = f
    BY <1>1, <1>2 DEF WorkInv, TypeOK, f
  <2>2. \A e \in Departments : Uses(e, g)' <=> Uses(e, g)
    BY <2>1 DEF Uses
  <2>3. CASE g # f
    <3>1. \A e \in Departments : Uses(e, g) => thread'[e] = thread[e]
      BY <2>1, <2>3 DEF Uses
    <3> QED
      BY <1>1, <2>1, <2>2, <2>3, <3>1, TextFrame
  <2>4. CASE g = f
    <3>1. \A e \in Departments : Uses(e, g) <=> e = d
      BY <2>1, <2>4 DEF TextInv, Uses
    <3>2. expected[g] # Absent /\ thread[d].text = Replaced(expected[g])
      BY <1>1, <2>1, <3>1 DEF TextInv
    <3>3. thread'[d] = new /\ new.text = thread[d].text /\ new.linked /\ ~new.new
      BY <2>1
    <3> QED
      BY <1>1, <2>1, <2>2, <2>4, <3>1, <3>2, <3>3 DEF TextInv, InUse
  <2> QED
    BY <2>3, <2>4
<1>7. LinkInv'
  <2>1. \A e \in Departments : thread'[e] = IF e = d THEN new ELSE thread[e]
    BY <1>2 DEF WorkInv, TypeOK
  <2>2. \A g \in Locations : files'[g] = IF g = f THEN <<>> ELSE files[g]
    BY <1>2 DEF WorkInv, TypeOK
  <2>3. <<>> # Absent /\ new.file = f
    BY ContentsFacts DEF f
  <2> QED
    BY <1>1, <2>1, <2>2, <2>3, LinkFrame
<1> QED
  BY <1>1, <1>4, <1>5, <1>6, <1>7, <1>8 DEF WorkInv

\* A call that ends: the thread is free, and nobody's file changes hands.
LEMMA EndFrame ==
    ASSUME WorkInv, NEW d \in Departments,
           thread' = [thread EXCEPT ![d] = Idle],
           UNCHANGED <<root, links, place, dept, calls, ops, spoilt, told, clearing, clears,
                       raced, writer>>,
           files' \in [Locations -> Contents \cup {Absent}],
           expected' \in [Locations -> Contents \cup {Absent}],
           Locations' = Locations, thread[d].at # "idle",
           \A g \in Locations : files[g] # Absent => files'[g] # Absent,
           \A g \in Locations : g # thread[d].file =>
               files'[g] = files[g] /\ expected'[g] = expected[g],
           \A g \in Locations \ raced : g = thread[d].file => files'[g] = expected'[g]
    PROVE  WorkInv'
<1> DEFINE f == thread[d].file
<1>2. Threads' = Threads /\ Ops' = Ops
  BY DEF Threads, Ops
<1>3. \A e \in Departments : thread'[e] = IF e = d THEN Idle ELSE thread[e]
  BY DEF WorkInv, TypeOK
<1>4. TypeOK'
  <2>1. thread' \in [Departments -> Threads]
    BY DEF WorkInv, TypeOK, Threads
  <2> QED
    BY <1>2, <2>1 DEF WorkInv, TypeOK
<1>5. Idle.at = "idle"
  BY DEF Idle
<1>6. ToldInv'
  BY <1>3, <1>5, ToldFrame
<1>7. ASSUME NEW g \in Locations \ raced PROVE TextInv(g)'
  <2>1. TextInv(g)
    BY DEF WorkInv
  <2>2. CASE g # f
    <3>1. \A e \in Departments : Uses(e, g)' <=> Uses(e, g)
      BY <1>3, <1>5, <2>2 DEF Uses
    <3>2. \A e \in Departments : Uses(e, g) => thread'[e] = thread[e]
      BY <1>3, <2>2 DEF Uses
    <3> QED
      BY <2>1, <2>2, <3>1, <3>2, TextFrame
  <2>3. CASE g = f
    <3>1. \A e \in Departments : ~Uses(e, g)'
      BY <1>3, <1>5, <2>1, <2>3 DEF TextInv, Uses
    <3>2. files'[g] = expected'[g]
      BY <2>3
    <3> QED
      BY <3>1, <3>2 DEF TextInv, InUse
  <2> QED
    BY <2>2, <2>3
<1>8. LinkInv'
  BY <1>3, <1>5, LinkFrame
<1> QED
  BY <1>4, <1>6, <1>7, <1>8 DEF WorkInv

LEMMA WritesInv ==
    ASSUME WorkInv, NEW d \in Departments, Writes(d)
    PROVE  WorkInv'
<1> DEFINE f == thread[d].file
           text == thread[d].text
           then == IF f \in raced \/ thread[d].new THEN text ELSE Replaced(expected[f])
           now == Over(files[f], text)
<1>1. /\ thread[d].at = "open" /\ f \in Locations /\ text \in Contents
  BY ThreadFacts DEF Writes, WorkInv
<1>2. /\ files' = IF thread[d].linked THEN [files EXCEPT ![f] = now] ELSE files
      /\ expected' = [expected EXCEPT ![f] = then]
      /\ thread' = [thread EXCEPT ![d] = Idle]
      /\ UNCHANGED <<root, links, place, dept, calls, ops, spoilt, told, clearing, clears,
                       raced, writer>>
  BY DEF Writes
<1>3. f \notin raced => /\ files[f] = <<>> /\ thread[d].linked
                        /\ ~thread[d].new => expected[f] # Absent /\ text = Replaced(expected[f])
  BY <1>1 DEF WorkInv, TextInv, Uses
<1>4. then \in Contents
  BY <1>1, <1>3
<1> HIDE DEF f, text, then, now
<1>5. expected' \in [Locations -> Contents \cup {Absent}]
  BY <1>2, <1>4 DEF WorkInv, TypeOK
<1>6. files' \in [Locations -> Contents \cup {Absent}]
  <2>1. thread[d].linked => now \in Contents
    BY <1>1, OverFacts DEF now, f, WorkInv, TypeOK, LinkInv
  <2> QED
    BY <1>1, <1>2, <2>1, ContentsFacts DEF WorkInv, TypeOK
<1>7. \A g \in Locations : g # f => files'[g] = files[g] /\ expected'[g] = expected[g]
  BY <1>2 DEF WorkInv, TypeOK
<1>8. f \notin raced => files'[f] = expected'[f]
  <2> SUFFICES ASSUME f \notin raced PROVE files'[f] = expected'[f]
    OBVIOUS
  <2>1. then = text
    BY <1>3 DEF then
  <2>2. now = text
    BY <1>1, <1>3, OverFacts DEF now
  <2> QED
    BY <1>1, <1>2, <1>3, <2>1, <2>2 DEF WorkInv, TypeOK
<1>9. thread[d].linked => now \in Contents /\ Absent \notin Contents
  BY <1>1, OverFacts, ContentsFacts DEF now, f, WorkInv, TypeOK, LinkInv
<1>10. /\ thread[d].at # "idle"
       /\ \A g \in Locations : files[g] # Absent => files'[g] # Absent
       /\ \A g \in Locations : g # thread[d].file =>
             files'[g] = files[g] /\ expected'[g] = expected[g]
       /\ \A g \in Locations \ raced : g = thread[d].file => files'[g] = expected'[g]
  BY <1>1, <1>2, <1>7, <1>8, <1>9 DEF f, WorkInv, TypeOK
<1>11. /\ thread' = [thread EXCEPT ![d] = Idle]
       /\ UNCHANGED <<root, links, place, dept, calls, ops, spoilt, told, clearing, clears,
                       raced, writer>>
  BY <1>2
<1>12. Locations' = Locations
  BY <1>2 DEF Locations
<1> QED
  BY <1>5, <1>6, <1>10, <1>11, <1>12, EndFrame

LEMMA WriteFailsInv ==
    ASSUME WorkInv, NEW d \in Departments, WriteFails(d)
    PROVE  WorkInv'
<1> DEFINE f == thread[d].file
<1>1. /\ thread[d].at = "open" /\ f \in Locations
  BY ThreadFacts DEF WriteFails, WorkInv
<1>2. /\ thread' = [thread EXCEPT ![d] = Idle]
      /\ expected' = [expected EXCEPT ![f] = <<>>] /\ files' = files
      /\ UNCHANGED <<root, links, place, dept, calls, ops, spoilt, told, clearing, clears,
                       raced, writer>>
  BY DEF WriteFails
<1>3. f \notin raced => files[f] = <<>>
  BY <1>1 DEF WorkInv, TextInv, Uses
<1> HIDE DEF f
<1>4. expected' \in [Locations -> Contents \cup {Absent}]
  BY <1>2, ContentsFacts DEF WorkInv, TypeOK
<1>5. files' \in [Locations -> Contents \cup {Absent}]
  BY <1>2 DEF WorkInv, TypeOK
<1>6. /\ \A g \in Locations : g # f => files'[g] = files[g] /\ expected'[g] = expected[g]
      /\ expected'[f] = <<>>
  BY <1>1, <1>2 DEF WorkInv, TypeOK
<1>7. /\ thread[d].at # "idle"
      /\ \A g \in Locations : files[g] # Absent => files'[g] # Absent
      /\ \A g \in Locations : g # thread[d].file =>
            files'[g] = files[g] /\ expected'[g] = expected[g]
      /\ \A g \in Locations \ raced : g = thread[d].file => files'[g] = expected'[g]
  BY <1>1, <1>2, <1>3, <1>6 DEF f
<1>8. Locations' = Locations
  BY <1>2 DEF Locations
<1> QED
  BY <1>2, <1>4, <1>5, <1>7, <1>8, EndFrame

-----------------------------------------------------------------------------
(* The user's clear                                                        *)

LEMMA StartClearInv == ASSUME WorkInv, StartClear PROVE WorkInv'
<1>1. /\ UNCHANGED <<root, links, place, files, dept, thread, calls, ops, spoilt, told,
                     expected, raced, writer>>
      /\ clearing' \subseteq Locations \cup DOMAIN links /\ clears' \in 0 .. MaxClears
  BY WorkspaceAssumption DEF StartClear, WorkInv, TypeOK
<1>2. /\ Locations' = Locations /\ Threads' = Threads
      /\ LinkInv' /\ \A f \in Locations' \ raced' : TextInv(f)'
  BY <1>1, QuietFrame
<1>3. TypeOK'
  <2>1. Ops' = Ops
    BY <1>2 DEF Ops
  <2> QED
    BY <1>1, <1>2, <2>1 DEF WorkInv, TypeOK
<1>4. ToldInv'
  BY <1>1, <1>2, ToldFrame
<1> QED
  BY <1>2, <1>3, <1>4 DEF WorkInv

\* With a link gone, what was told is not said to lead anywhere.
LEMMA UnlinkLinkInv ==
    ASSUME WorkInv, LinksInv, LinksInv', NEW at, UnlinkLink(at)
    PROVE  WorkInv'
<1>1. /\ at \in DOMAIN links /\ clearing' = clearing \ {at}
      /\ links' = Remaining(DOMAIN links \ {at})
      /\ UNCHANGED <<root, files, dept, thread, calls, ops, spoilt, told, clears, expected,
                     raced, writer>>
  BY DEF UnlinkLink
<1>2. /\ Locations' = Locations /\ Threads' = Threads
      /\ LinkInv' /\ \A f \in Locations' \ raced' : TextInv(f)'
  BY <1>1, QuietFrame
<1>3. at \in DOMAIN Links /\ at \notin DOMAIN links'
  BY <1>1 DEF Remaining, WorkInv, TypeOK
<1>4. /\ DOMAIN links' \subseteq DOMAIN Links /\ links' = Remaining(DOMAIN links')
      /\ DOMAIN place' = Paths /\ \A p \in Paths : place'[p] \in Locations \cup {Denied}
  <2>1. DOMAIN links' = DOMAIN links \ {at}
    BY <1>1 DEF Remaining
  <2>2. /\ \A p \in Paths : WritePath(links', p, root') \in Locations' \cup {Denied}
        /\ place' = [p \in Paths |-> WritePath(links', p, root')]
    <3>1. PICK left \in SUBSET DOMAIN Links :
              /\ links' = Remaining(left)
              /\ \A t \in DOMAIN Links \ left : TopLevel(root', t)
      BY DEF LinksInv, TopLevel
    <3>2. /\ Locations' = Reachable(root')
          /\ place' = [p \in Paths |-> WritePath(links', p, root')]
      BY DEF LinksInv, Reachable, TopLevel
    <3> QED
      BY <3>1, <3>2, ReachableFacts
  <2> QED
    BY <1>1, <1>2, <2>1, <2>2 DEF WorkInv, TypeOK
<1>5. TypeOK'
  <2>1. Ops' = Ops
    BY <1>2 DEF Ops
  <2>2. clearing' \subseteq Locations \cup DOMAIN links'
    BY <1>1 DEF Remaining, WorkInv, TypeOK
  <2> QED
    BY <1>1, <1>2, <1>4, <2>1, <2>2 DEF WorkInv, TypeOK
<1>6. ToldInv'
  <2>1. links' # Links
    BY <1>3
  <2> QED
    BY <1>1, <1>2, <2>1 DEF WorkInv, ToldInv, Leads
<1> QED
  BY <1>2, <1>5, <1>6 DEF WorkInv

LEMMA UnlinkInv ==
    ASSUME WorkInv, NEW f \in Locations, Unlink(f)
    PROVE  WorkInv'
<1> DEFINE cut(e) == IF Uses(e, f) /\ thread[e].at = "open"
                     THEN [thread[e] EXCEPT !.linked = FALSE] ELSE thread[e]
<1>1. /\ f \in clearing /\ clearing' = clearing \ {f}
      /\ files' = [files EXCEPT ![f] = Absent]
      /\ thread' = [e \in Departments |-> cut(e)]
      /\ expected' = [expected EXCEPT ![f] = Absent]
      /\ writer' = [writer EXCEPT ![f] = Absent]
      /\ Meets(f)
      /\ UNCHANGED <<root, links, place, dept, calls, ops, spoilt, told, clears>>
      /\ Locations' = Locations
  BY DEF Unlink, Locations
<1>2. ASSUME NEW e \in Departments
      PROVE  /\ cut(e) \in Threads /\ cut(e).at = thread[e].at
             /\ thread[e].at # "idle" => cut(e).file = thread[e].file
             /\ ~Uses(e, f) => cut(e) = thread[e]
  <2>1. thread[e] \in Threads
    BY DEF WorkInv, TypeOK
  <2> QED
    BY <2>1 DEF Threads, Idle
<1>3. \A e \in Departments : thread'[e] = cut(e)
  BY <1>1
<1> HIDE DEF cut
<1>4. TypeOK'
  <2>1. Threads' = Threads /\ Ops' = Ops
    BY <1>1 DEF Threads, Ops
  <2>2. thread' \in [Departments -> Threads]
    BY <1>1, <1>2
  <2>3. /\ files' \in [Locations -> Contents \cup {Absent}]
        /\ expected' \in [Locations -> Contents \cup {Absent}]
    BY <1>1 DEF WorkInv, TypeOK
  <2>4. writer' \in [Locations -> Departments \cup {Absent}]
    BY <1>1 DEF WorkInv, TypeOK
  <2>5. raced' \subseteq Locations
    BY <1>1, MeetsFacts DEF WorkInv
  <2> QED
    BY <1>1, <2>1, <2>2, <2>3, <2>4, <2>5 DEF WorkInv, TypeOK
<1>5. ToldInv'
  <2>1. \A e \in Departments : thread'[e].at # "idle" => thread[e].at # "idle" /\ thread'[e].file = thread[e].file
    BY <1>2, <1>3
  <2>2. \A g \in Locations : \A e \in Departments : writer'[g] = e => writer[g] = e
    BY <1>1, WorkspaceAssumption DEF WorkInv, TypeOK
  <2> QED
    BY <1>1, <2>1, <2>2, ToldFrame
<1>6. ASSUME NEW g \in Locations \ raced' PROVE TextInv(g)'
  <2>1. TextInv(g)
    BY <1>1, MeetsFacts DEF WorkInv
  <2>2. \A e \in Departments : Uses(e, g)' <=> Uses(e, g)
    BY <1>2, <1>3 DEF Uses
  <2>3. CASE g # f
    <3>1. files'[g] = files[g] /\ expected'[g] = expected[g]
      BY <1>1, <2>3 DEF WorkInv, TypeOK
    <3>2. \A e \in Departments : Uses(e, g) => thread'[e] = thread[e]
      BY <1>2, <1>3, <2>3 DEF Uses
    <3> QED
      BY <2>1, <2>2, <3>1, <3>2, TextFrame
  <2>4. CASE g = f
    <3>1. \A e \in Departments : ~Uses(e, g)'
      BY <1>1, <2>2, <2>4, MeetsFacts DEF InUse, WorkInv
    <3>2. files'[g] = expected'[g]
      BY <1>1, <2>4 DEF WorkInv, TypeOK
    <3> QED
      BY <3>1, <3>2 DEF TextInv, InUse
  <2> QED
    BY <2>3, <2>4
<1>7. LinkInv'
  <2> SUFFICES ASSUME NEW e \in Departments, thread'[e].at = "open", thread'[e].linked
               PROVE  files'[thread'[e].file] # Absent
    BY DEF LinkInv
  <2>1. thread[e] \in Threads /\ thread'[e] = cut(e)
    BY <1>3 DEF WorkInv, TypeOK
  <2>2. thread[e].at = "open" /\ thread[e].file # f /\ thread'[e] = thread[e]
    BY <2>1 DEF Threads, cut, Uses, Idle
  <2>3. thread[e].file \in Locations /\ files[thread[e].file] # Absent
    BY <2>2, ThreadFacts DEF WorkInv, LinkInv
  <2> QED
    BY <1>1, <2>2, <2>3 DEF WorkInv, TypeOK
<1> QED
  BY <1>1, <1>4, <1>5, <1>6, <1>7 DEF WorkInv

LEMMA QuietInv == ASSUME WorkInv, UNCHANGED vars PROVE WorkInv'
<1>1. /\ Locations' = Locations /\ Threads' = Threads
      /\ LinkInv' /\ \A f \in Locations' \ raced' : TextInv(f)'
  BY QuietFrame DEF vars
<1>2. TypeOK'
  <2>1. Ops' = Ops
    BY <1>1 DEF Ops
  <2> QED
    BY <1>1, <2>1 DEF WorkInv, TypeOK, vars
<1>3. ToldInv'
  BY <1>1, ToldFrame DEF vars
<1> QED
  BY <1>1, <1>2, <1>3 DEF WorkInv

-----------------------------------------------------------------------------
(* The theorems                                                            *)

\* Nothing moves the root, and only a clear takes links away.
LEMMA LinksStep == LinksInv /\ [Next]_vars => LinksInv'
<1> SUFFICES ASSUME LinksInv, [Next]_vars PROVE LinksInv'
  OBVIOUS
<1>1. ASSUME UNCHANGED <<root, links, place, clearing>>, Locations' = Locations
      PROVE  LinksInv'
  BY <1>1 DEF LinksInv, Reachable
<1>2. CASE \/ \E asked \in SUBSET Departments : StartTurn(asked)
           \/ \E d \in Departments : Answers(d) \/ Fails(d) \/ GivenUp(d)
           \/ Fold \/ FoldRaises
  <2>1. UNCHANGED <<root, links, place, clearing, files>>
    BY <1>2 DEF StartTurn, Answers, Fails, GivenUp, Forgotten, Fold, FoldRaises, Settles
  <2> QED
    BY <1>1, <2>1 DEF Locations
<1>3. ASSUME NEW d \in Departments, FileCall(d)
      PROVE  LinksInv'
  <2>1. UNCHANGED <<root, links, place, clearing>>
    BY <1>3 DEF FileCall, ToolRefuses, OpenToWrite, ReadToEdit, Calls, SchemaRefuses,
       OpenToEdit, Writes, WriteFails
  <2>2. Locations' = Locations
    BY <1>3 DEF FileCall, ToolRefuses, OpenToWrite, ReadToEdit, SchemaRefuses, OpenToEdit,
       Truncated, Writes, WriteFails, Locations
  <2> QED
    BY <1>1, <2>1, <2>2
<1>4. CASE StartClear
  <2>1. /\ UNCHANGED <<root, links, place, files>>
        /\ \A at \in clearing' : TopLevel(root, at)
    BY <1>4 DEF StartClear
  <2>2. Locations' = Locations
    BY <2>1 DEF Locations
  <2> QED
    BY <2>1, <2>2 DEF LinksInv, Reachable, TopLevel
<1>5. ASSUME NEW at \in clearing, UnlinkLink(at)
      PROVE  LinksInv'
  <2>1. /\ clearing' = clearing \ {at} /\ links' = Remaining(DOMAIN links \ {at})
        /\ place' = [p \in Paths |-> WritePath(links', p, root)]
        /\ root' = root /\ Locations' = Locations
    BY <1>5 DEF UnlinkLink, Locations
  <2>2. PICK left \in SUBSET DOMAIN Links :
            links = Remaining(left) /\ \A t \in DOMAIN Links \ left : TopLevel(root, t)
    BY DEF LinksInv
  <2> DEFINE less == left \ {at}
  <2>3. DOMAIN links = left
    BY <2>2 DEF Remaining
  <2>4. /\ less \in SUBSET DOMAIN Links /\ links' = Remaining(less)
        /\ \A t \in DOMAIN Links \ less : TopLevel(root, t)
    BY <2>1, <2>2, <2>3 DEF LinksInv
  <2> HIDE DEF less
  <2> QED
    BY <2>1, <2>4 DEF LinksInv, Reachable, TopLevel
<1>6. ASSUME NEW g \in clearing, Unlink(g)
      PROVE  LinksInv'
  <2>1. UNCHANGED <<root, links, place>> /\ clearing' \subseteq clearing
    BY <1>6 DEF Unlink
  <2>2. Locations' = Locations
    BY <1>6 DEF Unlink, Locations
  <2> QED
    BY <2>1, <2>2 DEF LinksInv, Reachable, TopLevel
<1>7. CASE Done \/ UNCHANGED vars
  BY <1>1, <1>7 DEF Done, vars, Locations
<1> QED
  BY <1>2, <1>3, <1>4, <1>5, <1>6, <1>7 DEF Next

LEMMA StepInv == WorkInv /\ LinksInv /\ LinksInv' /\ [Next]_vars => WorkInv'
<1> SUFFICES ASSUME WorkInv, LinksInv, LinksInv', [Next]_vars PROVE WorkInv'
  OBVIOUS
<1>1. CASE \/ \E asked \in SUBSET Departments : StartTurn(asked)
           \/ \E d \in Departments : Answers(d) \/ Fails(d) \/ GivenUp(d)
           \/ Fold \/ FoldRaises
  BY <1>1, StartTurnInv, AnswersInv, ForgottenInv, FoldInv
<1>2. ASSUME NEW d \in Departments, FileCall(d) PROVE WorkInv'
  BY <1>2, ToolRefusesInv, OpenToWriteInv, ReadToEditInv, SchemaRefusesInv, OpenToEditInv,
     WritesInv, WriteFailsInv DEF FileCall
<1>3. CASE StartClear
  BY <1>3, StartClearInv
<1>4. ASSUME NEW at \in clearing, UnlinkLink(at) \/ Unlink(at) PROVE WorkInv'
  <2>1. CASE UnlinkLink(at)
    BY <2>1, UnlinkLinkInv
  <2>2. CASE Unlink(at)
    <3>1. at \in Locations
      BY <2>2 DEF Unlink, WorkInv, TypeOK
    <3> QED
      BY <2>2, <3>1, UnlinkInv
  <2> QED
    BY <1>4, <2>1, <2>2
<1>5. CASE Done \/ UNCHANGED vars
  BY <1>5, QuietInv DEF Done
<1> QED
  BY <1>1, <1>2, <1>3, <1>4, <1>5 DEF Next

\* Threads, files, paths told and the history of each file keep their types and
\* their relations, whatever turns, deadlines and clears come between the steps of
\* a file call (tools.py:108-140, graph.py:102-112).
THEOREM WorkspaceInvariant == Spec => []WorkInv
<1>1. Spec => []LinksInv
  BY InitLinks, LinksStep, PTL DEF Spec
<1> QED
  BY <1>1, InitInv, StepInv, PTL DEF Spec

\* In particular texts stay texts: writing over the start of a file that another
\* call has filled never makes it longer than what was given to write.
THEOREM WorkspaceTypeCorrect == Spec => []TypeOK
<1>1. WorkInv => TypeOK
  BY DEF WorkInv
<1> QED
  BY <1>1, WorkspaceInvariant, PTL

\* A file no two calls, and no call and clear, had open together holds what its
\* calls would have left one after another (tools.py:108-140).
THEOREM TextsAreSerial == Spec => []SerialText
<1>1. WorkInv => SerialText
  BY DEF WorkInv, TextInv, SerialText
<1> QED
  BY <1>1, WorkspaceInvariant, PTL

\* Who changed a file last told the parent of a call that led to it, if what it
\* answered was folded (subagents.py:336-345, graph.py:102-119).
THEOREM ParentHearsOfChanges == Spec => []ChangesAreTold
<1>1. WorkInv => ChangesAreTold
  BY DEF WorkInv, ToldInv, Leads, ChangesAreTold
<1> QED
  BY <1>1, WorkspaceInvariant, PTL

-----------------------------------------------------------------------------
(* Names of files                                                          *)

\* What Resolve has reached after n names.
ResolvedStep(l, location, g, n) ==
    IF n = 0 THEN <<>>
    ELSE IF location[n] # Up THEN Follow(l, Append(g[n - 1], location[n]))
    ELSE IF g[n - 1] = <<>> THEN <<>>
    ELSE Front(g[n - 1])

IsResolved(l, location, g, m) == g = [n \in 0 .. m |-> ResolvedStep(l, location, g, n)]

\* Some of the links there were at first
Part(l) == DOMAIN l \subseteq DOMAIN Links /\ \A at \in DOMAIN l : l[at] = Links[at]

\* The recursion of Resolve has a solution for every location.
LEMMA ResolvedExists ==
    ASSUME NEW l, NEW location, NEW m \in Nat
    PROVE  \E g : IsResolved(l, location, g, m)
<1> DEFINE P == {n \in Nat : \E g : IsResolved(l, location, g, n)}
<1>1. 0 \in P
  <2>1. IsResolved(l, location, [n \in 0 .. 0 |-> <<>>], 0)
    BY DEF IsResolved, ResolvedStep
  <2> QED
    BY <2>1
<1>2. ASSUME NEW n \in P PROVE n + 1 \in P
  <2>1. PICK g : IsResolved(l, location, g, n)
    OBVIOUS
  <2> DEFINE h == [i \in 0 .. n + 1 |-> ResolvedStep(l, location, g, i)]
  <2>2. ASSUME NEW i \in 0 .. n + 1
        PROVE  ResolvedStep(l, location, g, i) = ResolvedStep(l, location, h, i)
    <3>1. CASE i = 0
      BY <3>1 DEF ResolvedStep
    <3>2. CASE i # 0
      <4>1. i - 1 \in 0 .. n /\ i - 1 \in 0 .. n + 1
        BY <3>2
      <4>2. g[i - 1] = ResolvedStep(l, location, g, i - 1)
        BY <2>1, <4>1 DEF IsResolved
      <4>3. h[i - 1] = ResolvedStep(l, location, g, i - 1)
        BY <4>1
      <4> HIDE DEF h
      <4> QED
        BY <3>2, <4>2, <4>3 DEF ResolvedStep
    <3> QED
      BY <3>1, <3>2
  <2>3. IsResolved(l, location, h, n + 1)
    BY <2>2 DEF IsResolved
  <2> HIDE DEF h
  <2>4. \E k : IsResolved(l, location, k, n + 1)
    BY <2>3
  <2> QED
    BY <2>4
<1>3. P = Nat
  BY <1>1, <1>2, InductiveSet
<1> QED
  BY <1>3

\* Resolve goes through a location name by name.
LEMMA ResolveWalk ==
    ASSUME NEW l, NEW location, Len(location) \in Nat
    PROVE  \E g : /\ g[0] = <<>>
                  /\ \A n \in 1 .. Len(location) : g[n] = ResolvedStep(l, location, g, n)
                  /\ Resolve(l, location) = g[Len(location)]
<1> DEFINE real == CHOOSE g : IsResolved(l, location, g, Len(location))
<1>1. IsResolved(l, location, real, Len(location))
  BY ResolvedExists
<1>2. Resolve(l, location) = real[Len(location)]
  BY DEF Resolve, IsResolved, ResolvedStep
<1> HIDE DEF real
<1>3. \A n \in 0 .. Len(location) : real[n] = ResolvedStep(l, location, real, n)
  BY <1>1 DEF IsResolved
<1>4. real[0] = <<>>
  BY <1>3 DEF ResolvedStep
<1> QED
  BY <1>2, <1>3, <1>4

\* A beginning of a place without links has none.
LEMMA RealPrefix ==
    ASSUME NEW l, NEW T, NEW at \in Seq(T), Real(l, at), NEW k \in 0 .. Len(at)
    PROVE  /\ SubSeq(at, 1, k) \in Seq(T) /\ Len(SubSeq(at, 1, k)) = k
           /\ Real(l, SubSeq(at, 1, k))
<1> DEFINE s == SubSeq(at, 1, k)
<1>1. s \in Seq(T) /\ Len(s) = k /\ \A i \in 1 .. k : s[i] = at[i]
  BY SubSeqProperties
<1> HIDE DEF s
<1>2. ASSUME NEW n \in 1 .. k PROVE SubSeq(s, 1, n) = SubSeq(at, 1, n)
  <2>1. /\ SubSeq(s, 1, n) \in Seq(T) /\ Len(SubSeq(s, 1, n)) = n
        /\ \A i \in 1 .. n : SubSeq(s, 1, n)[i] = s[i]
    BY <1>1, SubSeqProperties
  <2>2. /\ SubSeq(at, 1, n) \in Seq(T) /\ Len(SubSeq(at, 1, n)) = n
        /\ \A i \in 1 .. n : SubSeq(at, 1, n)[i] = at[i]
    BY SubSeqProperties
  <2>3. \A i \in 1 .. n : SubSeq(s, 1, n)[i] = SubSeq(at, 1, n)[i]
    BY <1>1, <2>1, <2>2
  <2> QED
    BY <2>1, <2>2, <2>3, SeqEqual
<1>3. ASSUME NEW n \in DOMAIN s PROVE s[n] # Up /\ SubSeq(s, 1, n) \notin DOMAIN l
  <2>1. n \in 1 .. k /\ n \in DOMAIN at
    BY <1>1
  <2> QED
    BY <1>1, <1>2, <2>1 DEF Real
<1>4. Real(l, s)
  BY <1>3 DEF Real
<1> QED
  BY <1>1, <1>4 DEF s

\* One name more, followed if it is a link, leads from a place without links to one.
LEMMA FollowReal ==
    ASSUME NEW l, Part(l), NEW T, STRING \subseteq T, NEW at \in Seq(T), Real(l, at),
           NEW name \in T, name # Up
    PROVE  Follow(l, Append(at, name)) \in Seq(T) /\ Real(l, Follow(l, Append(at, name)))
<1> DEFINE s == Append(at, name)
<1>1. /\ s \in Seq(T) /\ Len(s) = Len(at) + 1 /\ s[Len(at) + 1] = name
      /\ \A i \in 1 .. Len(at) : s[i] = at[i]
  BY AppendProperties
<1>2. SubSeq(s, 1, Len(s)) = s
  BY <1>1, SubSeqProperties, SeqEqual
<1>3. ASSUME NEW n \in 1 .. Len(at) PROVE SubSeq(s, 1, n) = SubSeq(at, 1, n)
  <2> HIDE DEF s
  <2>1. /\ SubSeq(s, 1, n) \in Seq(T) /\ Len(SubSeq(s, 1, n)) = n
        /\ \A i \in 1 .. n : SubSeq(s, 1, n)[i] = s[i]
    BY <1>1, SubSeqProperties
  <2>2. /\ SubSeq(at, 1, n) \in Seq(T) /\ Len(SubSeq(at, 1, n)) = n
        /\ \A i \in 1 .. n : SubSeq(at, 1, n)[i] = at[i]
    BY SubSeqProperties
  <2>3. \A i \in 1 .. n : SubSeq(s, 1, n)[i] = SubSeq(at, 1, n)[i]
    BY <1>1, <2>1, <2>2
  <2> QED
    BY <2>1, <2>2, <2>3, SeqEqual
<1>4. CASE s \in DOMAIN l
  <2>1. l[s] \in Seq(STRING) /\ Real(l, l[s])
    <3>1. l[s] = Links[s] /\ s \in DOMAIN Links
      BY <1>4 DEF Part
    <3>2. Links[s] \in Seq(STRING) /\ Real(Links, Links[s])
      BY <3>1, GuardrailsAssumption
    <3> QED
      BY <3>1, <3>2 DEF Real, Part
  <2>2. l[s] \in Seq(T)
    BY <2>1, SeqMonotonic
  <2> QED
    BY <1>4, <2>1, <2>2 DEF Follow
<1>5. CASE s \notin DOMAIN l
  <2> HIDE DEF s
  <2>1. ASSUME NEW n \in DOMAIN s PROVE s[n] # Up /\ SubSeq(s, 1, n) \notin DOMAIN l
    <3>1. CASE n = Len(at) + 1
      BY <1>1, <1>2, <1>5, <3>1
    <3>2. CASE n # Len(at) + 1
      <4>1. n \in 1 .. Len(at) /\ n \in DOMAIN at
        BY <1>1, <3>2
      <4> QED
        BY <1>1, <1>3, <4>1 DEF Real
    <3> QED
      BY <3>1, <3>2
  <2>2. Real(l, s) /\ Follow(l, s) = s
    BY <1>5, <2>1 DEF Real, Follow
  <2> QED
    BY <1>1, <2>2 DEF s
<1> QED
  BY <1>4, <1>5

\* Path.resolve returns a place without links, whatever it is given.
LEMMA ResolveIsReal ==
    ASSUME NEW l, Part(l), NEW T, STRING \subseteq T, NEW location \in Seq(T)
    PROVE  Resolve(l, location) \in Seq(T) /\ Real(l, Resolve(l, location))
<1>1. Len(location) \in Nat
  OBVIOUS
<1>2. PICK g : /\ g[0] = <<>>
               /\ \A n \in 1 .. Len(location) : g[n] = ResolvedStep(l, location, g, n)
               /\ Resolve(l, location) = g[Len(location)]
  BY <1>1, ResolveWalk
<1> DEFINE Good(s) == s \in Seq(T) /\ Real(l, s)
           P == {n \in Nat : n <= Len(location) => Good(g[n])}
<1>3. Good(<<>>)
  BY DEF Real
<1>4. 0 \in P
  BY <1>2, <1>3
<1>5. ASSUME NEW n \in P PROVE n + 1 \in P
  <2>1. SUFFICES ASSUME n + 1 <= Len(location) PROVE Good(g[n + 1])
    OBVIOUS
  <2>2. /\ n \in Nat /\ n + 1 \in 1 .. Len(location) /\ n + 1 # 0 /\ (n + 1) - 1 = n
        /\ g[n] \in Seq(T) /\ Real(l, g[n]) /\ location[n + 1] \in T
    BY <1>1, <2>1
  <2>3. g[n + 1] = ResolvedStep(l, location, g, n + 1)
    BY <1>2, <2>2
  <2>4. CASE location[n + 1] # Up
    <3>1. g[n + 1] = Follow(l, Append(g[n], location[n + 1]))
      BY <2>2, <2>3, <2>4 DEF ResolvedStep
    <3> QED
      BY <2>2, <2>4, <3>1, FollowReal
  <2>5. CASE location[n + 1] = Up /\ g[n] = <<>>
    BY <1>3, <2>2, <2>3, <2>5 DEF ResolvedStep
  <2>6. CASE location[n + 1] = Up /\ g[n] # <<>>
    <3>1. g[n + 1] = SubSeq(g[n], 1, Len(g[n]) - 1)
      BY <2>2, <2>3, <2>6 DEF ResolvedStep, Front
    <3>2. Len(g[n]) - 1 \in 0 .. Len(g[n])
      BY <2>2, <2>6
    <3> QED
      BY <2>2, <3>1, <3>2, RealPrefix
  <2> QED
    BY <2>4, <2>5, <2>6
<1>6. P = Nat
  BY <1>4, <1>5, InductiveSet
<1>7. Good(g[Len(location)])
  BY <1>1, <1>6
<1> QED
  BY <1>2, <1>7

\* A place without links is where its path leads.
LEMMA ResolveOfReal ==
    ASSUME NEW l, NEW T, NEW at \in Seq(T), Real(l, at)
    PROVE  Resolve(l, at) = at
<1>1. Len(at) \in Nat
  OBVIOUS
<1>2. PICK g : /\ g[0] = <<>>
               /\ \A n \in 1 .. Len(at) : g[n] = ResolvedStep(l, at, g, n)
               /\ Resolve(l, at) = g[Len(at)]
  BY <1>1, ResolveWalk
<1> DEFINE P == {n \in Nat : n <= Len(at) => g[n] = SubSeq(at, 1, n)}
<1>3. 0 \in P
  <2>1. SubSeq(at, 1, 0) = <<>>
    BY SubSeqEmpty
  <2> QED
    BY <1>2, <2>1
<1>4. ASSUME NEW n \in P PROVE n + 1 \in P
  <2>1. SUFFICES ASSUME n + 1 <= Len(at) PROVE g[n + 1] = SubSeq(at, 1, n + 1)
    OBVIOUS
  <2>2. /\ n \in Nat /\ n + 1 \in 1 .. Len(at) /\ n + 1 # 0 /\ (n + 1) - 1 = n
        /\ g[n] = SubSeq(at, 1, n) /\ n + 1 \in DOMAIN at
    BY <1>1, <2>1
  <2>3. at[n + 1] # Up /\ SubSeq(at, 1, n + 1) \notin DOMAIN l
    BY <2>2 DEF Real
  <2>4. Append(SubSeq(at, 1, n), at[n + 1]) = SubSeq(at, 1, n + 1)
    <3>1. /\ SubSeq(at, 1, n) \in Seq(T) /\ Len(SubSeq(at, 1, n)) = n
          /\ \A i \in 1 .. n : SubSeq(at, 1, n)[i] = at[i]
      BY <2>2, SubSeqProperties
    <3>2. /\ SubSeq(at, 1, n + 1) \in Seq(T) /\ Len(SubSeq(at, 1, n + 1)) = n + 1
          /\ \A i \in 1 .. n + 1 : SubSeq(at, 1, n + 1)[i] = at[i]
      BY <2>2, SubSeqProperties
    <3> DEFINE s == Append(SubSeq(at, 1, n), at[n + 1])
    <3>3. at[n + 1] \in T
      BY <2>2
    <3>4. /\ s \in Seq(T) /\ Len(s) = n + 1 /\ s[n + 1] = at[n + 1]
          /\ \A i \in 1 .. n : s[i] = SubSeq(at, 1, n)[i]
      BY <3>1, <3>3, AppendProperties
    <3> HIDE DEF s
    <3>5. ASSUME NEW i \in 1 .. n + 1 PROVE s[i] = SubSeq(at, 1, n + 1)[i]
      <4>1. SubSeq(at, 1, n + 1)[i] = at[i]
        BY <3>2
      <4>2. CASE i = n + 1
        BY <3>4, <4>1, <4>2
      <4>3. CASE i # n + 1
        <5>1. i \in 1 .. n
          BY <2>2, <4>3
        <5> QED
          BY <3>1, <3>4, <4>1, <5>1
      <4> QED
        BY <4>2, <4>3
    <3>6. s = SubSeq(at, 1, n + 1)
      BY <3>2, <3>4, <3>5, SeqEqual
    <3> QED
      BY <3>6 DEF s
  <2>5. g[n + 1] = Follow(l, Append(g[n], at[n + 1]))
    BY <1>2, <2>2, <2>3 DEF ResolvedStep
  <2> QED
    BY <2>2, <2>3, <2>4, <2>5 DEF Follow
<1>5. P = Nat
  BY <1>3, <1>4, InductiveSet
<1>6. Resolve(l, at) = SubSeq(at, 1, Len(at))
  BY <1>1, <1>2, <1>5
<1>7. SubSeq(at, 1, Len(at)) = at
  BY SubSeqProperties, SeqEqual
<1> QED
  BY <1>6, <1>7

\* A list of names that begins with another.
LEMMA PrefixFacts ==
    ASSUME NEW T, NEW s \in Seq(T), NEW t \in Seq(T)
    PROVE  IsPrefix(s, t) <=> Len(s) <= Len(t) /\ \A i \in 1 .. Len(s) : s[i] = t[i]
<1>1. Len(s) \in Nat /\ Len(t) \in Nat
  OBVIOUS
<1>2. SubSeq(s, 1, Len(s)) = s
  BY SubSeqProperties, SeqEqual
<1>3. ASSUME Len(s) <= Len(t)
      PROVE  /\ SubSeq(t, 1, Len(s)) \in Seq(T) /\ Len(SubSeq(t, 1, Len(s))) = Len(s)
             /\ \A i \in 1 .. Len(s) : SubSeq(t, 1, Len(s))[i] = t[i]
  BY <1>1, <1>3, SubSeqProperties
<1>4. ASSUME IsPrefix(s, t)
      PROVE  Len(s) <= Len(t) /\ \A i \in 1 .. Len(s) : s[i] = t[i]
  BY <1>2, <1>3, <1>4 DEF IsPrefix
<1>5. ASSUME Len(s) <= Len(t), \A i \in 1 .. Len(s) : s[i] = t[i]
      PROVE  IsPrefix(s, t)
  <2>1. \A i \in 1 .. Len(s) : s[i] = SubSeq(t, 1, Len(s))[i]
    BY <1>3, <1>5
  <2>2. s = SubSeq(t, 1, Len(s))
    BY <1>3, <1>5, <2>1, SeqEqual
  <2> QED
    BY <1>2, <1>5, <2>2 DEF IsPrefix
<1> QED
  BY <1>4, <1>5

\* A file that may be under a root: a place below it that is no directory, and is
\* where the links are that are left.
Below(f, r) == IsPrefix(r, f) /\ f \notin Folders /\ ~IsPrefix(f, r)
FileUnder(l, f, r) == Real(l, f) /\ Below(f, r)

\* What _checked_file lets through is such a file.
LEMMA CheckedFacts ==
    ASSUME NEW l, Part(l), NEW T, STRING \subseteq T, NEW target \in Seq(T), NEW r \in Seq(T),
           CheckedFile(l, target, r) # Denied
    PROVE  CheckedFile(l, target, r) \in Seq(T) /\ FileUnder(l, CheckedFile(l, target, r), r)
<1>1. /\ IsPrefix(r, target)
      /\ \A n \in Len(r) .. Len(target) : IsPrefix(r, Resolve(l, SubSeq(target, 1, n)))
      /\ Resolve(l, target) \notin Folders /\ ~IsPrefix(Resolve(l, target), r)
      /\ CheckedFile(l, target, r) = Resolve(l, target)
  BY DEF CheckedFile
<1>2. Resolve(l, target) \in Seq(T) /\ Real(l, Resolve(l, target))
  BY ResolveIsReal
<1>3. SubSeq(target, 1, Len(target)) = target
  BY SubSeqProperties, SeqEqual
<1>4. Len(target) \in Len(r) .. Len(target)
  BY <1>1 DEF IsPrefix
<1>5. IsPrefix(r, Resolve(l, target))
  BY <1>1, <1>3, <1>4
<1> QED
  BY <1>1, <1>2, <1>5 DEF FileUnder, Below

\* It lets such a file through again, unchanged.
LEMMA CheckedAgain ==
    ASSUME NEW l, NEW T, NEW f \in Seq(T), NEW r \in Seq(T), FileUnder(l, f, r)
    PROVE  CheckedFile(l, f, r) = f
<1>1. Resolve(l, f) = f
  BY ResolveOfReal DEF FileUnder
<1>2. Len(r) <= Len(f) /\ \A i \in 1 .. Len(r) : r[i] = f[i]
  BY PrefixFacts DEF FileUnder, Below
<1>3. ASSUME NEW n \in Len(r) .. Len(f)
      PROVE  IsPrefix(r, Resolve(l, SubSeq(f, 1, n)))
  <2>1. n \in 0 .. Len(f) /\ Len(r) <= n /\ n \in Nat
    OBVIOUS
  <2>2. /\ SubSeq(f, 1, n) \in Seq(T) /\ Len(SubSeq(f, 1, n)) = n
        /\ Real(l, SubSeq(f, 1, n))
    BY <2>1, RealPrefix DEF FileUnder
  <2>3. Resolve(l, SubSeq(f, 1, n)) = SubSeq(f, 1, n)
    BY <2>2, ResolveOfReal
  <2>4. \A i \in 1 .. Len(r) : r[i] = SubSeq(f, 1, n)[i]
    <3>1. \A i \in 1 .. n : SubSeq(f, 1, n)[i] = f[i]
      BY <2>1, SubSeqProperties
    <3> QED
      BY <1>2, <2>1, <3>1
  <2>5. IsPrefix(r, SubSeq(f, 1, n))
    BY <2>1, <2>2, <2>4, PrefixFacts
  <2> QED
    BY <2>3, <2>5
<1> QED
  BY <1>1, <1>3 DEF CheckedFile, FileUnder, Below

\* What write_file and edit_file make of a path, with some of the links left, is
\* such a file.
LEMMA WriteFacts ==
    ASSUME NEW l, Part(l), NEW r \in Roots, NEW path \in Paths,
           WritePath(l, path, r) # Denied
    PROVE  \E T : /\ STRING \subseteq T /\ WritePath(l, path, r) \in Seq(T)
                  /\ FileUnder(l, WritePath(l, path, r), r)
<1>1. r \in Seq(STRING)
  BY WorkspaceAssumption
<1> DEFINE f == WritePath(l, path, r)
<1>2. f # Denied
  OBVIOUS
<1>3. path.names \in Seq(STRING)
  BY WorkspaceAssumption
<1> DEFINE T == STRING \cup {Last(Normalized(path))}
<1>4. STRING \subseteq T /\ Last(Normalized(path)) \in T
  OBVIOUS
<1> HIDE DEF T, f
<1>5. r \in Seq(T) /\ path.names \in Seq(T) /\ Cwd \in Seq(T)
  BY <1>1, <1>3, <1>4, SeqMonotonic, GuardrailsAssumption
<1>6. Joined(path) \in Seq(T)
  BY <1>5, ConcatProperties DEF Joined
<1>7. Append(r, Last(Normalized(path))) \in Seq(T)
  BY <1>4, <1>5, AppendProperties
<1>8. r \o path.names \in Seq(T)
  BY <1>5, ConcatProperties
<1>9. StartsWith(path, "workspace") => r \o Tail(path.names) \in Seq(T)
  <2> SUFFICES ASSUME path.names # <<>> PROVE r \o Tail(path.names) \in Seq(T)
    BY DEF StartsWith
  <2>1. Tail(path.names) \in Seq(T)
    BY <1>5, HeadTailProperties
  <2> QED
    BY <1>5, <2>1, ConcatProperties
<1>10. PICK target \in Seq(T) : f = CheckedFile(l, target, r)
  <2> DEFINE clean == Normalized(path)
             leaves == path.absolute \/ (clean # <<>> /\ Head(clean) = Up)
             target == IF StartsWith(path, "workspace") THEN r \o Tail(path.names)
                       ELSE IF IsPrefix(r, Joined(path)) THEN Joined(path)
                       ELSE IF leaves THEN IF clean = <<>> THEN r
                                           ELSE Append(r, Last(clean))
                       ELSE r \o path.names
  <2>1. f = CheckedFile(l, target, r)
    BY DEF WritePath, f
  <2>2. target \in Seq(T)
    <3> HIDE DEF leaves
    <3> QED
      BY <1>5, <1>6, <1>7, <1>8, <1>9
  <2> QED
    BY <2>1, <2>2
<1>11. f \in Seq(T) /\ FileUnder(l, f, r)
  BY <1>2, <1>4, <1>5, <1>10, CheckedFacts
<1> QED
  BY <1>4, <1>11 DEF f

\* Some of the links are some of the links.
LEMMA PartFacts ==
    ASSUME NEW left \in SUBSET DOMAIN Links
    PROVE  Part(Remaining(left)) /\ DOMAIN Remaining(left) = left
BY DEF Part, Remaining

\* The fewer links, the more places are real.
LEMMA RealFewer ==
    ASSUME NEW l, NEW m, DOMAIN m \subseteq DOMAIN l, NEW at, Real(l, at)
    PROVE  Real(m, at)
BY DEF Real

\* Every file that may be made is one under the root.
LEMMA LocationFacts ==
    ASSUME LinksInv, NEW f \in Locations
    PROVE  \E T : STRING \subseteq T /\ f \in Seq(T) /\ Below(f, root)
<1>1. f \in Reachable(root) /\ root \in Roots
  BY DEF LinksInv
<1>2. PICK gone \in SUBSET DOMAIN Links, path \in Paths :
          f = WritePath(Remaining(DOMAIN Links \ gone), path, root) /\ f # Denied
  <2> DEFINE own == {at \in DOMAIN Links : TopLevel(root, at)}
             means(g) == {WritePath(Remaining(DOMAIN Links \ g), q, root) : q \in Paths}
  <2>1. Reachable(root) = (UNION {means(g) : g \in SUBSET own}) \ {Denied}
    BY DEF Reachable
  <2> HIDE DEF means
  <2>2. PICK g \in SUBSET own : f \in means(g)
    BY <1>1, <2>1
  <2>3. f # Denied
    BY <1>1, <2>1
  <2> QED
    BY <2>2, <2>3 DEF means
<1> DEFINE l == Remaining(DOMAIN Links \ gone)
<1>3. Part(l)
  BY PartFacts
<1> HIDE DEF l
<1> QED
  BY <1>1, <1>2, <1>3, WriteFacts DEF FileUnder, l

\* The name a file is shown by is one it is read by.
LEMMA DisplayedIsRead ==
    ASSUME NEW l, NEW T, STRING \subseteq T, NEW f \in Seq(T), root \in Seq(T),
           FileUnder(l, f, root)
    PROVE  Shadowed(f) \/ ReadPath(l, Displayed(f), root) = f
<1> DEFINE path == Displayed(f)
<1>1. Cwd \in Seq(T)
  BY SeqMonotonic, GuardrailsAssumption
<1>2. IsPrefix(root, f) /\ CheckedFile(l, f, root) = f
  BY CheckedAgain DEF FileUnder, Below
<1>3. ASSUME Joined(path) = f, ~StartsWith(path, "workspace")
      PROVE  ReadPath(l, path, root) = f
  BY <1>2, <1>3 DEF ReadPath
<1>4. CASE ~IsPrefix(Cwd, f)
  <2>1. path = [absolute |-> TRUE, names |-> f]
    BY <1>4 DEF Displayed
  <2> HIDE DEF path
  <2>2. Joined(path) = f /\ ~StartsWith(path, "workspace")
    BY <2>1 DEF Joined, StartsWith
  <2> QED
    BY <1>3, <2>2 DEF path
<1>5. CASE IsPrefix(Cwd, f)
  <2> DEFINE names == SubSeq(f, Len(Cwd) + 1, Len(f))
  <2>1. path = [absolute |-> FALSE, names |-> names]
    BY <1>5 DEF Displayed
  <2> HIDE DEF path
  <2>2. /\ Len(Cwd) \in Nat /\ Len(f) \in Nat /\ Len(Cwd) <= Len(f)
        /\ \A i \in 1 .. Len(Cwd) : Cwd[i] = f[i]
    BY <1>1, <1>5, PrefixFacts
  <2>3. /\ names \in Seq(T) /\ Len(names) = Len(f) - Len(Cwd)
        /\ \A i \in 1 .. Len(f) - Len(Cwd) : names[i] = f[Len(Cwd) + i]
    <3>1. /\ names \in Seq(T)
          /\ Len(names) = IF Len(Cwd) + 1 <= Len(f) THEN Len(f) - (Len(Cwd) + 1) + 1 ELSE 0
          /\ \A i \in 1 .. Len(f) - (Len(Cwd) + 1) + 1 : names[i] = f[Len(Cwd) + 1 + i - 1]
      BY <2>2, SubSeqProperties
    <3> HIDE DEF names
    <3>2. \A i \in Int : Len(Cwd) + 1 + i - 1 = Len(Cwd) + i
      BY <2>2
    <3> QED
      BY <2>2, <3>1, <3>2
  <2> HIDE DEF names
  <2>4. Cwd \o names = f
    <3>1. /\ Cwd \o names \in Seq(T) /\ Len(Cwd \o names) = Len(Cwd) + Len(names)
          /\ \A i \in 1 .. Len(Cwd) + Len(names) :
                (Cwd \o names)[i] = IF i <= Len(Cwd) THEN Cwd[i] ELSE names[i - Len(Cwd)]
      BY <1>1, <2>3, ConcatProperties
    <3>2. ASSUME NEW i \in 1 .. Len(f) PROVE (Cwd \o names)[i] = f[i]
      <4>1. CASE i <= Len(Cwd)
        BY <2>2, <2>3, <3>1, <4>1
      <4>2. CASE ~(i <= Len(Cwd))
        <5>1. i - Len(Cwd) \in 1 .. Len(f) - Len(Cwd) /\ Len(Cwd) + (i - Len(Cwd)) = i
          BY <2>2, <4>2
        <5>2. i \in 1 .. Len(Cwd) + Len(names)
          BY <2>2, <2>3
        <5>3. (Cwd \o names)[i] = names[i - Len(Cwd)]
          BY <3>1, <4>2, <5>2
        <5>4. names[i - Len(Cwd)] = f[i]
          BY <2>3, <5>1
        <5> QED
          BY <5>3, <5>4
      <4> QED
        BY <4>1, <4>2
    <3>3. Len(Cwd \o names) = Len(f)
      BY <2>2, <2>3, <3>1
    <3> QED
      BY <3>1, <3>2, <3>3, SeqEqual
  <2>5. Joined(path) = f
    BY <2>1, <2>4 DEF Joined
  <2>6. CASE ~StartsWith(path, "workspace")
    BY <1>3, <2>5, <2>6 DEF path
  <2>7. CASE StartsWith(path, "workspace")
    <3>1. names # <<>> /\ Head(names) = "workspace"
      BY <2>1, <2>7 DEF StartsWith
    <3> DEFINE here == Append(Cwd, "workspace")
    <3>2. /\ Tail(names) \in Seq(T) /\ Len(Tail(names)) = Len(names) - 1
          /\ Len(names) >= 1 /\ names[1] = "workspace"
          /\ \A i \in 1 .. Len(Tail(names)) : Tail(names)[i] = names[i + 1]
      BY <2>3, <3>1, HeadTailProperties
    <3>3. /\ here \in Seq(T) /\ Len(here) = Len(Cwd) + 1 /\ here[Len(Cwd) + 1] = "workspace"
          /\ \A i \in 1 .. Len(Cwd) : here[i] = Cwd[i]
      <4>1. "workspace" \in T
        BY <2>3, <3>2
      <4> QED
        BY <1>1, <4>1, AppendProperties
    <3> HIDE DEF here
    <3>4. \A i \in 1 .. Len(here) : here[i] = f[i]
      <4>1. f[Len(Cwd) + 1] = "workspace"
        BY <2>2, <2>3, <3>2
      <4> QED
        BY <2>2, <3>3, <4>1
    <3>5. Len(here) <= Len(f)
      BY <2>2, <2>3, <3>2, <3>3
    <3>6. IsPrefix(here, f)
      BY <3>3, <3>4, <3>5, PrefixFacts
    <3>7. CASE root # here
      BY <3>6, <3>7 DEF Shadowed, here
    <3>8. CASE root = here
      <4>1. /\ here \o Tail(names) \in Seq(T)
            /\ Len(here \o Tail(names)) = Len(here) + Len(Tail(names))
            /\ \A i \in 1 .. Len(here) + Len(Tail(names)) :
                  (here \o Tail(names))[i]
                      = IF i <= Len(here) THEN here[i] ELSE Tail(names)[i - Len(here)]
        BY <3>2, <3>3, ConcatProperties
      <4>2. Len(here) + Len(Tail(names)) = Len(f)
        BY <2>2, <2>3, <3>2, <3>3
      <4>3. ASSUME NEW i \in 1 .. Len(f) PROVE (here \o Tail(names))[i] = f[i]
        <5>1. CASE i <= Len(here)
          BY <3>3, <3>4, <4>1, <4>2, <5>1
        <5>2. CASE ~(i <= Len(here))
          <6>1. /\ i - Len(here) \in 1 .. Len(Tail(names))
                /\ i - Len(here) + 1 \in 1 .. Len(f) - Len(Cwd)
                /\ Len(Cwd) + (i - Len(here) + 1) = i
            BY <2>2, <2>3, <3>2, <3>3, <5>2
          <6>2. (here \o Tail(names))[i] = Tail(names)[i - Len(here)]
            BY <3>3, <4>1, <4>2, <5>2
          <6>3. Tail(names)[i - Len(here)] = names[i - Len(here) + 1]
            BY <3>2, <6>1
          <6>4. names[i - Len(here) + 1] = f[i]
            BY <2>3, <6>1
          <6> QED
            BY <6>2, <6>3, <6>4
        <5> QED
          BY <5>1, <5>2
      <4>4. here \o Tail(names) = f
        BY <4>1, <4>2, <4>3, SeqEqual
      <4>5. ReadPath(l, path, root) = CheckedFile(l, root \o Tail(names), root)
        BY <2>1, <2>7 DEF ReadPath
      <4> QED
        BY <1>2, <3>8, <4>4, <4>5 DEF path
    <3> QED
      BY <3>7, <3>8
  <2> QED
    BY <2>6, <2>7
<1> QED
  BY <1>4, <1>5

\* Every file that is there, or that a call has open or read, is where no link is.
RealFiles ==
    /\ \A f \in Locations : files[f] # Absent => Real(links, f)
    /\ \A d \in Departments : thread[d].at # "idle" => Real(links, thread[d].file)

LEMMA InitReal == Init => RealFiles
<1> SUFFICES ASSUME Init PROVE RealFiles
  OBVIOUS
<1>1. \A f \in Locations : files[f] # Absent => Real(links, f)
  BY DEF Init, Locations
<1>2. \A d \in Departments : ~(thread[d].at # "idle")
  BY DEF Init, Idle
<1> QED
  BY <1>1, <1>2 DEF RealFiles

\* What a path means now is such a file.
LEMMA PlaceReal ==
    ASSUME LinksInv, NEW path \in Paths, place[path] # Denied
    PROVE  Real(links, place[path])
<1>1. PICK left \in SUBSET DOMAIN Links : links = Remaining(left)
  BY DEF LinksInv
<1>2. Part(links) /\ root \in Roots /\ place[path] = WritePath(links, path, root)
  BY <1>1, PartFacts DEF LinksInv
<1> QED
  BY <1>2, WriteFacts DEF FileUnder

LEMMA RealFrame ==
    ASSUME RealFiles, Locations' = Locations, DOMAIN links' \subseteq DOMAIN links,
           \A f \in Locations : files'[f] # Absent => files[f] # Absent \/ Real(links, f),
           \A d \in Departments : thread'[d].at # "idle" =>
               \/ thread[d].at # "idle" /\ thread'[d].file = thread[d].file
               \/ Real(links, thread'[d].file)
    PROVE  RealFiles'
<1>1. ASSUME NEW f, Real(links, f) PROVE Real(links', f)
  BY <1>1, RealFewer
<1>2. \A f \in Locations : files'[f] # Absent => Real(links', f)
  BY <1>1 DEF RealFiles
<1>3. \A d \in Departments : thread'[d].at # "idle" => Real(links', thread'[d].file)
  BY <1>1 DEF RealFiles
<1>4. \A f : Real(links', f) <=> Real(links, f)'
  BY DEF Real
<1> QED
  BY <1>2, <1>3, <1>4 DEF RealFiles

LEMMA RealStep == RealFiles /\ WorkInv /\ LinksInv /\ [Next]_vars => RealFiles'
<1> SUFFICES ASSUME RealFiles, WorkInv, LinksInv, [Next]_vars PROVE RealFiles'
  OBVIOUS
<1>1. ASSUME UNCHANGED <<files, thread>>, DOMAIN links' \subseteq DOMAIN links
      PROVE  RealFiles'
  <2>1. Locations' = Locations
    BY <1>1 DEF Locations
  <2> QED
    BY <1>1, <2>1, RealFrame
<1>2. CASE \/ \E asked \in SUBSET Departments : StartTurn(asked)
           \/ \E d \in Departments : Answers(d) \/ Fails(d) \/ GivenUp(d)
           \/ Fold \/ FoldRaises \/ StartClear \/ Done \/ UNCHANGED vars
  BY <1>1, <1>2 DEF StartTurn, Answers, Fails, GivenUp, Forgotten, Fold, FoldRaises, Settles,
     StartClear, Done, vars
<1>3. ASSUME NEW d \in Departments, NEW path \in Paths, OpenToWrite(d, path)
      PROVE  RealFiles'
  <2>1. PICK text : /\ Truncated(d, place[path], text, TRUE)
                    /\ place[path] # Denied /\ UNCHANGED links
    BY <1>3 DEF OpenToWrite, Calls
  <2> DEFINE f == place[path]
  <2>2. Real(links, f)
    BY <2>1, PlaceReal
  <2> HIDE DEF f
  <2>3. /\ Locations' = Locations
        /\ \A g \in Locations : g # f => files'[g] = files[g]
        /\ \A e \in Departments : thread'[e].at # "idle" =>
              (e # d /\ thread'[e] = thread[e]) \/ thread'[e].file = f
    BY <2>1 DEF Truncated, Locations, f, WorkInv, TypeOK
  <2> QED
    BY <2>1, <2>2, <2>3, RealFrame
<1>4. ASSUME NEW d \in Departments, NEW path \in Paths, ReadToEdit(d, path)
      PROVE  RealFiles'
  <2> DEFINE f == place[path]
  <2>1. /\ f # Denied /\ UNCHANGED <<links, files>>
        /\ thread' = [thread EXCEPT ![d] = [at |-> "loaded", file |-> f,
                                            text |-> Replaced(files[f])]]
    BY <1>4 DEF ReadToEdit, Calls
  <2>2. Real(links, f)
    BY <2>1, PlaceReal
  <2> HIDE DEF f
  <2>3. \A e \in Departments : thread'[e].at # "idle" =>
              (e # d /\ thread'[e] = thread[e]) \/ thread'[e].file = f
    BY <2>1 DEF WorkInv, TypeOK
  <2>4. Locations' = Locations
    BY <2>1 DEF Locations
  <2> QED
    BY <2>1, <2>2, <2>3, <2>4, RealFrame
<1>5. ASSUME NEW d \in Departments, OpenToEdit(d)
      PROVE  RealFiles'
  <2> DEFINE f == thread[d].file
  <2>1. Truncated(d, f, thread[d].text, FALSE) /\ UNCHANGED links /\ thread[d].at = "loaded"
    BY <1>5 DEF OpenToEdit
  <2>2. Real(links, f)
    BY <2>1 DEF RealFiles
  <2> DEFINE text == thread[d].text
  <2> HIDE DEF f, text
  <2>3. /\ Locations' = Locations
        /\ \A g \in Locations : g # f => files'[g] = files[g]
        /\ \A e \in Departments : thread'[e].at # "idle" =>
              (e # d /\ thread'[e] = thread[e]) \/ thread'[e].file = f
    BY <2>1 DEF Truncated, Locations, f, text, WorkInv, TypeOK
  <2> QED
    BY <2>1, <2>2, <2>3, RealFrame
<1>6. ASSUME NEW d \in Departments, Writes(d) \/ WriteFails(d)
      PROVE  RealFiles'
  <2>1. /\ UNCHANGED links /\ thread' = [thread EXCEPT ![d] = Idle]
        /\ thread[d].at = "open"
        /\ \/ files' = files
           \/ \E text : files' = [files EXCEPT ![thread[d].file] = text]
    BY <1>6 DEF Writes, WriteFails
  <2>2. /\ Locations' = Locations
        /\ \A g \in Locations : g # thread[d].file => files'[g] = files[g]
        /\ \A e \in Departments : thread'[e].at # "idle" => thread'[e] = thread[e]
    BY <2>1 DEF Locations, Idle, WorkInv, TypeOK
  <2>3. Real(links, thread[d].file)
    BY <2>1 DEF RealFiles
  <2> QED
    BY <2>1, <2>2, <2>3, RealFrame
<1>7. ASSUME NEW d \in Departments, FileCall(d)
      PROVE  RealFiles'
  BY <1>1, <1>3, <1>4, <1>5, <1>6, <1>7 DEF FileCall, ToolRefuses, SchemaRefuses, Calls
<1>8. ASSUME NEW at \in clearing, UnlinkLink(at)
      PROVE  RealFiles'
  BY <1>1, <1>8 DEF UnlinkLink, Remaining
<1>9. ASSUME NEW g \in clearing, Unlink(g)
      PROVE  RealFiles'
  <2>1. /\ Locations' = Locations /\ UNCHANGED links
        /\ \A h \in Locations : files'[h] = files[h] \/ files'[h] = Absent
    BY <1>9 DEF Unlink, Locations, WorkInv, TypeOK
  <2>2. \A e \in Departments : thread'[e].at = thread[e].at
                             /\ (thread[e].at # "idle" => thread'[e].file = thread[e].file)
    BY <1>9 DEF Unlink, WorkInv, TypeOK, Threads, Idle
  <2> QED
    BY <2>1, <2>2, RealFrame
<1> QED
  BY <1>2, <1>7, <1>8, <1>9 DEF Next

\* A file that is there lies in the workspace, and read_file finds it under the
\* name the tool gives it, unless that name is taken for the root's: whatever links
\* there are, whichever of them a clear has unlinked, and wherever the root is
\* (guardrails.py:18-128).
THEOREM WrittenFilesAreReadable == Spec => []WrittenIsReadable
<1>1. LinksInv /\ RealFiles => WrittenIsReadable
  <2> SUFFICES ASSUME LinksInv, RealFiles, NEW f \in Locations, files[f] # Absent
               PROVE  /\ IsPrefix(root, Resolve(links, f))
                      /\ Shadowed(f) \/ ReadPath(links, Displayed(f), root) = f
    BY DEF WrittenIsReadable
  <2>1. root \in Seq(STRING)
    BY WorkspaceAssumption DEF LinksInv
  <2>2. PICK T : STRING \subseteq T /\ f \in Seq(T) /\ Below(f, root)
    BY LocationFacts
  <2>3. FileUnder(links, f, root)
    BY <2>2 DEF RealFiles, FileUnder
  <2>4. Resolve(links, f) = f
    BY <2>2, <2>3, ResolveOfReal DEF FileUnder
  <2>5. root \in Seq(T)
    BY <2>1, <2>2, SeqMonotonic
  <2> QED
    BY <2>2, <2>3, <2>4, <2>5, DisplayedIsRead DEF Below
<1>2. Spec => []LinksInv
  BY InitLinks, LinksStep, PTL DEF Spec
<1> QED
  BY <1>1, <1>2, InitReal, RealStep, WorkspaceInvariant, PTL DEF Spec

-----------------------------------------------------------------------------
(* The tools of the process: invariant                                     *)

Points == {"idle", "load", "hit", "miss", "store", "storekey", "check", "assign",
          "add", "put", "return", "run", "raised"}

Versions == [Source -> Nat]

RuntimeTypeOK ==
    /\ Source \in {{"file"}, {"mcp"}, {"file", "mcp"}}
    /\ offered \in Versions /\ fresh \in Versions
    /\ cache \in [Source -> [full : BOOLEAN, tool : Nat, key : Nat]]
    /\ heap \in Seq(Versions) /\ registry \in 0..Len(heap)
    /\ pc \in [Workers -> Points]
    /\ phase \in [Workers -> {"select", "names", "build"}]
    /\ source \in [Workers -> Source]
    /\ key \in [Workers -> Nat]
    /\ got \in [Workers -> Versions] /\ bound \in [Workers -> Versions]
    /\ reg \in [Workers -> 0..Len(heap)]
    /\ overtaken \in [Workers -> BOOLEAN]

\* Registry r has the tool of s that is bound to w.
Has(w, r, s) == bound[w][s] # 0 => r # 0 /\ heap[r][s] # 0

\* The loop over the bound tools starts at the first source; what it has passed
\* is in the registry, unless another thread has assigned it.
LoopOK(w) ==
    /\ pc[w] \in {"check", "assign"} => source[w] = FirstSource
    /\ pc[w] = "put" => bound[w][source[w]] # 0
    /\ ~overtaken[w] /\ pc[w] \in {"add", "put"} /\ source[w] # FirstSource =>
          Has(w, registry, FirstSource)
    /\ ~overtaken[w] /\ pc[w] = "return" => \A s \in Source : Has(w, registry, s)
    /\ ~overtaken[w] /\ pc[w] = "run" => \A s \in Source : Has(w, reg[w], s)

RegistryInv == \A w \in Workers : LoopOK(w)

\* No file tool is older than the key it is cached under.
KeyOK(w) ==
    LET file == cache["file"]
    IN  /\ pc[w] = "hit" => key[w] <= file.key
        /\ Loads(w, "file") => file.key <= key[w] /\ key[w] <= offered["file"] + 1
        /\ pc[w] \in {"store", "storekey"} => key[w] <= got[w]["file"] + 1
        /\ pc[w] = "storekey" => file.tool = got[w]["file"]

\* Two threads load the file tools at once only if that was seen.
Alone == \A v, w \in Workers : Loads(v, "file") /\ Loads(w, "file") => v = w

LoadOK(w) ==
    /\ source[w] = "file" => KeyOK(w)
    /\ pc[w] = "check" => key[w] <= bound[w]["file"] + 1

FileOK ==
    /\ cache["file"].key <= cache["file"].tool + 1
    /\ cache["file"].key <= offered["file"] + 1
    /\ Alone
    /\ \A w \in Workers : LoadOK(w)

FileInv == "file" \in Source /\ crowded = {} => FileOK

\* The key of the servers' tools is always the same one.
ServerKey ==
    \A w \in Workers :
        pc[w] \in {"hit", "miss", "store", "storekey"} /\ source[w] = "mcp" => key[w] = 1

\* No tool of a server is older than the last quiet reset.
Enough(since, tool) == tool = 0 \/ tool >= since

CacheFresh == cache["mcp"].full => Enough(fresh["mcp"], cache["mcp"].tool)

HeapFresh ==
    /\ registry # 0 => Enough(fresh["mcp"], heap[registry]["mcp"])
    /\ \A w \in Workers : reg[w] # 0 => Enough(fresh["mcp"], heap[reg[w]]["mcp"])

HeldFresh ==
    \A w \in Workers : /\ Enough(fresh["mcp"], got[w]["mcp"])
                       /\ Enough(fresh["mcp"], bound[w]["mcp"])

FreshInv ==
    "mcp" \in Source =>
        fresh["mcp"] <= offered["mcp"] /\ CacheFresh /\ HeapFresh /\ HeldFresh

\* A department that is not running holds nothing.
IdleInv ==
    \A w \in Workers : pc[w] = "idle" =>
        got[w] = NoTools /\ bound[w] = NoTools /\ reg[w] = 0

\* While a reset is quiet, nothing is left of what it has removed.
ResetInv ==
    /\ reset \in [kind : Kind, at : {"done", "cache", "key"}]
    /\ quiet /\ reset.at # "done" =>
          /\ AllIdle
          /\ reset.kind = "factory" => registry = 0
          /\ reset.at = "key" /\ "mcp" \in Source => ~cache["mcp"].full

RuntimeInv ==
    /\ RuntimeTypeOK /\ RegistryInv
    /\ ServerKey /\ FileInv
    /\ FreshInv /\ IdleInv /\ ResetInv

-----------------------------------------------------------------------------
(* Types                                                                   *)

\* What FirstSource, LastSource and NoTools are, one source or two.
LEMMA SourceFacts ==
    ASSUME RuntimeTypeOK
    PROVE  /\ FirstSource \in Source /\ LastSource \in Source
           /\ \A s \in Source : s = FirstSource \/ s = LastSource
           /\ "file" \in Source => FirstSource = "file"
           /\ "mcp" \in Source => LastSource = "mcp"
           /\ NoTools \in Versions
           /\ \A s \in Source : NoTools[s] = 0 /\ KeyOf(s) \in Nat
<1>1. Source \in {{"file"}, {"mcp"}, {"file", "mcp"}}
  BY DEF RuntimeTypeOK
<1>2. /\ FirstSource \in Source /\ LastSource \in Source
      /\ \A s \in Source : s = FirstSource \/ s = LastSource
      /\ "file" \in Source => FirstSource = "file"
      /\ "mcp" \in Source => LastSource = "mcp"
  BY <1>1 DEF FirstSource, LastSource
<1>3. NoTools \in Versions /\ \A s \in Source : NoTools[s] = 0
  BY DEF NoTools, Versions
<1>4. \A s \in Source : KeyOf(s) \in Nat
  <2>1. offered \in [Source -> Nat]
    BY DEF RuntimeTypeOK, Versions
  <2> QED
    BY <2>1 DEF KeyOf
<1> QED
  BY <1>2, <1>3, <1>4

\* What the end of a load does to the worker.
LEMMA LoadedFacts ==
    ASSUME RuntimeTypeOK, NEW w \in Workers, NEW tool \in Nat, Loaded(w, tool)
    PROVE  /\ got' \in [Workers -> Versions] /\ bound' \in [Workers -> Versions]
           /\ source' \in [Workers -> Source]
           /\ phase' \in [Workers -> {"select", "names", "build"}]
           /\ pc' \in [Workers -> Points]
           /\ \A v \in Workers \ {w} :
                 /\ got'[v] = got[v] /\ bound'[v] = bound[v]
                 /\ source'[v] = source[v] /\ pc'[v] = pc[v]
           /\ got'[w] = [got[w] EXCEPT ![source[w]] = tool]
           /\ pc'[w] \in {"load", "check", "assign"}
           /\ pc'[w] \in {"check", "assign"} =>
                 source[w] = LastSource /\ source'[w] = FirstSource
           /\ bound'[w] \in {bound[w], got'[w]}
           /\ pc'[w] = "check" => bound'[w] = got'[w]
<1> DEFINE tools == [got[w] EXCEPT ![source[w]] = tool]
           last  == source[w] = LastSource
<1>1. /\ source \in [Workers -> Source] /\ got \in [Workers -> Versions]
      /\ bound \in [Workers -> Versions] /\ pc \in [Workers -> Points]
      /\ phase \in [Workers -> {"select", "names", "build"}]
  BY DEF RuntimeTypeOK
<1>2. tools \in Versions
  BY <1>1 DEF Versions
<1>3. /\ got' = [got EXCEPT ![w] = tools]
      /\ source' = [source EXCEPT ![w] = IF last THEN FirstSource ELSE LastSource]
      /\ phase' = [phase EXCEPT ![w] =
                     IF last /\ phase[w] = "names" THEN "build" ELSE phase[w]]
      /\ bound' = [bound EXCEPT ![w] =
                     IF last /\ phase[w] = "select" THEN tools ELSE bound[w]]
      /\ pc' = [pc EXCEPT ![w] =
                  IF ~last \/ phase[w] = "names" THEN "load"
                  ELSE IF phase[w] = "select" THEN "check" ELSE "assign"]
  BY DEF Loaded
<1> HIDE DEF tools, last
<1>4. FirstSource \in Source /\ LastSource \in Source
  BY SourceFacts
<1>5. got' \in [Workers -> Versions] /\ bound' \in [Workers -> Versions]
  BY <1>1, <1>2, <1>3
<1>6. source' \in [Workers -> Source]
  BY <1>1, <1>3, <1>4
<1>7. phase' \in [Workers -> {"select", "names", "build"}]
  BY <1>1, <1>3
<1>8. pc' \in [Workers -> Points]
  BY <1>1, <1>3 DEF Points
<1>9. \A v \in Workers \ {w} :
          /\ got'[v] = got[v] /\ bound'[v] = bound[v]
          /\ source'[v] = source[v] /\ pc'[v] = pc[v]
  BY <1>1, <1>3
<1>10. /\ got'[w] = tools
       /\ pc'[w] = IF ~last \/ phase[w] = "names" THEN "load"
                   ELSE IF phase[w] = "select" THEN "check" ELSE "assign"
       /\ source'[w] = IF last THEN FirstSource ELSE LastSource
       /\ bound'[w] = IF last /\ phase[w] = "select" THEN tools ELSE bound[w]
  BY <1>1, <1>3
<1>11. /\ pc'[w] \in {"load", "check", "assign"}
       /\ pc'[w] \in {"check", "assign"} => last /\ source'[w] = FirstSource
       /\ bound'[w] \in {bound[w], got'[w]}
       /\ pc'[w] = "check" => bound'[w] = got'[w]
  BY <1>10
<1> QED
  BY <1>5, <1>6, <1>7, <1>8, <1>9, <1>10, <1>11 DEF tools, last

\* Nothing is loaded at first, and there is no registry.
LEMMA RuntimeTypeInit == RuntimeInit => RuntimeTypeOK
<1> SUFFICES ASSUME RuntimeInit PROVE RuntimeTypeOK
  OBVIOUS
<1>1. PICK S \in Sources : offered \in [S -> 0..1]
  BY DEF RuntimeInit
<1>2. Source = S /\ S \in {{"file"}, {"mcp"}, {"file", "mcp"}}
  BY <1>1, RuntimeAssumption DEF Source
<1>3. offered \in Versions
  BY <1>1, <1>2 DEF Versions
<1>4. NoTools \in Versions
  BY DEF NoTools, Versions
<1>5. FirstSource \in Source
  BY <1>2 DEF FirstSource
<1>6. cache \in [Source -> [full : BOOLEAN, tool : Nat, key : Nat]]
  BY DEF RuntimeInit
<1>7. /\ heap \in Seq(Versions) /\ registry \in 0..Len(heap)
      /\ reg \in [Workers -> 0..Len(heap)]
  BY DEF RuntimeInit
<1>8. /\ pc \in [Workers -> Points] /\ phase \in [Workers -> {"select", "names", "build"}]
      /\ source \in [Workers -> Source] /\ key \in [Workers -> Nat]
      /\ got \in [Workers -> Versions] /\ bound \in [Workers -> Versions]
      /\ overtaken \in [Workers -> BOOLEAN] /\ fresh \in Versions
  BY <1>4, <1>5 DEF RuntimeInit, Points
<1> QED
  BY <1>2, <1>3, <1>6, <1>7, <1>8 DEF RuntimeTypeOK

\* The steps of one worker.
WorkerStep(w) ==
    \/ Start(w) \/ Lookup(w) \/ Hit(w) \/ ExecutesModules(w) \/ AsksServers(w)
    \/ Store(w) \/ StoreKey(w)
    \/ Check(w) \/ BuildFails(w) \/ Assign(w)
    \/ Add(w) \/ Put(w) \/ AddRaises(w) \/ Return(w) \/ Finish(w)

\* Which sources there are does not change.
LEMMA SourceStays ==
    ASSUME RuntimeTypeOK, [RuntimeNext]_runtime
    PROVE  /\ Source' = Source /\ FirstSource' = FirstSource /\ LastSource' = LastSource
           /\ Versions' = Versions /\ NoTools' = NoTools
           /\ offered' \in Versions
           /\ \A s \in Source : offered[s] <= offered'[s]
<1>1. offered \in [Source -> Nat]
  BY DEF RuntimeTypeOK, Versions
<1>2. offered' = offered \/ Change
  <2>1. ASSUME NEW w \in Workers, WorkerStep(w) PROVE offered' = offered
    BY <2>1 DEF WorkerStep, Start, Lookup, Hit, ExecutesModules, AsksServers, Fetches, Store,
                StoreKey, Check, BuildFails, Assign, Add, Put, AddRaises, Return, Finish,
                world
  <2>2. ASSUME \/ \E kind \in Kind : StartReset(kind)
               \/ ClearCache \/ ClearKey \/ RuntimeDone \/ UNCHANGED runtime
        PROVE  offered' = offered
    BY <2>2 DEF StartReset, ClearCache, ClearKey, RuntimeDone, runtime, world
  <2> QED
    BY <2>1, <2>2 DEF RuntimeNext, WorkerStep
<1>3. CASE offered' = offered
  BY <1>1, <1>3 DEF Source, FirstSource, LastSource, Versions, NoTools
<1>4. CASE Change
  <2>1. PICK s \in Source : offered' = [offered EXCEPT ![s] = @ + 1]
    BY <1>4 DEF Change
  <2>2. offered' \in [Source -> Nat] /\ \A r \in Source : offered[r] <= offered'[r]
    BY <1>1, <2>1
  <2>3. Source' = Source
    BY <2>2 DEF Source
  <2>4. /\ FirstSource' = FirstSource /\ LastSource' = LastSource
        /\ Versions' = Versions /\ NoTools' = NoTools
    BY <2>3 DEF FirstSource, LastSource, Versions, NoTools
  <2> QED
    BY <2>2, <2>3, <2>4 DEF Versions
<1> QED
  BY <1>2, <1>3, <1>4

\* The entries of the caches stay entries.
LEMMA EntryFacts ==
    ASSUME NEW e \in [full : BOOLEAN, tool : Nat, key : Nat], NEW k \in Nat
    PROVE  /\ [e EXCEPT !.key = k] \in [full : BOOLEAN, tool : Nat, key : Nat]
           /\ [e EXCEPT !.full = FALSE, !.tool = 0]
                 \in [full : BOOLEAN, tool : Nat, key : Nat]
<1>1. [e EXCEPT !.key = k] = [full |-> e.full, tool |-> e.tool, key |-> k]
  OBVIOUS
<1>2. [e EXCEPT !.full = FALSE, !.tool = 0] \in [full : BOOLEAN, tool : Nat, key : Nat]
  OBVIOUS
<1> QED
  BY <1>1, <1>2

\* Every step keeps the types.
LEMMA RuntimeTypeStep ==
    ASSUME RuntimeTypeOK, [RuntimeNext]_runtime
    PROVE  RuntimeTypeOK'
<1>1. /\ Source' = Source /\ Versions' = Versions /\ offered' \in Versions
  BY SourceStays
<1>2. /\ Source \in {{"file"}, {"mcp"}, {"file", "mcp"}}
      /\ offered \in Versions /\ fresh \in Versions
      /\ cache \in [Source -> [full : BOOLEAN, tool : Nat, key : Nat]]
      /\ heap \in Seq(Versions) /\ Len(heap) \in Nat /\ registry \in 0..Len(heap)
      /\ pc \in [Workers -> Points]
      /\ phase \in [Workers -> {"select", "names", "build"}]
      /\ source \in [Workers -> Source]
      /\ key \in [Workers -> Nat]
      /\ got \in [Workers -> Versions] /\ bound \in [Workers -> Versions]
      /\ reg \in [Workers -> 0..Len(heap)]
      /\ overtaken \in [Workers -> BOOLEAN]
  BY DEF RuntimeTypeOK
<1>3. /\ FirstSource \in Source /\ LastSource \in Source /\ NoTools \in Versions
      /\ \A s \in Source : KeyOf(s) \in Nat
  BY SourceFacts
<1> DEFINE
      Entry   == [full : BOOLEAN, tool : Nat, key : Nat]
      Globals == fresh' \in Versions /\ cache' \in [Source -> Entry]
      Heaps   == /\ heap' \in Seq(Versions) /\ registry' \in 0..Len(heap')
                 /\ reg' \in [Workers -> 0..Len(heap')]
                 /\ overtaken' \in [Workers -> BOOLEAN]
      Places  == /\ pc' \in [Workers -> Points]
                 /\ phase' \in [Workers -> {"select", "names", "build"}]
                 /\ source' \in [Workers -> Source]
                 /\ key' \in [Workers -> Nat]
      Tools   == got' \in [Workers -> Versions] /\ bound' \in [Workers -> Versions]
<1> SUFFICES Globals /\ Heaps /\ Places /\ Tools
  BY <1>1, <1>2 DEF RuntimeTypeOK
<1>4. ASSUME NEW w \in Workers, WorkerStep(w) PROVE Globals
  <2>1. CASE Store(w)
    <3>1. got[w][source[w]] \in Nat /\ source[w] \in Source
      BY <1>2 DEF Versions
    <3> DEFINE entry == [full |-> TRUE, tool |-> got[w][source[w]],
                         key |-> cache[source[w]].key]
    <3>2. cache[source[w]] \in Entry
      BY <1>2, <3>1
    <3>3. cache' = [cache EXCEPT ![source[w]] = entry] /\ fresh' = fresh
      BY <2>1 DEF Store, world
    <3>4. entry \in Entry
      BY <3>1, <3>2
    <3> HIDE DEF entry
    <3> QED
      BY <1>2, <3>1, <3>3, <3>4
  <2>2. CASE StoreKey(w)
    <3>1. key[w] \in Nat /\ source[w] \in Source /\ cache[source[w]] \in Entry
      BY <1>2
    <3> DEFINE entry == [cache[source[w]] EXCEPT !.key = key[w]]
    <3>2. entry \in Entry
      BY <3>1, EntryFacts
    <3>3. cache' = [cache EXCEPT ![source[w]] = entry] /\ fresh' = fresh
      BY <2>2 DEF StoreKey, world
    <3> HIDE DEF entry
    <3> QED
      BY <1>2, <3>1, <3>2, <3>3
  <2>3. CASE \/ Start(w) \/ Lookup(w) \/ Hit(w) \/ ExecutesModules(w) \/ AsksServers(w)
             \/ Check(w) \/ BuildFails(w) \/ Assign(w)
             \/ Add(w) \/ Put(w) \/ AddRaises(w) \/ Return(w) \/ Finish(w)
    <3>1. UNCHANGED <<fresh, cache>>
      BY <2>3 DEF Start, Lookup, Hit, ExecutesModules, AsksServers, Fetches,
                  Check, BuildFails, Assign, Add, Put, AddRaises, Return, Finish, world
    <3> QED
      BY <1>2, <3>1
  <2> QED
    BY <1>4, <2>1, <2>2, <2>3 DEF WorkerStep
<1>5. ASSUME NEW w \in Workers, WorkerStep(w) PROVE Heaps
  <2>1. CASE Assign(w)
    <3>1. heap' = Append(heap, got[w]) /\ registry' = Len(heap') /\ reg' = reg
      BY <2>1 DEF Assign
    <3>2. heap' \in Seq(Versions) /\ Len(heap') = Len(heap) + 1
      BY <1>2, <3>1
    <3>3. overtaken' \in [Workers -> BOOLEAN]
      BY <1>2, <2>1 DEF Assign
    <3>4. 0..Len(heap) \subseteq 0..Len(heap')
      BY <1>2, <3>2
    <3>5. registry' \in 0..Len(heap') /\ reg' \in [Workers -> 0..Len(heap')]
      BY <1>2, <3>1, <3>2, <3>4
    <3> QED
      BY <3>2, <3>3, <3>5
  <2>2. CASE Put(w)
    <3> DEFINE tools == [heap[registry] EXCEPT ![source[w]] = Bound(w)]
    <3>1. /\ registry \in 1..Len(heap) /\ heap' = [heap EXCEPT ![registry] = tools]
          /\ registry' = registry /\ reg' = reg /\ overtaken' = overtaken
      BY <1>2, <2>2 DEF Put
    <3>2. tools \in Versions
      BY <1>2, <3>1 DEF Versions, Bound
    <3> HIDE DEF tools
    <3>3. heap' \in Seq(Versions) /\ Len(heap') = Len(heap)
      BY <1>2, <3>1, <3>2, ExceptSeq
    <3> QED
      BY <1>2, <3>1, <3>3
  <2>3. CASE Return(w)
    <3>1. /\ heap' = heap /\ registry' = registry /\ overtaken' = overtaken
          /\ reg' = [reg EXCEPT ![w] = registry]
      BY <2>3 DEF Return
    <3> QED
      BY <1>2, <3>1
  <2>4. CASE Finish(w)
    <3>1. /\ heap' = heap /\ registry' = registry
          /\ overtaken' = [overtaken EXCEPT ![w] = FALSE]
          /\ reg' = [reg EXCEPT ![w] = 0]
      BY <2>4 DEF Finish
    <3> QED
      BY <1>2, <3>1
  <2>5. CASE \/ Start(w) \/ Lookup(w) \/ Hit(w) \/ ExecutesModules(w) \/ AsksServers(w)
             \/ Store(w) \/ StoreKey(w) \/ Check(w) \/ BuildFails(w)
             \/ Add(w) \/ AddRaises(w)
    <3>1. UNCHANGED <<heap, registry, reg, overtaken>>
      BY <2>5 DEF Start, Lookup, Hit, ExecutesModules, AsksServers, Fetches, Store,
                  StoreKey, Check, BuildFails, Add, AddRaises
    <3> QED
      BY <1>2, <3>1
  <2> QED
    BY <1>5, <2>1, <2>2, <2>3, <2>4, <2>5 DEF WorkerStep
<1>6. ASSUME NEW w \in Workers, WorkerStep(w) PROVE Places /\ Tools
  <2>1. ASSUME NEW tool \in Nat, Loaded(w, tool), key' = key PROVE Places /\ Tools
    BY <1>2, <2>1, LoadedFacts
  <2>2. CASE Hit(w)
    <3>1. cache[source[w]].tool \in Nat /\ key' = key
      BY <1>2, <2>2 DEF Hit
    <3>2. CASE LoadRaises(w)
      BY <1>2, <1>3, <3>1, <3>2 DEF LoadRaises, Points
    <3> QED
      BY <2>1, <2>2, <3>1, <3>2 DEF Hit
  <2>3. CASE StoreKey(w)
    <3>1. got[w][source[w]] \in Nat /\ key' = key
      BY <1>2, <2>3 DEF StoreKey, Versions
    <3> QED
      BY <2>1, <2>3, <3>1 DEF StoreKey
  <2>4. CASE ExecutesModules(w) \/ AsksServers(w)
    <3>1. source[w] \in Source /\ offered[source[w]] \in Nat
      BY <1>2 DEF Versions
    <3>2. PICK tool \in Nat : Fetches(w, tool)
      BY <2>4, <3>1 DEF ExecutesModules, AsksServers
    <3>3. [got[w] EXCEPT ![source[w]] = tool] \in Versions
      BY <1>2, <3>1 DEF Versions
    <3>4. got' = [got EXCEPT ![w] = [got[w] EXCEPT ![source[w]] = tool]]
      BY <3>2 DEF Fetches
    <3> QED
      BY <1>2, <3>2, <3>3, <3>4 DEF Fetches, Points
  <2>5. CASE Lookup(w)
    <3>1. source[w] \in Source
      BY <1>2
    <3>2. KeyOf(source[w]) \in Nat
      BY <1>3, <3>1
    <3>3. /\ key' = [key EXCEPT ![w] = KeyOf(source[w])]
          /\ pc' = [pc EXCEPT ![w] = "hit"] \/ pc' = [pc EXCEPT ![w] = "miss"]
          /\ UNCHANGED <<phase, source, got, bound>>
      BY <2>5 DEF Lookup
    <3>4. key' \in [Workers -> Nat]
      BY <1>2, <3>2, <3>3
    <3>5. pc' \in [Workers -> Points]
      BY <1>2, <3>3 DEF Points
    <3> QED
      BY <1>2, <3>3, <3>4, <3>5
  <2>6. CASE Start(w) \/ Store(w) \/ Check(w) \/ BuildFails(w) \/ Assign(w)
    <3>1. UNCHANGED <<source, key, bound>>
      BY <2>6 DEF Start, Store, Check, BuildFails, Assign
    <3>2. got' = got \/ got' = [got EXCEPT ![w] = NoTools]
      BY <2>6 DEF Start, Store, Check, BuildFails, Assign
    <3>3. phase' = phase \/ phase' = [phase EXCEPT ![w] = "names"]
      BY <2>6 DEF Start, Store, Check, BuildFails, Assign
    <3>4. pc' = pc \/ \E p \in Points : pc' = [pc EXCEPT ![w] = p]
      BY <2>6 DEF Start, Store, Check, BuildFails, Assign, Points
    <3>5. got' \in [Workers -> Versions]
      BY <1>2, <1>3, <3>2
    <3>6. phase' \in [Workers -> {"select", "names", "build"}]
      BY <1>2, <3>3
    <3>7. pc' \in [Workers -> Points]
      BY <1>2, <3>4
    <3> QED
      BY <1>2, <3>1, <3>5, <3>6, <3>7
  <2>7. CASE Add(w) \/ Put(w) \/ AddRaises(w) \/ Return(w) \/ Finish(w)
    <3>1. \/ source' = source
          \/ \E s \in {FirstSource, LastSource} : source' = [source EXCEPT ![w] = s]
      BY <2>7 DEF Add, Put, AddRaises, Return, Finish, NextBound
    <3>2. \E p \in Points : pc' = [pc EXCEPT ![w] = p]
      BY <2>7 DEF Add, Put, AddRaises, Return, Finish, NextBound, Points
    <3>3. /\ key' = key \/ key' = [key EXCEPT ![w] = 0]
          /\ phase' = phase \/ phase' = [phase EXCEPT ![w] = "select"]
          /\ got' = got \/ got' = [got EXCEPT ![w] = NoTools]
          /\ bound' = bound \/ bound' = [bound EXCEPT ![w] = NoTools]
      BY <2>7 DEF Add, Put, AddRaises, Return, Finish, NextBound
    <3>4. source' \in [Workers -> Source]
      <4>1. source \in [Workers -> Source] /\ {FirstSource, LastSource} \subseteq Source
        BY <1>2, <1>3
      <4> QED
        BY <3>1, <4>1
    <3>5. pc' \in [Workers -> Points]
      BY <1>2, <3>2
    <3>6. key' \in [Workers -> Nat]
      BY <1>2, <3>3
    <3>7. phase' \in [Workers -> {"select", "names", "build"}]
      BY <1>2, <3>3
    <3>8. got' \in [Workers -> Versions]
      BY <1>2, <1>3, <3>3
    <3>9. bound' \in [Workers -> Versions]
      BY <1>2, <1>3, <3>3
    <3> QED
      BY <3>4, <3>5, <3>6, <3>7, <3>8, <3>9
  <2> QED
    BY <1>6, <2>2, <2>3, <2>4, <2>5, <2>6, <2>7 DEF WorkerStep
<1>7. ASSUME NEW kind \in Kind, StartReset(kind) PROVE Globals /\ Heaps /\ Places /\ Tools
  <2>1. /\ registry' = registry \/ registry' = 0
        /\ \/ overtaken' = overtaken
           \/ overtaken' = [w \in Workers |-> pc[w] # "idle"]
    BY <1>7 DEF StartReset
  <2>2. UNCHANGED <<fresh, cache, heap, pc, phase, source, key, got, bound, reg>>
    BY <1>7 DEF StartReset
  <2>3. registry' \in 0..Len(heap)
    BY <1>2, <2>1
  <2>4. overtaken' \in [Workers -> BOOLEAN]
    BY <1>2, <2>1
  <2> QED
    BY <1>2, <2>2, <2>3, <2>4
<1>8. CASE ClearCache
  <2>1. cache' = [s \in Source |-> IF s = "mcp"
                                  THEN [cache[s] EXCEPT !.full = FALSE, !.tool = 0]
                                  ELSE cache[s]]
    BY <1>8 DEF ClearCache
  <2>2. \A s \in Source : cache'[s] \in Entry
    <3>1. ASSUME NEW s \in Source
          PROVE  [cache[s] EXCEPT !.full = FALSE, !.tool = 0] \in Entry /\ cache[s] \in Entry
      <4>1. cache[s] \in Entry
        BY <1>2
      <4> QED
        BY <4>1, EntryFacts
    <3> QED
      BY <2>1, <3>1
  <2>3. cache' \in [Source -> Entry]
    BY <2>1, <2>2
  <2> QED
    BY <1>2, <1>8, <2>3 DEF ClearCache, mine
<1>9. CASE ClearKey
  <2>1. cache' = [s \in Source |-> IF s = "mcp" THEN [cache[s] EXCEPT !.key = 0]
                                  ELSE cache[s]]
    BY <1>9 DEF ClearKey
  <2>2. \A s \in Source : cache'[s] \in Entry
    <3>1. ASSUME NEW s \in Source
          PROVE  [cache[s] EXCEPT !.key = 0] \in Entry /\ cache[s] \in Entry
      <4>1. cache[s] \in Entry
        BY <1>2
      <4> QED
        BY <4>1, EntryFacts
    <3> QED
      BY <2>1, <3>1
  <2>3. cache' \in [Source -> Entry]
    BY <2>1, <2>2
  <2>4. fresh' = offered \/ fresh' = fresh
    BY <1>9 DEF ClearKey
  <2> QED
    BY <1>2, <1>9, <2>3, <2>4 DEF ClearKey, mine
<1>10. CASE Change
  BY <1>2, <1>10 DEF Change, mine
<1>11. CASE RuntimeDone \/ UNCHANGED runtime
  BY <1>2, <1>11 DEF RuntimeDone, runtime, world, mine
<1> QED
  BY <1>4, <1>5, <1>6, <1>7, <1>8, <1>9, <1>10, <1>11 DEF RuntimeNext, WorkerStep

-----------------------------------------------------------------------------
(* The loop over the bound tools                                           *)

\* A worker of which nothing is asked any more, or still.
LEMMA LoopFrame ==
    ASSUME RuntimeTypeOK, FirstSource' = FirstSource, Source' = Source,
           NEW v \in Workers, LoopOK(v),
           \/ /\ pc'[v] \in {"check", "assign"}
              /\ source'[v] = FirstSource
           \/ pc'[v] \in {"idle", "load", "hit", "miss", "store", "storekey", "raised"}
           \/ /\ pc'[v] = pc[v] /\ source'[v] = source[v] /\ bound'[v] = bound[v]
              /\ reg'[v] = reg[v]
              /\ \/ /\ overtaken'[v] = overtaken[v] /\ registry' = registry
                 \/ overtaken'[v]
              /\ \A r \in 1..Len(heap), s \in Source : heap[r][s] # 0 => heap'[r][s] # 0
    PROVE  LoopOK(v)'
<1>1. /\ registry \in 0..Len(heap) /\ reg[v] \in 0..Len(heap)
      /\ FirstSource \in Source /\ Len(heap) \in Nat /\ pc[v] \in Points
  BY SourceFacts DEF RuntimeTypeOK
<1>2. CASE \/ /\ pc'[v] \in {"check", "assign"}
              /\ source'[v] = FirstSource
           \/ pc'[v] \in {"idle", "load", "hit", "miss", "store", "storekey", "raised"}
  <2>1. /\ pc'[v] \notin {"put", "add", "return", "run"}
        /\ pc'[v] \in {"check", "assign"} => source'[v] = FirstSource'
    BY <1>2
  <2> QED
    BY <2>1 DEF LoopOK
<1>3. CASE /\ pc'[v] = pc[v] /\ source'[v] = source[v] /\ bound'[v] = bound[v]
           /\ reg'[v] = reg[v]
           /\ \/ /\ overtaken'[v] = overtaken[v] /\ registry' = registry
              \/ overtaken'[v]
           /\ \A r \in 1..Len(heap), s \in Source : heap[r][s] # 0 => heap'[r][s] # 0
  <2>1. ASSUME NEW r \in 0..Len(heap), NEW s \in Source, Has(v, r, s)
        PROVE  bound'[v][s] # 0 => r # 0 /\ heap'[r][s] # 0
    BY <1>1, <1>3, <2>1 DEF Has
  <2>2. /\ pc'[v] \in {"check", "assign"} => source'[v] = FirstSource'
        /\ pc'[v] = "put" => bound'[v][source'[v]] # 0
    BY <1>3 DEF LoopOK
  <2>3. CASE overtaken'[v]
    BY <2>2, <2>3 DEF LoopOK
  <2>4. CASE ~overtaken'[v]
    <3>1. overtaken'[v] = overtaken[v] /\ registry' = registry
      BY <1>3, <2>4
    <3>2. /\ pc'[v] \in {"add", "put"} /\ source'[v] # FirstSource' =>
                Has(v, registry, FirstSource)'
          /\ pc'[v] = "return" => \A s \in Source : Has(v, registry, s)'
          /\ pc'[v] = "run" => \A s \in Source : Has(v, reg[v], s)'
      BY <1>1, <1>3, <2>1, <2>4, <3>1 DEF LoopOK, Has
    <3> QED
      BY <2>2, <3>2 DEF LoopOK
  <2> QED
    BY <2>3, <2>4
<1> QED
  BY <1>2, <1>3

\* The steps that change neither a registry nor which one is used.
LEMMA RegistryKept ==
    ASSUME RuntimeTypeOK, RegistryInv, FirstSource' = FirstSource, Source' = Source,
           UNCHANGED <<heap, registry, reg, overtaken>>,
           \A v \in Workers :
              \/ pc'[v] \in {"check", "assign"} /\ source'[v] = FirstSource
              \/ pc'[v] \in {"idle", "load", "hit", "miss", "store", "storekey", "raised"}
              \/ UNCHANGED <<pc[v], source[v], bound[v]>>
    PROVE  RegistryInv'
<1>1. ASSUME NEW v \in Workers PROVE LoopOK(v)'
  <2>1. LoopOK(v)
    BY DEF RegistryInv
  <2> QED
    BY <2>1, LoopFrame
<1> QED
  BY <1>1 DEF RegistryInv

\* The next turn of the loop over the bound tools.
LEMMA NextBoundOK ==
    ASSUME RuntimeTypeOK, FirstSource' = FirstSource, Source' = Source,
           NEW w \in Workers, LoopOK(w), pc[w] \in {"add", "put"}, NextBound(w),
           UNCHANGED <<registry, bound, overtaken>>,
           \A r \in 1..Len(heap), s \in Source : heap[r][s] # 0 => heap'[r][s] # 0,
           bound[w][source[w]] # 0 => registry # 0 /\ heap'[registry][source[w]] # 0
    PROVE  LoopOK(w)'
<1>1. /\ registry \in 0..Len(heap) /\ Len(heap) \in Nat
      /\ pc \in [Workers -> Points] /\ source \in [Workers -> Source]
      /\ source[w] \in Source
  BY DEF RuntimeTypeOK
<1>2. /\ FirstSource \in Source /\ LastSource \in Source
      /\ \A s \in Source : s = FirstSource \/ s = LastSource
  BY SourceFacts
<1>3. /\ source'[w] = IF source[w] = LastSource THEN FirstSource ELSE LastSource
      /\ pc'[w] = IF source[w] = LastSource THEN "return" ELSE "add"
  BY <1>1 DEF NextBound
<1>4. ASSUME NEW s \in Source, s = source[w] \/ Has(w, registry, s)
      PROVE  Has(w, registry, s)'
  BY <1>1, <1>4 DEF Has
<1>5. CASE source[w] = LastSource
  <2>1. ASSUME ~overtaken[w], NEW s \in Source PROVE Has(w, registry, s)'
    <3>1. s = source[w] \/ (s = FirstSource /\ source[w] # FirstSource)
      BY <1>2, <1>5
    <3> QED
      BY <1>4, <2>1, <3>1 DEF LoopOK
  <2> QED
    BY <1>3, <1>5, <2>1 DEF LoopOK
<1>6. CASE source[w] # LastSource
  <2>1. source[w] = FirstSource
    BY <1>1, <1>2, <1>6
  <2>2. Has(w, registry, FirstSource)'
    BY <1>1, <2>1 DEF Has
  <2> QED
    BY <1>3, <1>6, <2>2 DEF LoopOK
<1> QED
  BY <1>5, <1>6

\* Every step keeps what the loop over the bound tools has passed in the registry.
LEMMA RegistryStep ==
    ASSUME RuntimeTypeOK, RegistryInv, [RuntimeNext]_runtime
    PROVE  RegistryInv'
<1>1. /\ Source' = Source /\ FirstSource' = FirstSource /\ LastSource' = LastSource
  BY SourceStays
<1>2. /\ Source \in {{"file"}, {"mcp"}, {"file", "mcp"}}
      /\ heap \in Seq(Versions) /\ Len(heap) \in Nat /\ registry \in 0..Len(heap)
      /\ pc \in [Workers -> Points] /\ source \in [Workers -> Source]
      /\ got \in [Workers -> Versions] /\ bound \in [Workers -> Versions]
      /\ reg \in [Workers -> 0..Len(heap)]
      /\ overtaken \in [Workers -> BOOLEAN]
  BY DEF RuntimeTypeOK
<1>3. /\ FirstSource \in Source /\ LastSource \in Source
      /\ \A s \in Source : s = FirstSource \/ s = LastSource
  BY SourceFacts
<1>4. ASSUME NEW v \in Workers PROVE LoopOK(v)
  BY DEF RegistryInv
<1>5. ASSUME NEW w \in Workers, NEW tool \in Nat, Loaded(w, tool),
             UNCHANGED <<heap, registry, reg, overtaken>>
      PROVE  RegistryInv'
  <2>1. \A v \in Workers :
            \/ pc'[v] \in {"check", "assign"} /\ source'[v] = FirstSource
            \/ pc'[v] \in {"idle", "load", "hit", "miss", "store", "storekey", "raised"}
            \/ UNCHANGED <<pc[v], source[v], bound[v]>>
    BY <1>5, LoadedFacts
  <2> QED
    BY <1>1, <1>5, <2>1, RegistryKept
<1>6. ASSUME NEW w \in Workers,
             \/ Start(w) \/ Lookup(w) \/ ExecutesModules(w) \/ AsksServers(w)
             \/ Store(w) \/ AddRaises(w)
      PROVE  RegistryInv'
  <2>1. /\ UNCHANGED <<heap, registry, reg, overtaken, bound, source>>
        /\ \E p \in {"load", "hit", "miss", "store", "storekey", "raised"} :
              pc' = [pc EXCEPT ![w] = p]
    BY <1>6 DEF Start, Lookup, ExecutesModules, AsksServers, Fetches, Store, AddRaises
  <2>2. \A v \in Workers :
            \/ pc'[v] \in {"idle", "load", "hit", "miss", "store", "storekey", "raised"}
            \/ UNCHANGED <<pc[v], source[v], bound[v]>>
    BY <1>2, <2>1
  <2> QED
    BY <1>1, <2>1, <2>2, RegistryKept
<1>7. ASSUME NEW w \in Workers, Hit(w) \/ StoreKey(w) PROVE RegistryInv'
  <2>1. /\ UNCHANGED <<heap, registry, reg, overtaken>>
        /\ \/ \E tool \in Nat : Loaded(w, tool)
           \/ LoadRaises(w)
    <3>1. cache[source[w]].tool \in Nat /\ got[w][source[w]] \in Nat
      BY DEF RuntimeTypeOK, Versions
    <3> QED
      BY <1>7, <3>1 DEF Hit, StoreKey
  <2>2. CASE LoadRaises(w)
    <3>1. /\ pc' = [pc EXCEPT ![w] = IF phase[w] = "select" THEN "raised" ELSE "assign"]
          /\ source' = [source EXCEPT ![w] = FirstSource] /\ bound' = bound
      BY <2>2 DEF LoadRaises
    <3>2. \A v \in Workers :
              \/ pc'[v] \in {"check", "assign"} /\ source'[v] = FirstSource
              \/ pc'[v] \in {"idle", "load", "hit", "miss", "store", "storekey", "raised"}
              \/ UNCHANGED <<pc[v], source[v], bound[v]>>
      BY <1>2, <3>1
    <3> QED
      BY <1>1, <2>1, <3>2, RegistryKept
  <2> QED
    BY <1>5, <2>1, <2>2
<1>8. ASSUME NEW w \in Workers, Check(w) PROVE RegistryInv'
  <2>1. /\ pc[w] = "check" /\ pc' = [pc EXCEPT ![w] = IF registry = 0 THEN "load" ELSE "add"]
        /\ UNCHANGED <<heap, registry, reg, overtaken, bound, source>>
    BY <1>8 DEF Check
  <2>2. source[w] = FirstSource
    BY <1>4, <2>1 DEF LoopOK
  <2>3. ASSUME NEW v \in Workers PROVE LoopOK(v)'
    <3>1. CASE v = w /\ registry # 0
      <4>1. pc'[v] = "add" /\ source'[v] = FirstSource'
        BY <1>1, <1>2, <2>1, <2>2, <3>1
      <4> QED
        BY <4>1 DEF LoopOK
    <3>2. CASE v # w \/ registry = 0
      <4>1. pc'[v] = "load" \/ pc'[v] = pc[v]
        BY <1>2, <2>1, <3>2
      <4> QED
        BY <1>1, <1>4, <2>1, <4>1, LoopFrame
    <3> QED
      BY <3>1, <3>2
  <2> QED
    BY <2>3 DEF RegistryInv
<1>9. ASSUME NEW w \in Workers, BuildFails(w) PROVE RegistryInv'
  <2>1. UNCHANGED <<heap, registry, reg, overtaken, pc, bound, source>>
    BY <1>9 DEF BuildFails
  <2> QED
    BY <1>1, <2>1, RegistryKept
<1>10. ASSUME NEW w \in Workers, Assign(w) PROVE RegistryInv'
  <2>1. /\ pc[w] = "assign" /\ pc' = [pc EXCEPT ![w] = "add"]
        /\ heap' = Append(heap, got[w])
        /\ overtaken' = [v \in Workers |-> IF v = w THEN overtaken[v] ELSE pc[v] # "idle"]
        /\ UNCHANGED <<reg, bound, source>>
    BY <1>10 DEF Assign
  <2>2. \A r \in 1..Len(heap), s \in Source : heap[r][s] # 0 => heap'[r][s] # 0
    BY <1>2, <2>1
  <2>3. source[w] = FirstSource
    BY <1>4, <2>1 DEF LoopOK
  <2>4. ASSUME NEW v \in Workers PROVE LoopOK(v)'
    <3>1. CASE v = w
      <4>1. pc'[v] = "add" /\ source'[v] = FirstSource'
        BY <1>1, <1>2, <2>1, <2>3, <3>1
      <4> QED
        BY <4>1 DEF LoopOK
    <3>2. CASE v # w
      <4>1. pc'[v] = pc[v] /\ (pc[v] = "idle" \/ overtaken'[v] = TRUE)
        BY <1>2, <2>1, <3>2
      <4> QED
        BY <1>1, <1>4, <2>1, <2>2, <4>1, LoopFrame
    <3> QED
      BY <3>1, <3>2
  <2> QED
    BY <2>4 DEF RegistryInv
<1>11. ASSUME NEW w \in Workers, Add(w) \/ Put(w), NEW v \in Workers, v # w
       PROVE  /\ UNCHANGED <<registry, reg, bound, overtaken>>
              /\ pc'[v] = pc[v] /\ source'[v] = source[v]
  <2>1. UNCHANGED <<registry, reg, bound, overtaken>>
    BY <1>11 DEF Add, Put
  <2>2. /\ source' = source \/ \E s \in Source : source' = [source EXCEPT ![w] = s]
        /\ \E p \in Points : pc' = [pc EXCEPT ![w] = p]
    BY <1>3, <1>11 DEF Add, Put, NextBound, Points
  <2> QED
    BY <1>2, <1>11, <2>1, <2>2
<1>12. ASSUME NEW w \in Workers, Add(w) PROVE RegistryInv'
  <2>1. /\ pc[w] = "add" /\ UNCHANGED <<heap, registry, bound, overtaken>>
        /\ Bound(w) = 0 \/ registry # 0
    BY <1>12 DEF Add
  <2>2. LoopOK(w)'
    <3>1. CASE Bound(w) = 0 \/ heap[registry][source[w]] # 0
      <4>1. NextBound(w)
        BY <1>12, <3>1 DEF Add
      <4>2. bound[w][source[w]] # 0 => registry # 0 /\ heap'[registry][source[w]] # 0
        BY <2>1, <3>1 DEF Bound
      <4> QED
        BY <1>1, <1>4, <2>1, <4>1, <4>2, NextBoundOK
    <3>2. CASE ~(Bound(w) = 0 \/ heap[registry][source[w]] # 0)
      <4>1. pc' = [pc EXCEPT ![w] = "put"] /\ source' = source
        BY <1>12, <3>2 DEF Add
      <4>2. pc'[w] = "put" /\ bound[w][source[w]] # 0
        BY <1>2, <3>2, <4>1 DEF Bound
      <4>3. ~overtaken[w] /\ source[w] # FirstSource => Has(w, registry, FirstSource)
        BY <1>4, <2>1 DEF LoopOK
      <4> QED
        BY <1>1, <2>1, <4>1, <4>2, <4>3 DEF LoopOK, Has
    <3> QED
      BY <3>1, <3>2
  <2>3. ASSUME NEW v \in Workers, v # w PROVE LoopOK(v)'
    <3>1. /\ UNCHANGED <<registry, reg, bound, overtaken>>
          /\ pc'[v] = pc[v] /\ source'[v] = source[v]
      BY <1>11, <1>12, <2>3
    <3> QED
      BY <1>1, <1>4, <2>1, <3>1, LoopFrame
  <2> QED
    BY <2>2, <2>3 DEF RegistryInv
<1>13. ASSUME NEW w \in Workers, Put(w) PROVE RegistryInv'
  <2>1. /\ pc[w] = "put" /\ registry # 0 /\ UNCHANGED <<registry, bound, overtaken>>
        /\ heap' = [heap EXCEPT ![registry][source[w]] = Bound(w)] /\ NextBound(w)
    BY <1>13 DEF Put
  <2>2. Bound(w) # 0 /\ registry \in 1..Len(heap) /\ source[w] \in Source
    BY <1>2, <1>4, <2>1 DEF LoopOK, Bound
  <2>3. /\ \A r \in 1..Len(heap), s \in Source : heap[r][s] # 0 => heap'[r][s] # 0
        /\ heap'[registry][source[w]] # 0
    <3> DEFINE tools == [heap[registry] EXCEPT ![source[w]] = Bound(w)]
    <3>1. heap' = [heap EXCEPT ![registry] = tools] /\ heap[registry] \in Versions
      BY <1>2, <2>1, <2>2
    <3>2. /\ tools[source[w]] # 0
          /\ \A s \in Source : heap[registry][s] # 0 => tools[s] # 0
      BY <2>2, <3>1 DEF Versions
    <3> HIDE DEF tools
    <3>3. heap'[registry] = tools /\ \A r \in 1..Len(heap) : r # registry => heap'[r] = heap[r]
      BY <1>2, <2>2, <3>1
    <3> QED
      BY <3>2, <3>3
  <2>4. LoopOK(w)'
    BY <1>1, <1>4, <2>1, <2>3, NextBoundOK
  <2>5. ASSUME NEW v \in Workers, v # w PROVE LoopOK(v)'
    <3>1. /\ UNCHANGED <<registry, reg, bound, overtaken>>
          /\ pc'[v] = pc[v] /\ source'[v] = source[v]
      BY <1>11, <1>13, <2>5
    <3> QED
      BY <1>1, <1>4, <2>3, <3>1, LoopFrame
  <2> QED
    BY <2>4, <2>5 DEF RegistryInv
<1>14. ASSUME NEW w \in Workers, Return(w) PROVE RegistryInv'
  <2>1. /\ pc[w] = "return" /\ pc' = [pc EXCEPT ![w] = "run"]
        /\ reg' = [reg EXCEPT ![w] = registry]
        /\ UNCHANGED <<heap, registry, bound, source, overtaken>>
    BY <1>14 DEF Return
  <2>2. LoopOK(w)'
    <3>1. pc'[w] = "run" /\ reg'[w] = registry
      BY <1>2, <2>1
    <3>2. ~overtaken[w] => \A s \in Source : Has(w, registry, s)
      BY <1>4, <2>1 DEF LoopOK
    <3>3. ~overtaken'[w] => \A s \in Source : Has(w, reg[w], s)'
      BY <2>1, <3>1, <3>2 DEF Has
    <3> QED
      BY <1>1, <3>1, <3>3 DEF LoopOK
  <2>3. ASSUME NEW v \in Workers, v # w PROVE LoopOK(v)'
    <3>1. pc'[v] = pc[v] /\ reg'[v] = reg[v]
      BY <1>2, <2>1, <2>3
    <3> QED
      BY <1>1, <1>4, <2>1, <3>1, LoopFrame
  <2> QED
    BY <2>2, <2>3 DEF RegistryInv
<1>15. ASSUME NEW w \in Workers, Finish(w) PROVE RegistryInv'
  <2>1. /\ pc' = [pc EXCEPT ![w] = "idle"]
        /\ source' = [source EXCEPT ![w] = FirstSource]
        /\ bound' = [bound EXCEPT ![w] = NoTools] /\ reg' = [reg EXCEPT ![w] = 0]
        /\ overtaken' = [overtaken EXCEPT ![w] = FALSE]
        /\ UNCHANGED <<heap, registry>>
    BY <1>15 DEF Finish
  <2>2. ASSUME NEW v \in Workers PROVE LoopOK(v)'
    <3>1. pc'[w] = "idle"
      BY <1>2, <2>1
    <3>2. v # w => UNCHANGED <<pc[v], source[v], bound[v], reg[v], overtaken[v]>>
      BY <1>2, <2>1
    <3> QED
      BY <1>1, <1>4, <2>1, <3>1, <3>2, LoopFrame
  <2> QED
    BY <2>2 DEF RegistryInv
<1>16. ASSUME NEW kind \in Kind, StartReset(kind) PROVE RegistryInv'
  <2>1. /\ UNCHANGED <<heap, pc, source, bound, reg>>
        /\ \/ UNCHANGED <<registry, overtaken>>
           \/ overtaken' = [w \in Workers |-> pc[w] # "idle"]
    BY <1>16 DEF StartReset
  <2>2. ASSUME NEW v \in Workers PROVE LoopOK(v)'
    <3>1. \/ registry' = registry /\ overtaken'[v] = overtaken[v]
          \/ pc[v] = "idle" \/ overtaken'[v] = TRUE
      BY <1>2, <2>1
    <3> QED
      BY <1>1, <1>4, <2>1, <3>1, LoopFrame
  <2> QED
    BY <2>2 DEF RegistryInv
<1>17. CASE ClearCache \/ ClearKey \/ Change \/ RuntimeDone \/ UNCHANGED runtime
  <2>1. UNCHANGED <<heap, registry, reg, overtaken, pc, source, bound>>
    BY <1>17 DEF ClearCache, ClearKey, Change, RuntimeDone, runtime, mine
  <2> QED
    BY <1>1, <2>1, RegistryKept
<1> QED
  BY <1>6, <1>7, <1>8, <1>9, <1>10, <1>12, <1>13, <1>14, <1>15, <1>16, <1>17
     DEF RuntimeNext

-----------------------------------------------------------------------------
(* The key of the file tools                                               *)

\* A thread that loads the tools of servers has computed the one key they have.
LEMMA ServerKeyStep ==
    ASSUME RuntimeTypeOK, ServerKey, [RuntimeNext]_runtime
    PROVE  ServerKey'
<1> DEFINE Loading(p) == p \in {"hit", "miss", "store", "storekey"}
<1>1. /\ pc \in [Workers -> Points] /\ source \in [Workers -> Source]
      /\ key \in [Workers -> Nat]
  BY DEF RuntimeTypeOK
<1>2. ASSUME \A v \in Workers : \/ ~Loading(pc'[v])
                                \/ Loading(pc[v]) /\ UNCHANGED <<source[v], key[v]>>
      PROVE  ServerKey'
  BY <1>2 DEF ServerKey
<1>3. ASSUME NEW w \in Workers, WorkerStep(w) PROVE ServerKey'
  <2>1. CASE Lookup(w)
    <3>1. /\ key' = [key EXCEPT ![w] = KeyOf(source[w])]
          /\ source' = source /\ \E p \in Points : pc' = [pc EXCEPT ![w] = p]
      BY <2>1 DEF Lookup, Points
    <3>2. source[w] = "mcp" => KeyOf(source[w]) = 1
      BY DEF KeyOf
    <3> QED
      BY <1>1, <3>1, <3>2 DEF ServerKey
  <2>2. CASE ExecutesModules(w) \/ AsksServers(w) \/ Store(w)
    <3>1. /\ Loading(pc[w]) /\ UNCHANGED <<source, key>>
          /\ \E p \in Points : pc' = [pc EXCEPT ![w] = p]
      BY <2>2 DEF ExecutesModules, AsksServers, Fetches, Store, Points
    <3> QED
      BY <1>1, <1>2, <3>1
  <2>3. CASE Hit(w) \/ StoreKey(w)
    <3>1. key' = key /\ ((\E tool \in Nat : Loaded(w, tool)) \/ LoadRaises(w))
      <4>1. cache[source[w]].tool \in Nat /\ got[w][source[w]] \in Nat
        BY DEF RuntimeTypeOK, Versions
      <4> QED
        BY <2>3, <4>1 DEF Hit, StoreKey
    <3>2. /\ ~Loading(pc'[w])
          /\ \A v \in Workers \ {w} : pc'[v] = pc[v] /\ source'[v] = source[v]
      <4>1. ASSUME NEW tool \in Nat, Loaded(w, tool)
            PROVE  /\ ~Loading(pc'[w])
                   /\ \A v \in Workers \ {w} : pc'[v] = pc[v] /\ source'[v] = source[v]
        BY <4>1, LoadedFacts
      <4>2. CASE LoadRaises(w)
        BY <1>1, <4>2 DEF LoadRaises
      <4> QED
        BY <3>1, <4>1, <4>2
    <3> QED
      BY <1>2, <3>1, <3>2
  <2>4. CASE \/ Start(w) \/ Check(w) \/ BuildFails(w) \/ Assign(w)
             \/ Add(w) \/ Put(w) \/ AddRaises(w) \/ Return(w) \/ Finish(w)
    <3>1. \E p \in {pc[w], "load", "add", "put", "raised", "return", "run", "idle"} :
              pc' = [pc EXCEPT ![w] = p]
      BY <1>1, <2>4 DEF Start, Check, BuildFails, Assign, Add, Put, NextBound, AddRaises,
                        Return, Finish
    <3>2. ~Loading(pc[w])
      BY <2>4 DEF Start, Check, BuildFails, Assign, Add, Put, AddRaises, Return, Finish
    <3>3. \A v \in Workers \ {w} : UNCHANGED <<source[v], key[v]>>
      BY <1>1, <2>4 DEF Start, Check, BuildFails, Assign, Add, Put, NextBound, AddRaises,
                        Return, Finish
    <3> QED
      BY <1>1, <1>2, <3>1, <3>2, <3>3
  <2> QED
    BY <1>3, <2>1, <2>2, <2>3, <2>4 DEF WorkerStep
<1>4. ASSUME \/ \E kind \in Kind : StartReset(kind)
             \/ ClearCache \/ ClearKey \/ Change \/ RuntimeDone \/ UNCHANGED runtime
      PROVE  ServerKey'
  <2>1. UNCHANGED <<pc, source, key>>
    BY <1>4 DEF StartReset, ClearCache, ClearKey, Change, RuntimeDone, runtime, mine
  <2> QED
    BY <2>1 DEF ServerKey
<1> QED
  BY <1>3, <1>4 DEF RuntimeNext, WorkerStep

\* A step that leaves the cached file tools alone.
LEMMA FileFrame ==
    ASSUME RuntimeTypeOK, "file" \in Source, FileOK,
           cache'["file"] = cache["file"],
           offered'["file"] \in Nat, offered["file"] <= offered'["file"],
           \A v \in Workers :
              \/ UNCHANGED <<pc[v], source[v], key[v], got[v], bound[v]>>
              \/ pc'[v] \notin {"hit", "miss", "store", "storekey", "check"}
              \/ LoadOK(v)' /\ (Loads(v, "file")' => Loads(v, "file"))
    PROVE  FileOK'
<1>1. /\ cache["file"] \in [full : BOOLEAN, tool : Nat, key : Nat]
      /\ offered["file"] \in Nat /\ key \in [Workers -> Nat]
  BY DEF RuntimeTypeOK, Versions
<1>2. ASSUME NEW v \in Workers PROVE LoadOK(v)' /\ (Loads(v, "file")' => Loads(v, "file"))
  <2>1. CASE UNCHANGED <<pc[v], source[v], key[v], got[v], bound[v]>>
    <3>1. LoadOK(v)
      BY DEF FileOK
    <3>2. Loads(v, "file")' <=> Loads(v, "file")
      BY <2>1 DEF Loads
    <3>3. key[v] \in Nat
      BY <1>1
    <3> QED
      BY <1>1, <2>1, <3>1, <3>2, <3>3 DEF LoadOK, KeyOK
  <2>2. CASE pc'[v] \notin {"hit", "miss", "store", "storekey", "check"}
    BY <2>2 DEF LoadOK, KeyOK, Loads
  <2> QED
    BY <2>1, <2>2
<1>3. Alone'
  <2>1. Alone
    BY DEF FileOK
  <2> QED
    BY <1>2, <2>1 DEF Alone
<1>4. /\ cache'["file"].key <= cache'["file"].tool + 1
      /\ cache'["file"].key <= offered'["file"] + 1
  BY <1>1 DEF FileOK
<1> QED
  BY <1>2, <1>3, <1>4 DEF FileOK

\* What a load of any source leaves bound is as new as its key.
LEMMA LoadedIsBound ==
    ASSUME RuntimeTypeOK, ServerKey, "file" \in Source,
           NEW w \in Workers, NEW tool \in Nat, Loaded(w, tool),
           pc[w] \in {"hit", "storekey"}, UNCHANGED key,
           source[w] = "file" => key[w] <= tool + 1
    PROVE  LoadOK(w)' /\ ~Loads(w, "file")'
<1>1. /\ pc'[w] \in {"load", "check", "assign"}
      /\ pc'[w] = "check" => bound'[w] = got'[w]
      /\ got'[w] = [got[w] EXCEPT ![source[w]] = tool]
      /\ got' \in [Workers -> Versions]
  BY LoadedFacts
<1>2. /\ source[w] \in Source /\ Source \in {{"file"}, {"mcp"}, {"file", "mcp"}}
      /\ got[w] \in Versions /\ key[w] \in Nat
  BY DEF RuntimeTypeOK
<1>3. got'[w]["file"] \in Nat
  BY <1>1 DEF Versions
<1>4. key[w] <= got'[w]["file"] + 1
  <2>1. CASE source[w] = "file"
    <3>1. got'[w]["file"] = tool
      BY <1>1, <1>2, <2>1 DEF Versions
    <3> QED
      BY <2>1, <3>1
  <2>2. CASE source[w] = "mcp"
    <3>1. key[w] = 1
      BY <2>2 DEF ServerKey
    <3> QED
      BY <1>3, <3>1
  <2> QED
    BY <1>2, <2>1, <2>2
<1>5. pc'[w] = "check" => key'[w] <= bound'[w]["file"] + 1
  BY <1>1, <1>4
<1> QED
  BY <1>1, <1>5 DEF LoadOK, KeyOK, Loads

\* Every step keeps file tools no older than the key they are cached under.
LEMMA FileStep ==
    ASSUME RuntimeTypeOK, ServerKey, FileInv, [RuntimeNext]_runtime
    PROVE  FileInv'
<1>1. Source' = Source /\ offered' \in Versions /\ \A s \in Source : offered[s] <= offered'[s]
  BY SourceStays
<1>2. crowded \subseteq crowded'
  <2>1. ASSUME NEW w \in Workers, WorkerStep(w) PROVE crowded \subseteq crowded'
    BY <2>1 DEF WorkerStep, Start, Lookup, Hit, ExecutesModules, AsksServers, Fetches, Store,
                StoreKey, Check, BuildFails, Assign, Add, Put, AddRaises, Return, Finish
  <2>2. ASSUME \/ \E kind \in Kind : StartReset(kind)
               \/ ClearCache \/ ClearKey \/ Change \/ RuntimeDone \/ UNCHANGED runtime
        PROVE  crowded \subseteq crowded'
    BY <2>2 DEF StartReset, ClearCache, ClearKey, Change, RuntimeDone, runtime
  <2> QED
    BY <2>1, <2>2 DEF RuntimeNext, WorkerStep
<1> SUFFICES ASSUME "file" \in Source, crowded' = {} PROVE FileOK'
  BY <1>1 DEF FileInv
<1>3. crowded = {} /\ FileOK
  BY <1>2 DEF FileInv
<1>4. /\ offered'["file"] \in Nat /\ offered["file"] <= offered'["file"]
      /\ offered["file"] \in Nat
  BY <1>1 DEF RuntimeTypeOK, Versions
<1>5. /\ cache \in [Source -> [full : BOOLEAN, tool : Nat, key : Nat]]
      /\ cache["file"] \in [full : BOOLEAN, tool : Nat, key : Nat]
      /\ pc \in [Workers -> Points] /\ source \in [Workers -> Source]
      /\ key \in [Workers -> Nat] /\ got \in [Workers -> Versions]
      /\ bound \in [Workers -> Versions]
  BY DEF RuntimeTypeOK
<1>6. ASSUME NEW v \in Workers PROVE LoadOK(v)
  BY <1>3 DEF FileOK
<1>7. ASSUME NEW w \in Workers, Lookup(w) PROVE FileOK'
  <2> DEFINE s == source[w]
             hit == cache[s].full /\ cache[s].key = KeyOf(s)
  <2>1. /\ pc[w] = "load" /\ key' = [key EXCEPT ![w] = KeyOf(s)]
        /\ pc' = [pc EXCEPT ![w] = IF hit THEN "hit" ELSE "miss"]
        /\ ~hit => ~\E v \in Workers : Loads(v, s)
        /\ UNCHANGED <<offered, cache, source, got, bound>>
    BY <1>7 DEF Lookup, world
  <2>2. /\ key'[w] = KeyOf(s) /\ pc'[w] = IF hit THEN "hit" ELSE "miss"
        /\ \A v \in Workers : v # w => UNCHANGED <<pc[v], key[v]>>
    BY <1>5, <2>1
  <2>3. CASE s = "file"
    <3>1. KeyOf(s) = offered["file"] + 1
      BY <2>3 DEF KeyOf
    <3>2. /\ cache["file"].key <= cache["file"].tool + 1
          /\ cache["file"].key <= offered["file"] + 1
      BY <1>3 DEF FileOK
    <3> HIDE DEF s
    <3>3. LoadOK(w)'
      BY <1>4, <1>5, <2>1, <2>2, <2>3, <3>1, <3>2 DEF LoadOK, KeyOK, Loads, s
    <3>4. ASSUME NEW v \in Workers, v # w PROVE LoadOK(v)'
      <4>1. UNCHANGED <<pc[v], key[v], source[v], got[v], bound[v], cache, offered>>
        BY <2>1, <2>2, <3>4
      <4> QED
        BY <1>6, <4>1 DEF LoadOK, KeyOK, Loads
    <3>5. Alone'
      <4>1. \A v \in Workers : v # w => (Loads(v, "file")' <=> Loads(v, "file"))
        BY <2>1, <2>2 DEF Loads
      <4>2. Loads(w, "file")' => ~\E v \in Workers : Loads(v, "file")
        BY <2>1, <2>2, <2>3 DEF Loads
      <4>3. Alone
        BY <1>3 DEF FileOK
      <4> QED
        BY <4>1, <4>2, <4>3 DEF Alone
    <3> QED
      BY <2>1, <3>2, <3>3, <3>4, <3>5 DEF FileOK
  <2>4. CASE s # "file"
    <3>1. LoadOK(w)' /\ ~Loads(w, "file")'
      BY <2>1, <2>2, <2>4 DEF LoadOK, Loads
    <3>2. \A v \in Workers :
              \/ UNCHANGED <<pc[v], source[v], key[v], got[v], bound[v]>>
              \/ LoadOK(v)' /\ (Loads(v, "file")' => Loads(v, "file"))
      BY <2>1, <2>2, <3>1
    <3> QED
      BY <1>3, <1>4, <2>1, <3>2, FileFrame
  <2> QED
    BY <2>3, <2>4
<1>8. ASSUME NEW w \in Workers, ExecutesModules(w) \/ AsksServers(w) PROVE FileOK'
  <2>1. PICK tool : Fetches(w, tool) /\ (source[w] = "file" => tool = offered["file"])
    BY <1>8 DEF ExecutesModules, AsksServers
  <2>2. /\ pc[w] = "miss" /\ pc'[w] = "store"
        /\ got' = [got EXCEPT ![w][source[w]] = tool]
        /\ \A v \in Workers : v # w => UNCHANGED <<pc[v], got[v]>>
        /\ UNCHANGED <<offered, cache, source, key, bound>>
    BY <1>5, <1>8, <2>1 DEF Fetches, ExecutesModules, AsksServers, world
  <2>3. Loads(w, source[w])
    BY <2>2 DEF Loads
  <2>4. LoadOK(w)'
    <3>1. CASE source[w] = "file"
      <4>1. /\ cache["file"].key <= key[w] /\ key[w] <= offered["file"] + 1
        BY <1>6, <2>3, <3>1 DEF LoadOK, KeyOK
      <4>2. got'[w]["file"] = offered["file"]
        <5>1. got[w] \in [Source -> Nat]
          BY <1>5 DEF Versions
        <5> QED
          BY <1>5, <2>1, <2>2, <3>1, <5>1
      <4> QED
        BY <2>2, <4>1, <4>2 DEF LoadOK, KeyOK
    <3>2. CASE source[w] # "file"
      BY <2>2, <3>2 DEF LoadOK
    <3> QED
      BY <3>1, <3>2
  <2>5. \A v \in Workers :
            \/ UNCHANGED <<pc[v], source[v], key[v], got[v], bound[v]>>
            \/ LoadOK(v)' /\ (Loads(v, "file")' => Loads(v, "file"))
    BY <2>2, <2>3, <2>4 DEF Loads
  <2> QED
    BY <1>3, <1>4, <2>2, <2>5, FileFrame
<1>9. ASSUME NEW w \in Workers, Store(w) PROVE FileOK'
  <2>1. /\ pc[w] = "store" /\ pc' = [pc EXCEPT ![w] = "storekey"]
        /\ cache' = [cache EXCEPT ![source[w]] =
                        [full |-> TRUE, tool |-> got[w][source[w]], key |-> cache[source[w]].key]]
        /\ UNCHANGED <<offered, source, key, got, bound>>
    BY <1>9 DEF Store, world
  <2>2. /\ pc'[w] = "storekey"
        /\ \A v \in Workers : v # w => pc'[v] = pc[v]
    BY <1>5, <2>1
  <2>3. CASE source[w] = "file"
    <3>1. Loads(w, "file")
      BY <2>1, <2>3 DEF Loads
    <3>2. /\ cache["file"].key <= key[w] /\ key[w] <= offered["file"] + 1
          /\ key[w] <= got[w]["file"] + 1
      BY <1>6, <2>1, <2>3, <3>1 DEF LoadOK, KeyOK
    <3>3. /\ cache'["file"].tool = got[w]["file"] /\ cache'["file"].key = cache["file"].key
      BY <1>5, <2>1, <2>3
    <3>4. LoadOK(w)'
      BY <2>1, <2>2, <2>3, <3>2, <3>3 DEF LoadOK, KeyOK
    <3>5. ASSUME NEW v \in Workers, v # w PROVE LoadOK(v)'
      <4>1. ~Loads(v, "file")
        BY <1>3, <3>1, <3>5 DEF FileOK, Alone
      <4>2. UNCHANGED <<pc[v], key[v], source[v], got[v], bound[v]>>
        BY <2>1, <2>2, <3>5
      <4> QED
        BY <1>6, <2>1, <3>3, <4>1, <4>2 DEF LoadOK, KeyOK, Loads
    <3>6. Alone'
      <4>1. \A v \in Workers : Loads(v, "file")' => Loads(v, "file")
        BY <2>1, <2>2 DEF Loads
      <4>2. Alone
        BY <1>3 DEF FileOK
      <4> QED
        BY <4>1, <4>2 DEF Alone
    <3>7. /\ cache'["file"].key <= cache'["file"].tool + 1
          /\ cache'["file"].key <= offered'["file"] + 1
      <4>1. key[w] \in Nat /\ got[w]["file"] \in Nat /\ cache["file"].key \in Nat
        BY <1>5 DEF Versions
      <4> QED
        BY <1>4, <2>1, <3>2, <3>3, <4>1
    <3> QED
      BY <3>4, <3>5, <3>6, <3>7 DEF FileOK
  <2>4. CASE source[w] # "file"
    <3>1. cache'["file"] = cache["file"]
      BY <1>5, <2>1, <2>4
    <3>2. LoadOK(w)' /\ ~Loads(w, "file")'
      BY <2>1, <2>2, <2>4 DEF LoadOK, Loads
    <3>3. \A v \in Workers :
              \/ UNCHANGED <<pc[v], source[v], key[v], got[v], bound[v]>>
              \/ LoadOK(v)' /\ (Loads(v, "file")' => Loads(v, "file"))
      BY <2>1, <2>2, <3>2
    <3> QED
      BY <1>3, <1>4, <3>1, <3>3, FileFrame
  <2> QED
    BY <2>3, <2>4
<1>10. ASSUME NEW w \in Workers, StoreKey(w) PROVE FileOK'
  <2> DEFINE tool == got[w][source[w]]
  <2>1. /\ pc[w] = "storekey" /\ Loaded(w, tool) /\ tool \in Nat
        /\ cache' = [cache EXCEPT ![source[w]].key = key[w]]
        /\ UNCHANGED <<offered, key>>
    BY <1>5, <1>10 DEF StoreKey, world, Versions
  <2>2. \A v \in Workers \ {w} : UNCHANGED <<pc[v], source[v], got[v], bound[v]>>
    BY <2>1, LoadedFacts
  <2>3. source[w] = "file" => key[w] <= got[w]["file"] + 1
    BY <1>6, <2>1 DEF LoadOK, KeyOK
  <2>4. LoadOK(w)' /\ ~Loads(w, "file")'
    BY <2>1, <2>3, LoadedIsBound
  <2>5. CASE source[w] = "file"
    <3>1. Loads(w, "file")
      BY <2>1, <2>5 DEF Loads
    <3>2. /\ cache["file"].key <= key[w] /\ key[w] <= offered["file"] + 1
          /\ cache["file"].tool = got[w]["file"]
      BY <1>6, <2>1, <2>5, <3>1 DEF LoadOK, KeyOK
    <3>3. cache'["file"].tool = cache["file"].tool /\ cache'["file"].key = key[w]
      BY <1>5, <2>1, <2>5
    <3>4. ASSUME NEW v \in Workers, v # w PROVE LoadOK(v)'
      <4>1. ~Loads(v, "file")
        BY <1>3, <3>1, <3>4 DEF FileOK, Alone
      <4>2. UNCHANGED <<pc[v], key[v], source[v], got[v], bound[v]>>
        BY <2>1, <2>2, <3>4
      <4>3. key[v] \in Nat /\ key[w] \in Nat /\ cache["file"].key \in Nat
        BY <1>5
      <4> QED
        BY <1>6, <2>1, <3>2, <3>3, <4>1, <4>2, <4>3 DEF LoadOK, KeyOK, Loads
    <3>5. Alone'
      <4>1. \A v \in Workers : Loads(v, "file")' => Loads(v, "file")
        BY <2>2, <2>4 DEF Loads
      <4>2. Alone
        BY <1>3 DEF FileOK
      <4> QED
        BY <4>1, <4>2 DEF Alone
    <3> QED
      BY <2>1, <2>3, <2>4, <2>5, <3>2, <3>3, <3>4, <3>5 DEF FileOK
  <2>6. CASE source[w] # "file"
    <3>1. cache'["file"] = cache["file"]
      BY <1>5, <2>1, <2>6
    <3>2. \A v \in Workers :
              \/ UNCHANGED <<pc[v], source[v], key[v], got[v], bound[v]>>
              \/ LoadOK(v)' /\ (Loads(v, "file")' => Loads(v, "file"))
      BY <2>1, <2>2, <2>4
    <3> QED
      BY <1>3, <1>4, <3>1, <3>2, FileFrame
  <2> QED
    BY <2>5, <2>6
<1>11. ASSUME NEW w \in Workers, Hit(w) PROVE FileOK'
  <2> DEFINE tool == cache[source[w]].tool
  <2>1. /\ pc[w] = "hit" /\ tool \in Nat
        /\ Loaded(w, tool) \/ LoadRaises(w)
        /\ UNCHANGED <<offered, cache, key>>
    BY <1>5, <1>11 DEF Hit, world
  <2>2. CASE Loaded(w, tool)
    <3>1. \A v \in Workers \ {w} : UNCHANGED <<pc[v], source[v], got[v], bound[v]>>
      BY <2>1, <2>2, LoadedFacts
    <3>2. source[w] = "file" => key[w] <= tool + 1
      <4> SUFFICES ASSUME source[w] = "file" PROVE key[w] <= tool + 1
        OBVIOUS
      <4>1. key[w] <= cache["file"].key
        BY <1>6, <2>1 DEF LoadOK, KeyOK
      <4>2. cache["file"].key <= tool + 1
        BY <1>3 DEF FileOK
      <4> QED
        BY <1>5, <4>1, <4>2
    <3>3. LoadOK(w)' /\ ~Loads(w, "file")'
      BY <2>1, <2>2, <3>2, LoadedIsBound
    <3>4. \A v \in Workers :
              \/ UNCHANGED <<pc[v], source[v], key[v], got[v], bound[v]>>
              \/ LoadOK(v)' /\ (Loads(v, "file")' => Loads(v, "file"))
      BY <2>1, <3>1, <3>3
    <3> QED
      BY <1>3, <1>4, <2>1, <3>4, FileFrame
  <2>3. CASE LoadRaises(w)
    <3>1. /\ pc'[w] \in {"raised", "assign"}
          /\ \A v \in Workers : v # w => UNCHANGED <<pc[v], source[v], got[v], bound[v]>>
      BY <1>5, <2>3 DEF LoadRaises
    <3>2. \A v \in Workers :
              \/ UNCHANGED <<pc[v], source[v], key[v], got[v], bound[v]>>
              \/ pc'[v] \notin {"hit", "miss", "store", "storekey", "check"}
      BY <2>1, <3>1
    <3> QED
      BY <1>3, <1>4, <2>1, <3>2, FileFrame
  <2> QED
    BY <2>1, <2>2, <2>3
<1>12. ASSUME NEW w \in Workers,
              \/ Start(w) \/ Check(w) \/ BuildFails(w) \/ Assign(w)
              \/ Add(w) \/ Put(w) \/ AddRaises(w) \/ Return(w) \/ Finish(w)
       PROVE  FileOK'
  <2>1. \E p \in {pc[w], "load", "add", "put", "raised", "return", "run", "idle"} :
            pc' = [pc EXCEPT ![w] = p]
    BY <1>5, <1>12 DEF Start, Check, BuildFails, Assign, Add, Put, NextBound, AddRaises,
                       Return, Finish
  <2>2. pc'[w] \notin {"hit", "miss", "store", "storekey", "check"}
    <3>1. pc[w] \in {"hit", "miss", "store", "storekey", "check"} => Check(w)
      BY <1>12 DEF Start, BuildFails, Assign, Add, Put, AddRaises, Return, Finish
    <3>2. Check(w) => pc' = [pc EXCEPT ![w] = IF registry = 0 THEN "load" ELSE "add"]
      BY DEF Check
    <3> QED
      BY <1>5, <2>1, <3>1, <3>2
  <2>3. /\ \A v \in Workers : v # w => UNCHANGED <<source[v], key[v], got[v], bound[v]>>
        /\ cache' = cache
    BY <1>5, <1>12 DEF Start, Check, BuildFails, Assign, Add, Put, NextBound, AddRaises,
                       Return, Finish
  <2>4. \A v \in Workers :
            \/ UNCHANGED <<pc[v], source[v], key[v], got[v], bound[v]>>
            \/ pc'[v] \notin {"hit", "miss", "store", "storekey", "check"}
    BY <1>5, <2>1, <2>2, <2>3
  <2> QED
    BY <1>3, <1>4, <2>3, <2>4, FileFrame
<1>13. ASSUME \/ \E kind \in Kind : StartReset(kind)
              \/ ClearCache \/ ClearKey \/ Change \/ RuntimeDone \/ UNCHANGED runtime
       PROVE  FileOK'
  <2>1. UNCHANGED <<pc, source, key, got, bound>>
    BY <1>13 DEF StartReset, ClearCache, ClearKey, Change, RuntimeDone, runtime, mine
  <2>2. cache'["file"] = cache["file"]
    BY <1>5, <1>13 DEF StartReset, ClearCache, ClearKey, Change, RuntimeDone, runtime
  <2> QED
    BY <1>3, <1>4, <2>1, <2>2, FileFrame
<1> QED
  BY <1>7, <1>8, <1>9, <1>10, <1>11, <1>12, <1>13 DEF RuntimeNext

-----------------------------------------------------------------------------
(* Resets                                                                  *)

\* A worker's step leaves the others where they are and what they have.
LEMMA WorkerFrame ==
    ASSUME RuntimeTypeOK, NEW w \in Workers, WorkerStep(w)
    PROVE  /\ \A v \in Workers : v # w =>
                 UNCHANGED <<pc[v], got[v], bound[v], reg[v]>>
           /\ UNCHANGED <<fresh, reset>>
           /\ pc[w] = "idle" => Start(w)
           /\ pc'[w] = "idle" => Finish(w)
<1>1. /\ pc \in [Workers -> Points] /\ got \in [Workers -> Versions]
      /\ bound \in [Workers -> Versions] /\ reg \in [Workers -> 0..Len(heap)]
  BY DEF RuntimeTypeOK
<1>2. CASE Hit(w) \/ StoreKey(w)
  <2>1. /\ UNCHANGED <<reg, fresh, reset>> /\ pc[w] # "idle"
        /\ (\E tool \in Nat : Loaded(w, tool)) \/ LoadRaises(w)
    <3>1. cache[source[w]].tool \in Nat /\ got[w][source[w]] \in Nat
      BY DEF RuntimeTypeOK, Versions
    <3> QED
      BY <1>2, <3>1 DEF Hit, StoreKey, world
  <2>2. ASSUME NEW tool \in Nat, Loaded(w, tool)
        PROVE  /\ \A v \in Workers : v # w => UNCHANGED <<pc[v], got[v], bound[v]>>
               /\ pc'[w] # "idle"
    BY <2>2, LoadedFacts
  <2>3. CASE LoadRaises(w)
    <3>1. /\ \A v \in Workers : v # w => UNCHANGED <<pc[v], got[v], bound[v]>>
          /\ pc'[w] # "idle"
      BY <1>1, <2>3 DEF LoadRaises
    <3> QED
      BY <2>1, <3>1
  <2> QED
    BY <2>1, <2>2, <2>3
<1>3. CASE \/ Start(w) \/ Lookup(w) \/ ExecutesModules(w) \/ AsksServers(w)
           \/ Store(w) \/ Check(w) \/ BuildFails(w) \/ Assign(w)
           \/ Add(w) \/ Put(w) \/ AddRaises(w) \/ Return(w) \/ Finish(w)
  <2>1. /\ UNCHANGED <<fresh, reset>>
        /\ pc[w] = "idle" => Start(w)
    BY <1>3 DEF Start, Lookup, ExecutesModules, AsksServers, Fetches, Store, Check,
                BuildFails, Assign, Add, Put, AddRaises, Return, Finish, world
  <2>2. /\ \E p \in Points : pc' = [pc EXCEPT ![w] = p] /\ (p = "idle" => Finish(w))
        /\ bound' = bound \/ bound' = [bound EXCEPT ![w] = NoTools]
        /\ reg' = reg \/ \E r : reg' = [reg EXCEPT ![w] = r]
    BY <1>1, <1>3 DEF Start, Lookup, ExecutesModules, AsksServers, Fetches, Store, Check,
                BuildFails, Assign, Add, Put, NextBound, AddRaises, Return, Finish, Points
  <2>3. \A v \in Workers : v # w => got'[v] = got[v]
    BY <1>1, <1>3 DEF Start, Lookup, ExecutesModules, AsksServers, Fetches, Store, Check,
                BuildFails, Assign, Add, Put, AddRaises, Return, Finish
  <2> QED
    BY <1>1, <2>1, <2>2, <2>3
<1> QED
  BY <1>2, <1>3 DEF WorkerStep

\* A department that finishes lets go of what it held.
LEMMA IdleStep ==
    ASSUME RuntimeTypeOK, IdleInv, [RuntimeNext]_runtime
    PROVE  IdleInv'
<1>1. /\ pc \in [Workers -> Points] /\ got \in [Workers -> Versions]
      /\ bound \in [Workers -> Versions] /\ reg \in [Workers -> 0..Len(heap)]
  BY DEF RuntimeTypeOK
<1>2. NoTools' = NoTools
  BY SourceStays
<1>3. ASSUME NEW w \in Workers, WorkerStep(w), NEW v \in Workers, pc'[v] = "idle"
      PROVE  got'[v] = NoTools /\ bound'[v] = NoTools /\ reg'[v] = 0
  <2>1. CASE v # w
    <3>1. UNCHANGED <<pc[v], got[v], bound[v], reg[v]>>
      BY <1>3, <2>1, WorkerFrame
    <3> QED
      BY <1>3, <3>1 DEF IdleInv
  <2>2. CASE v = w
    <3>1. Finish(w)
      BY <1>3, <2>2, WorkerFrame
    <3> QED
      BY <1>1, <2>2, <3>1 DEF Finish
  <2> QED
    BY <2>1, <2>2
<1>4. ASSUME \/ \E kind \in Kind : StartReset(kind)
             \/ ClearCache \/ ClearKey \/ Change \/ RuntimeDone \/ UNCHANGED runtime
      PROVE  UNCHANGED <<pc, got, bound, reg>>
  BY <1>4 DEF StartReset, ClearCache, ClearKey, Change, RuntimeDone, runtime, mine
<1>5. CASE \E w \in Workers : WorkerStep(w)
  BY <1>2, <1>3, <1>5 DEF IdleInv
<1>6. CASE \/ \E kind \in Kind : StartReset(kind)
           \/ ClearCache \/ ClearKey \/ Change \/ RuntimeDone \/ UNCHANGED runtime
  BY <1>2, <1>4, <1>6 DEF IdleInv
<1> QED
  BY <1>5, <1>6 DEF RuntimeNext, WorkerStep

\* A reset stays quiet only while no department runs, and keeps what it has removed.
LEMMA ResetStep ==
    ASSUME RuntimeTypeOK, ResetInv, [RuntimeNext]_runtime
    PROVE  ResetInv'
<1>1. Source' = Source
  BY SourceStays
<1>2. cache \in [Source -> [full : BOOLEAN, tool : Nat, key : Nat]]
  BY DEF RuntimeTypeOK
<1>3. ASSUME NEW w \in Workers, WorkerStep(w) PROVE ResetInv'
  <2>1. reset' = reset /\ (pc[w] = "idle" => Start(w))
    BY <1>3, WorkerFrame
  <2>2. CASE Start(w)
    BY <2>1, <2>2 DEF ResetInv, Start
  <2>3. CASE ~Start(w)
    <3>1. ~AllIdle
      BY <2>1, <2>3 DEF AllIdle
    <3>2. quiet' = quiet
      BY <1>3, <2>3 DEF WorkerStep, Lookup, Hit, ExecutesModules, AsksServers, Fetches, Store,
                StoreKey, Check, BuildFails, Assign, Add, Put, AddRaises, Return, Finish,
                world
    <3> QED
      BY <2>1, <3>1, <3>2 DEF ResetInv
  <2> QED
    BY <2>2, <2>3
<1>4. ASSUME NEW kind \in Kind, StartReset(kind) PROVE ResetInv'
  <2>1. /\ reset' = [kind |-> kind, at |-> "cache"] /\ quiet' = AllIdle /\ pc' = pc
        /\ kind = "factory" => registry' = 0
    BY <1>4 DEF StartReset
  <2>2. reset' \in [kind : Kind, at : {"done", "cache", "key"}]
    BY <2>1
  <2> QED
    BY <2>1, <2>2 DEF ResetInv, AllIdle
<1>5. CASE ClearCache
  <2>1. /\ reset.at = "cache" /\ reset' = [reset EXCEPT !.at = "key"]
        /\ UNCHANGED <<quiet, registry, pc>>
        /\ cache' = [s \in Source |-> IF s = "mcp"
                                     THEN [cache[s] EXCEPT !.full = FALSE, !.tool = 0]
                                     ELSE cache[s]]
    BY <1>5 DEF ClearCache, mine
  <2>2. /\ reset' \in [kind : Kind, at : {"done", "cache", "key"}]
        /\ reset'.kind = reset.kind
    BY <2>1 DEF ResetInv
  <2>3. "mcp" \in Source => ~cache'["mcp"].full
    <3> SUFFICES ASSUME "mcp" \in Source PROVE ~cache'["mcp"].full
      OBVIOUS
    <3>1. cache'["mcp"] = [cache["mcp"] EXCEPT !.full = FALSE, !.tool = 0]
      BY <2>1
    <3> QED
      BY <1>2, <3>1
  <2> QED
    BY <1>1, <2>1, <2>2, <2>3 DEF ResetInv, AllIdle
<1>6. CASE ClearKey
  <2>1. reset' = [reset EXCEPT !.at = "done"]
    BY <1>6 DEF ClearKey
  <2> QED
    BY <2>1 DEF ResetInv
<1>7. CASE Change \/ RuntimeDone \/ UNCHANGED runtime
  <2>1. UNCHANGED <<reset, quiet, pc, registry, cache>>
    BY <1>7 DEF Change, RuntimeDone, runtime, world, mine
  <2> QED
    BY <1>1, <2>1 DEF ResetInv, AllIdle
<1> QED
  BY <1>3, <1>4, <1>5, <1>6, <1>7 DEF RuntimeNext, WorkerStep

\* No step brings back a tool of a server from before the last quiet reset.
LEMMA FreshStep ==
    ASSUME RuntimeTypeOK, FreshInv, IdleInv, ResetInv, [RuntimeNext]_runtime
    PROVE  FreshInv'
<1>1. /\ Source' = Source /\ offered' \in Versions
      /\ \A s \in Source : offered[s] <= offered'[s]
  BY SourceStays
<1> SUFFICES ASSUME "mcp" \in Source
             PROVE  (fresh["mcp"] <= offered["mcp"] /\ CacheFresh /\ HeapFresh /\ HeldFresh)'
  BY <1>1 DEF FreshInv
<1>2. fresh["mcp"] <= offered["mcp"] /\ CacheFresh /\ HeapFresh /\ HeldFresh
  BY DEF FreshInv
<1>3. /\ offered["mcp"] \in Nat /\ offered'["mcp"] \in Nat /\ fresh["mcp"] \in Nat
      /\ offered["mcp"] <= offered'["mcp"]
  BY <1>1 DEF RuntimeTypeOK, Versions
<1>4. /\ Source \in {{"file"}, {"mcp"}, {"file", "mcp"}}
      /\ cache \in [Source -> [full : BOOLEAN, tool : Nat, key : Nat]]
      /\ heap \in Seq(Versions) /\ Len(heap) \in Nat /\ registry \in 0..Len(heap)
      /\ pc \in [Workers -> Points] /\ source \in [Workers -> Source]
      /\ got \in [Workers -> Versions] /\ bound \in [Workers -> Versions]
      /\ reg \in [Workers -> 0..Len(heap)]
  BY DEF RuntimeTypeOK
<1>5. NoTools["mcp"] = 0 /\ Enough(fresh["mcp"], 0)
  BY DEF NoTools, Enough
<1>6. ASSUME NEW w \in Workers, WorkerStep(w)
      PROVE  /\ fresh' = fresh
             /\ fresh'["mcp"] <= offered'["mcp"]
             /\ \A v \in Workers : v # w => UNCHANGED <<pc[v], got[v], bound[v], reg[v]>>
  <2>1. /\ fresh' = fresh
        /\ \A v \in Workers : v # w => UNCHANGED <<pc[v], got[v], bound[v], reg[v]>>
    BY <1>6, WorkerFrame
  <2> QED
    BY <1>2, <1>3, <2>1
<1>7. ASSUME NEW w \in Workers, WorkerStep(w) PROVE CacheFresh'
  <2>1. CASE Store(w)
    <3>1. /\ cache' = [cache EXCEPT ![source[w]] =
                          [full |-> TRUE, tool |-> got[w][source[w]], key |-> cache[source[w]].key]]
      BY <2>1 DEF Store
    <3>2. /\ source[w] = "mcp" => cache'["mcp"].tool = got[w]["mcp"]
          /\ source[w] # "mcp" => cache'["mcp"] = cache["mcp"]
      BY <1>4, <3>1
    <3>3. fresh' = fresh /\ Enough(fresh["mcp"], got[w]["mcp"])
      BY <1>2, <1>6, <1>7 DEF HeldFresh
    <3> QED
      BY <1>2, <3>2, <3>3 DEF CacheFresh, Enough
  <2>2. CASE ~Store(w)
    <3>1. /\ cache'["mcp"].tool = cache["mcp"].tool
          /\ cache'["mcp"].full <=> cache["mcp"].full
      <4>1. CASE StoreKey(w)
        <5>1. cache' = [cache EXCEPT ![source[w]].key = key[w]]
          BY <4>1 DEF StoreKey
        <5> QED
          BY <1>4, <5>1
      <4>2. CASE ~StoreKey(w)
        BY <1>7, <2>2, <4>2 DEF WorkerStep, Start, Lookup, Hit, ExecutesModules, AsksServers,
           Fetches, Check, BuildFails, Assign, Add, Put, AddRaises, Return, Finish
      <4> QED
        BY <4>1, <4>2
    <3>2. fresh' = fresh
      BY <1>6, <1>7
    <3> QED
      BY <1>2, <3>1, <3>2 DEF CacheFresh, Enough
  <2> QED
    BY <2>1, <2>2
<1>8. ASSUME NEW w \in Workers, WorkerStep(w) PROVE HeldFresh'
  <2>1. fresh' = fresh /\ \A v \in Workers : v # w => UNCHANGED <<got[v], bound[v]>>
    BY <1>6, <1>8
  <2>2. Enough(fresh["mcp"], got[w]["mcp"]) /\ Enough(fresh["mcp"], bound[w]["mcp"])
    BY <1>2 DEF HeldFresh
  <2> SUFFICES Enough(fresh["mcp"], got'[w]["mcp"]) /\ Enough(fresh["mcp"], bound'[w]["mcp"])
    BY <1>2, <2>1 DEF HeldFresh, Enough
  <2>3. ASSUME NEW tool \in Nat, Loaded(w, tool),
               source[w] = "mcp" => Enough(fresh["mcp"], tool)
        PROVE  Enough(fresh["mcp"], got'[w]["mcp"]) /\ Enough(fresh["mcp"], bound'[w]["mcp"])
    <3>1. got'[w] = [got[w] EXCEPT ![source[w]] = tool] /\ bound'[w] \in {bound[w], got'[w]}
      BY <2>3, LoadedFacts
    <3>2. got'[w]["mcp"] = IF source[w] = "mcp" THEN tool ELSE got[w]["mcp"]
      <4>1. got[w] \in [Source -> Nat]
        BY <1>4 DEF Versions
      <4> QED
        BY <3>1, <4>1
    <3>3. Enough(fresh["mcp"], got'[w]["mcp"])
      BY <2>2, <2>3, <3>2
    <3> QED
      BY <2>2, <3>1, <3>3
  <2>4. CASE Hit(w)
    <3>1. CASE cache[source[w]].full
      <4>1. Loaded(w, cache[source[w]].tool) /\ cache[source[w]].tool \in Nat
        BY <1>4, <2>4, <3>1 DEF Hit
      <4>2. source[w] = "mcp" => Enough(fresh["mcp"], cache[source[w]].tool)
        BY <1>2, <3>1 DEF CacheFresh
      <4> QED
        BY <2>3, <4>1, <4>2
    <3>2. CASE ~cache[source[w]].full
      <4>1. got' = [got EXCEPT ![w] = NoTools] /\ bound' = bound
        BY <2>4, <3>2 DEF Hit, LoadRaises
      <4>2. got'[w] = NoTools
        BY <1>4, <4>1
      <4> QED
        BY <1>5, <2>2, <4>1, <4>2
    <3> QED
      BY <3>1, <3>2
  <2>5. CASE StoreKey(w)
    <3>1. Loaded(w, got[w][source[w]]) /\ got[w][source[w]] \in Nat
      BY <1>4, <2>5 DEF StoreKey, Versions
    <3> QED
      BY <2>2, <2>3, <3>1
  <2>6. CASE ExecutesModules(w) \/ AsksServers(w)
    <3>1. PICK tool : /\ Fetches(w, tool)
                      /\ source[w] = "mcp" => tool \in {0, offered["mcp"]}
      BY <2>6 DEF ExecutesModules, AsksServers
    <3>2. got' = [got EXCEPT ![w][source[w]] = tool] /\ bound' = bound
      BY <3>1 DEF Fetches
    <3>3. got'[w]["mcp"] = IF source[w] = "mcp" THEN tool ELSE got[w]["mcp"]
      <4>1. got[w] \in [Source -> Nat]
        BY <1>4 DEF Versions
      <4> QED
        BY <1>4, <3>2, <4>1
    <3>4. Enough(fresh["mcp"], 0) /\ Enough(fresh["mcp"], offered["mcp"])
      BY <1>2, <1>3 DEF Enough
    <3> QED
      BY <2>2, <3>1, <3>2, <3>3, <3>4
  <2>7. CASE \/ Start(w) \/ Lookup(w) \/ Store(w) \/ Check(w) \/ BuildFails(w) \/ Assign(w)
             \/ Add(w) \/ Put(w) \/ AddRaises(w) \/ Return(w) \/ Finish(w)
    <3>1. /\ got' = got \/ got' = [got EXCEPT ![w] = NoTools]
          /\ bound' = bound \/ bound' = [bound EXCEPT ![w] = NoTools]
      BY <2>7 DEF Start, Lookup, Store, Check, BuildFails, Assign, Add, Put, AddRaises,
                  Return, Finish
    <3>2. got'[w] \in {got[w], NoTools} /\ bound'[w] \in {bound[w], NoTools}
      BY <1>4, <3>1
    <3> QED
      BY <1>5, <2>2, <3>2
  <2> QED
    BY <1>8, <2>4, <2>5, <2>6, <2>7 DEF WorkerStep
<1>9. ASSUME NEW w \in Workers, WorkerStep(w) PROVE HeapFresh'
  <2>1. fresh' = fresh /\ \A v \in Workers : v # w => reg'[v] = reg[v]
    BY <1>6, <1>9
  <2>2. Enough(fresh["mcp"], got[w]["mcp"]) /\ Enough(fresh["mcp"], bound[w]["mcp"])
    BY <1>2 DEF HeldFresh
  <2>3. /\ registry # 0 => Enough(fresh["mcp"], heap[registry]["mcp"])
        /\ \A v \in Workers : reg[v] # 0 => Enough(fresh["mcp"], heap[reg[v]]["mcp"])
    BY <1>2 DEF HeapFresh
  <2> SUFFICES /\ registry' # 0 => Enough(fresh["mcp"], heap'[registry']["mcp"])
               /\ \A v \in Workers :
                     reg'[v] # 0 => Enough(fresh["mcp"], heap'[reg'[v]]["mcp"])
    BY <2>1 DEF HeapFresh
  <2>4. CASE Assign(w)
    <3>1. heap' = Append(heap, got[w]) /\ registry' = Len(heap') /\ reg' = reg
      BY <2>4 DEF Assign
    <3>2. /\ Len(heap') = Len(heap) + 1 /\ heap'[registry'] = got[w]
          /\ \A r \in 1..Len(heap) : heap'[r] = heap[r]
      BY <1>4, <3>1
    <3>3. \A v \in Workers : reg[v] # 0 => reg[v] \in 1..Len(heap)
      BY <1>4
    <3> QED
      BY <2>2, <2>3, <3>1, <3>2, <3>3
  <2>5. CASE Put(w)
    <3>1. /\ registry # 0 /\ registry' = registry /\ reg' = reg
          /\ heap' = [heap EXCEPT ![registry][source[w]] = bound[w][source[w]]]
      BY <2>5 DEF Put, Bound
    <3>2. registry \in 1..Len(heap)
      BY <1>4, <3>1
    <3>3. heap[registry] \in [Source -> Nat] /\ registry \in 1..Len(heap)
      <4>1. heap \in Seq(Versions)
        BY <1>4
      <4>2. heap[registry] \in Versions
        BY <3>2, <4>1, ElementOfSeq
      <4> QED
        BY <3>2, <4>2 DEF Versions
    <3>4. \A r \in 1..Len(heap) :
              \/ heap'[r]["mcp"] = heap[r]["mcp"]
              \/ heap'[r]["mcp"] = bound[w]["mcp"]
      BY <1>4, <3>1, <3>3
    <3>5. \A v \in Workers : reg[v] # 0 => reg[v] \in 1..Len(heap)
      BY <1>4
    <3> QED
      BY <2>2, <2>3, <3>1, <3>3, <3>4, <3>5
  <2>6. CASE Return(w)
    <3>1. heap' = heap /\ registry' = registry /\ reg' = [reg EXCEPT ![w] = registry]
      BY <2>6 DEF Return
    <3>2. \A v \in Workers : reg'[v] \in {reg[v], registry}
      BY <1>4, <3>1
    <3> QED
      BY <2>3, <3>1, <3>2
  <2>7. CASE Finish(w)
    <3>1. heap' = heap /\ registry' = registry /\ reg' = [reg EXCEPT ![w] = 0]
      BY <2>7 DEF Finish
    <3>2. \A v \in Workers : reg'[v] \in {reg[v], 0}
      BY <1>4, <3>1
    <3> QED
      BY <2>3, <3>1, <3>2
  <2>8. CASE \/ Start(w) \/ Lookup(w) \/ Hit(w) \/ ExecutesModules(w) \/ AsksServers(w)
             \/ Store(w) \/ StoreKey(w) \/ Check(w) \/ BuildFails(w)
             \/ Add(w) \/ AddRaises(w)
    <3>1. UNCHANGED <<heap, registry, reg>>
      BY <2>8 DEF Start, Lookup, Hit, ExecutesModules, AsksServers, Fetches, Store,
                  StoreKey, Check, BuildFails, Add, AddRaises
    <3> QED
      BY <2>3, <3>1
  <2> QED
    BY <1>9, <2>4, <2>5, <2>6, <2>7, <2>8 DEF WorkerStep
<1>10. ASSUME NEW kind \in Kind, StartReset(kind)
       PROVE  (fresh["mcp"] <= offered["mcp"] /\ CacheFresh /\ HeapFresh /\ HeldFresh)'
  <2>1. /\ UNCHANGED <<fresh, offered, cache, heap, got, bound, reg>>
        /\ registry' \in {0, registry}
    BY <1>10 DEF StartReset
  <2> QED
    BY <1>2, <2>1 DEF CacheFresh, HeapFresh, HeldFresh, Enough
<1>11. ASSUME ClearCache
       PROVE  (fresh["mcp"] <= offered["mcp"] /\ CacheFresh /\ HeapFresh /\ HeldFresh)'
  <2>1. /\ UNCHANGED <<fresh, offered, heap, registry, got, bound, reg>>
        /\ cache' = [s \in Source |-> IF s = "mcp"
                                     THEN [cache[s] EXCEPT !.full = FALSE, !.tool = 0]
                                     ELSE cache[s]]
    BY <1>11 DEF ClearCache, mine
  <2>2. cache'["mcp"].tool = 0
    <3>1. cache'["mcp"] = [cache["mcp"] EXCEPT !.full = FALSE, !.tool = 0]
      BY <2>1
    <3> QED
      BY <1>4, <3>1
  <2> QED
    BY <1>2, <2>1, <2>2 DEF CacheFresh, HeapFresh, HeldFresh, Enough
<1>12. ASSUME ClearKey
       PROVE  (fresh["mcp"] <= offered["mcp"] /\ CacheFresh /\ HeapFresh /\ HeldFresh)'
  <2>1. /\ UNCHANGED <<offered, heap, registry, got, bound, reg, pc>>
        /\ reset.at = "key"
        /\ cache' = [s \in Source |-> IF s = "mcp" THEN [cache[s] EXCEPT !.key = 0]
                                     ELSE cache[s]]
        /\ fresh' = IF quiet /\ reset.kind = "factory" THEN offered ELSE fresh
    BY <1>12 DEF ClearKey, mine
  <2>2. /\ cache'["mcp"].full <=> cache["mcp"].full
        /\ cache'["mcp"].tool = cache["mcp"].tool
    <3>1. cache'["mcp"] = [cache["mcp"] EXCEPT !.key = 0]
      BY <2>1
    <3> QED
      BY <1>4, <3>1
  <2>3. CASE quiet /\ reset.kind = "factory"
    <3>1. AllIdle /\ registry = 0 /\ ~cache["mcp"].full
      BY <2>1, <2>3 DEF ResetInv
    <3>2. \A w \in Workers : got[w] = NoTools /\ bound[w] = NoTools /\ reg[w] = 0
      BY <3>1 DEF AllIdle, IdleInv
    <3>3. CacheFresh'
      BY <2>2, <3>1 DEF CacheFresh
    <3>4. HeapFresh'
      BY <2>1, <3>1, <3>2 DEF HeapFresh
    <3>5. HeldFresh'
      <4>1. \A w \in Workers : got'[w]["mcp"] = 0 /\ bound'[w]["mcp"] = 0
        BY <1>5, <2>1, <3>2
      <4> QED
        BY <4>1 DEF HeldFresh, Enough
    <3>6. fresh'["mcp"] <= offered'["mcp"]
      BY <1>3, <2>1, <2>3
    <3> QED
      BY <3>3, <3>4, <3>5, <3>6
  <2>4. CASE ~(quiet /\ reset.kind = "factory")
    <3>1. fresh' = fresh
      BY <2>1, <2>4
    <3> QED
      BY <1>2, <2>1, <2>2, <3>1 DEF CacheFresh, HeapFresh, HeldFresh, Enough
  <2> QED
    BY <2>3, <2>4
<1>13. ASSUME Change \/ RuntimeDone \/ UNCHANGED runtime
       PROVE  (fresh["mcp"] <= offered["mcp"] /\ CacheFresh /\ HeapFresh /\ HeldFresh)'
  <2>1. UNCHANGED <<fresh, cache, heap, registry, got, bound, reg>>
    BY <1>13 DEF Change, RuntimeDone, runtime, world, mine
  <2>2. fresh'["mcp"] <= offered'["mcp"]
    BY <1>2, <1>3, <2>1
  <2> QED
    BY <1>2, <2>1, <2>2 DEF CacheFresh, HeapFresh, HeldFresh, Enough
<1> QED
  BY <1>6, <1>7, <1>8, <1>9, <1>10, <1>11, <1>12, <1>13 DEF RuntimeNext, WorkerStep

-----------------------------------------------------------------------------
(* What holds of the tools of the process                                  *)

\* The first state is in the invariant.
LEMMA RuntimeInvInit == RuntimeInit => RuntimeInv
<1> SUFFICES ASSUME RuntimeInit PROVE RuntimeInv
  OBVIOUS
<1>1. RuntimeTypeOK
  BY RuntimeTypeInit
<1>2. /\ \A w \in Workers : /\ pc[w] = "idle" /\ got[w] = NoTools /\ bound[w] = NoTools
                            /\ reg[w] = 0
      /\ fresh = NoTools /\ registry = 0 /\ quiet = FALSE
      /\ reset = [kind |-> "graph", at |-> "done"]
      /\ cache = [s \in Source |-> [full |-> FALSE, tool |-> 0, key |-> 0]]
  BY DEF RuntimeInit
<1>3. RegistryInv /\ ServerKey
  BY <1>2 DEF RegistryInv, LoopOK, ServerKey
<1>4. FileInv
  <2> SUFFICES ASSUME "file" \in Source PROVE FileOK
    BY DEF FileInv
  <2>1. cache["file"].key = 0 /\ cache["file"].tool = 0
    BY <1>2
  <2>2. offered["file"] \in Nat
    BY <1>1 DEF RuntimeTypeOK, Versions
  <2>3. \A w \in Workers : LoadOK(w) /\ ~Loads(w, "file")
    BY <1>2 DEF LoadOK, KeyOK, Loads
  <2> QED
    BY <2>1, <2>2, <2>3 DEF FileOK, Alone
<1>5. FreshInv
  <2> SUFFICES ASSUME "mcp" \in Source
               PROVE  fresh["mcp"] <= offered["mcp"] /\ CacheFresh /\ HeapFresh /\ HeldFresh
    BY DEF FreshInv
  <2>1. NoTools["mcp"] = 0 /\ offered["mcp"] \in Nat
    BY <1>1 DEF NoTools, RuntimeTypeOK, Versions
  <2>2. cache["mcp"].tool = 0
    BY <1>2
  <2> QED
    BY <1>2, <2>1, <2>2 DEF CacheFresh, HeapFresh, HeldFresh, Enough
<1>6. IdleInv
  BY <1>2 DEF IdleInv
<1>7. ResetInv
  BY <1>2 DEF ResetInv, Kind
<1> QED
  BY <1>1, <1>3, <1>4, <1>5, <1>6, <1>7 DEF RuntimeInv

\* Whatever departments, resets, edits and servers do meanwhile: what the loop of
\* _registry_for has passed is in the registry, file tools are no older than their
\* key, and nothing held, cached or registered of a server is older than the last
\* quiet reset (tools.py:230-296, mcp_client.py:122-172, subagents.py:243-271,
\* agent_factory.py:235-248).
THEOREM RuntimeInvariant == RuntimeSpec => []RuntimeInv
<1>1. RuntimeInv /\ [RuntimeNext]_runtime => RuntimeInv'
  <2> SUFFICES ASSUME RuntimeInv, [RuntimeNext]_runtime PROVE RuntimeInv'
    OBVIOUS
  <2>1. /\ RuntimeTypeOK /\ RegistryInv /\ ServerKey /\ FileInv /\ FreshInv
        /\ IdleInv /\ ResetInv
    BY DEF RuntimeInv
  <2>2. RuntimeTypeOK' /\ RegistryInv'
    BY <2>1, RuntimeTypeStep, RegistryStep
  <2>3. ServerKey' /\ FileInv'
    BY <2>1, ServerKeyStep, FileStep
  <2>4. FreshInv' /\ IdleInv' /\ ResetInv'
    BY <2>1, FreshStep, IdleStep, ResetStep
  <2> QED
    BY <2>2, <2>3, <2>4 DEF RuntimeInv
<1> QED
  BY <1>1, RuntimeInvInit, PTL DEF RuntimeSpec

\* A department that no other thread overtakes can call every tool it is bound to,
\* whatever the registry it found had in it (subagents.py:243-271, _registry_for).
THEOREM UndisturbedIsCallable == RuntimeSpec => []UndisturbedCallable
<1>1. RuntimeInv => UndisturbedCallable
  BY DEF RuntimeInv, RegistryInv, LoopOK, Has, UndisturbedCallable, Callable
<1> QED
  BY <1>1, RuntimeInvariant, PTL

\* The file tools a department is bound to are no older than the hash of tools/ it
\* took, unless two threads have loaded them at once (tools.py:240-291,
\* load_dynamic_tools).
THEOREM LoadsAreCurrent == RuntimeSpec => []LoadedIsCurrent
<1>1. RuntimeInv => LoadedIsCurrent
  <2> SUFFICES ASSUME RuntimeInv, NEW w \in Workers,
                      pc[w] = "check", source[w] = "file", crowded = {}
               PROVE  bound[w]["file"] + 1 >= key[w]
    BY DEF LoadedIsCurrent
  <2>1. source[w] \in Source /\ key[w] \in Nat /\ bound[w] \in Versions
    BY DEF RuntimeInv, RuntimeTypeOK
  <2>2. bound[w]["file"] \in Nat
    BY <2>1 DEF Versions
  <2>3. key[w] <= bound[w]["file"] + 1
    BY <2>1 DEF RuntimeInv, FileInv, FileOK, LoadOK
  <2> QED
    BY <2>1, <2>2, <2>3
<1> QED
  BY <1>1, RuntimeInvariant, PTL

\* After the factory's reset, taken while no department ran, no department is bound
\* to an older tool of a server or reaches one (agent_factory.py:235-248,
\* reset_deep_agent).
THEOREM FactoryResetsAreFresh == RuntimeSpec => []FactoryResetIsFresh
<1>1. RuntimeInv => FactoryResetIsFresh
  <2> SUFFICES ASSUME RuntimeInv, NEW w \in Workers, NEW s \in Source \cap {"mcp"},
                      NEW tool \in {bound[w][s]} \cup {heap[r][s] : r \in {reg[w]} \ {0}}
               PROVE  tool = 0 \/ tool >= fresh[s]
    BY DEF FactoryResetIsFresh
  <2>1. HeapFresh /\ HeldFresh /\ s = "mcp"
    BY DEF RuntimeInv, FreshInv
  <2>2. tool = bound[w]["mcp"] \/ (reg[w] # 0 /\ tool = heap[reg[w]]["mcp"])
    BY <2>1
  <2> QED
    BY <2>1, <2>2 DEF HeapFresh, HeldFresh, Enough
<1> QED
  BY <1>1, RuntimeInvariant, PTL
=============================================================================
