------------------------------ MODULE Workspace ------------------------------
(***************************************************************************)
(* The files of the workspace under the file tools (tools.py) of several   *)
(* department threads.  No lock guards them: write_file truncates, then    *)
(* writes; edit_file reads, truncates, then writes.  The threads are those *)
(* of the departments of one turn or of several: one that was given up at  *)
(* its deadline goes on, into the next turn and past a "Clear Workspace".  *)
(*                                                                         *)
(* A text is a short sequence of words.  Writing puts the words of a       *)
(* buffer over those at the start of the file and leaves the rest, as a    *)
(* file opened by two writers shows.                                       *)
(***************************************************************************)
EXTENDS Guardrails, FiniteSets

CONSTANTS
    Departments,    \* each is asked once, in one turn or another
    Roots,          \* where WORKSPACE_ROOT may be
    Paths,          \* paths the models give to the tools
    Word, Other,    \* edit_file looks for Word and puts Other in its place
    MaxWords,       \* bound on the words of a text
    Texts,          \* texts given to write_file
    MaxCalls,       \* bound on the file calls of all departments
    MaxClears,      \* bound on the user's clears
    Absent          \* no file

ASSUME WorkspaceAssumption ==
    /\ MaxCalls \in Nat /\ MaxClears \in Nat /\ MaxWords \in Nat
    /\ Texts \subseteq BoundedSeq({Word, Other}, MaxWords)
    /\ Word # Other /\ Absent \notin Seq({Word, Other}) \cup Departments
    /\ \A r \in Roots : r \in Seq(STRING) /\ Real(Links, r)
    /\ Paths \subseteq [absolute : BOOLEAN, names : Seq(STRING)]

VARIABLES
    root,       \* get_workspace_root()
    links,      \* the symbolic links there are
    place,      \* per path: what write_file and edit_file make of it now
    files,      \* per location: its text or Absent
    dept,       \* per department: "none", "asked", "answered"; then "folded" into the
                \* parent's channels, "lost" or "given_up"
    thread,     \* per department: the call its thread is in
    calls,      \* file calls made
    ops,        \* per department the parent waits for: its write_ops, each with its
                \* path and the file (history) that led to when the call was made
    spoilt,     \* those of them with a write_op whose path is not a string
    told,       \* pending_writes: what the parent has been told
    clearing,   \* entries the clear under way has still to look at
    clears,     \* clears begun
    expected,   \* history: the texts as calls one after another would leave them
    raced,      \* history: files two calls, or a call and a clear, had open together
    writer      \* history: the department that changed a file last

vars == <<root, links, place, files, dept, thread, calls, ops, spoilt, told,
          clearing, clears, expected, raced, writer>>

-----------------------------------------------------------------------------
Idle == [at |-> "idle"]

\* The entry of the workspace itself, not of a directory in it
TopLevel(r, at) == IsPrefix(r, at) /\ Len(at) = Len(r) + 1

\* Whatever a path may mean under a root, however many of the root's own links
\* a clear has left
Reachable(r) ==
    LET own == {at \in DOMAIN Links : TopLevel(r, at)}
    IN  (UNION {{WritePath(Remaining(DOMAIN Links \ gone), p, r) : p \in Paths} :
                   gone \in SUBSET own}) \ {Denied}
Locations == DOMAIN files

\* content.replace(search_text, replace_text)
Replaced(text) == [i \in DOMAIN text |-> IF text[i] = Word THEN Other ELSE text[i]]

\* Mutated form of Over: the text is added at the end.
OverAdds(text, buffer) == text \o buffer

\* Bytes written at the start of a file that may be longer
Over(text, buffer) ==
    buffer \o SubSeq(text, Len(buffer) + 1, Len(text))

HasWord(f) == IF files[f] = Absent THEN FALSE ELSE Word \in Range(files[f])

Uses(d, f) == thread[d].at # "idle" /\ thread[d].file = f
InUse(f) == \E d \in Departments : Uses(d, f)

Contents == BoundedSeq({Word, Other}, MaxWords)

Threads ==
    {Idle} \cup [at : {"loaded"}, file : Locations, text : Contents]
    \cup [at : {"open"}, file : Locations, text : Contents, new : BOOLEAN,
          linked : BOOLEAN]

Ops == [path : Paths, file : Locations \cup {Denied}]

TypeOK ==
    /\ root \in Roots
    /\ DOMAIN links \subseteq DOMAIN Links /\ links = Remaining(DOMAIN links)
    /\ DOMAIN place = Paths /\ \A p \in Paths : place[p] \in Locations \cup {Denied}
    /\ files \in [Locations -> Contents \cup {Absent}]
    /\ expected \in [Locations -> Contents \cup {Absent}]
    /\ writer \in [Locations -> Departments \cup {Absent}]
    /\ dept \in [Departments ->
                    {"none", "asked", "answered", "folded", "lost", "given_up"}]
    /\ thread \in [Departments -> Threads]
    /\ calls \in 0 .. MaxCalls
    /\ ops \in [Departments -> SUBSET Ops] /\ spoilt \subseteq Departments
    /\ told \subseteq Ops
    /\ clearing \subseteq Locations \cup DOMAIN links /\ clears \in 0 .. MaxClears
    /\ raced \subseteq Locations

\* Earlier sessions have left nothing, or the same text in every file that may
\* be there
Init ==
    /\ root \in Roots
    /\ links = Links
    /\ place = [p \in Paths |-> WritePath(Links, p, root)]
    /\ \E left \in Texts \cup {Absent} :
          files = [f \in Reachable(root) |-> IF Real(Links, f) THEN left ELSE Absent]
    /\ dept = [d \in Departments |-> "none"]
    /\ thread = [d \in Departments |-> Idle]
    /\ calls = 0
    /\ ops = [d \in Departments |-> {}] /\ spoilt = {}
    /\ told = {}
    /\ clearing = {} /\ clears = 0
    /\ expected = files
    /\ raced = {}
    /\ writer = [f \in Locations |-> Absent]

-----------------------------------------------------------------------------
(* Turns and deadlines *)

\* The next turn asks some departments, when the fanout of the one before is over
StartTurn(asked) ==
    /\ \A d \in Departments : dept[d] \notin {"asked", "answered"}
    /\ asked # {} /\ \A d \in asked : dept[d] = "none"
    /\ dept' = [d \in Departments |-> IF d \in asked THEN "asked" ELSE dept[d]]
    /\ UNCHANGED <<root, links, place, files, thread, calls, ops, spoilt, told, clearing,
                   clears, expected, raced, writer>>

\* run_department returns, and its SubagentRun waits for the others
Answers(d) ==
    /\ dept[d] = "asked" /\ thread[d].at = "idle"
    /\ dept' = [dept EXCEPT ![d] = "answered"]
    /\ UNCHANGED <<root, links, place, files, thread, calls, ops, spoilt, told, clearing,
                   clears, expected, raced, writer>>

\* A default SubagentRun is reported in its place, and its write_ops go nowhere
Forgotten(d, outcome) ==
    /\ dept[d] = "asked"
    /\ dept' = [dept EXCEPT ![d] = outcome]
    /\ ops' = [ops EXCEPT ![d] = {}] /\ spoilt' = spoilt \ {d}
    /\ UNCHANGED <<root, links, place, files, thread, calls, told, clearing, clears,
                   expected, raced, writer>>

\* ... or it raises
Fails(d) == thread[d].at = "idle" /\ Forgotten(d, "lost")

\* The deadline: the thread goes on
GivenUp(d) == Forgotten(d, "given_up")

\* All departments of the turn have their outcome, and some have answered
FanoutOver ==
    /\ \A d \in Departments : dept[d] # "asked"
    /\ \E d \in Departments : dept[d] = "answered"
AnsweredDepartments == {d \in Departments : dept[d] = "answered"}

\* What becomes of those that answered
Settles(outcome) ==
    /\ dept' = [d \in Departments |-> IF dept[d] = "answered" THEN outcome ELSE dept[d]]
    /\ ops' = [d \in Departments |-> {}] /\ spoilt' = {}
    /\ UNCHANGED <<root, links, place, files, thread, calls, clearing, clears, expected,
                   raced, writer>>

\* Mutated form of Fold: the node replaces pending_writes.
FoldReplaces ==
    /\ FanoutOver /\ AnsweredDepartments \cap spoilt = {}
    /\ told' = UNION {ops[d] : d \in AnsweredDepartments}
    /\ Settles("folded")

\* The node adds what they report to pending_writes
Fold ==
    /\ FanoutOver /\ AnsweredDepartments \cap spoilt = {}
    /\ told' = told \cup UNION {ops[d] : d \in AnsweredDepartments}
    /\ Settles("folded")

\* ... unless one of them recorded a path that is not a string: joining the paths
\* for the audit entry raises, and the parent is told nothing by any of them
FoldRaises ==
    /\ FanoutOver /\ AnsweredDepartments \cap spoilt # {}
    /\ Settles("lost")
    /\ UNCHANGED told

-----------------------------------------------------------------------------
(* The file tools *)

\* run_tool_loop makes the next call of d
NextCall(d) ==
    /\ dept[d] \in {"asked", "given_up"} /\ thread[d].at = "idle"
    /\ calls < MaxCalls /\ calls' = calls + 1

\* ... and records it before it runs
Calls(d, path) ==
    /\ NextCall(d)
    /\ ops' = IF dept[d] = "given_up" THEN ops
              ELSE [ops EXCEPT ![d] = @ \cup {[path |-> path, file |-> place[path]]}]
    /\ UNCHANGED <<root, links, place, dept, spoilt, told, clearing, clears, expected>>

\* The schema refuses a path that is not a string; it is recorded all the same
SchemaRefuses(d) ==
    /\ NextCall(d)
    /\ spoilt' = IF dept[d] = "given_up" THEN spoilt ELSE spoilt \cup {d}
    /\ UNCHANGED <<root, links, place, files, dept, thread, ops, told, clearing, clears,
                   expected, raced, writer>>

\* Opening a file that another call has open, or reading what it will replace
Meets(f) == raced' = IF InUse(f) THEN raced \cup {f} ELSE raced

\* The path is refused; or the file to edit is not there, or does not have the
\* words to replace.  The tool returns an error text.
ToolRefuses(d, path, tool) ==
    /\ Calls(d, path)
    /\ LET f == place[path]
       IN  f # Denied => tool = "edit_file" /\ ~HasWord(f)
    /\ UNCHANGED <<files, thread, raced, writer>>

\* Mutated form of Truncated: the file is opened for update.
NotTruncated(d, f, text, new) ==
    /\ files' = [files EXCEPT ![f] = IF @ = Absent THEN <<>> ELSE @]
    /\ thread' = [thread EXCEPT ![d] = [at |-> "open", file |-> f, text |-> text,
                                        new |-> new, linked |-> TRUE]]
    /\ writer' = [writer EXCEPT ![f] = d]

\* open(path, "w")
Truncated(d, f, text, new) ==
    /\ files' = [files EXCEPT ![f] = <<>>]
    /\ thread' = [thread EXCEPT ![d] = [at |-> "open", file |-> f, text |-> text,
                                        new |-> new, linked |-> TRUE]]
    /\ writer' = [writer EXCEPT ![f] = d]

\* write_file: the path is checked, its directories made, the file opened
OpenToWrite(d, path) ==
    /\ Calls(d, path)
    /\ LET f == place[path]
       IN  /\ f # Denied
           /\ \E text \in Texts : Truncated(d, f, text, TRUE)
           /\ Meets(f)

\* edit_file: the path is checked, the text read, the words found
ReadToEdit(d, path) ==
    /\ Calls(d, path)
    /\ LET f == place[path]
       IN  /\ f # Denied /\ HasWord(f)
           /\ thread' = [thread EXCEPT ![d] = [at |-> "loaded", file |-> f,
                                               text |-> Replaced(files[f])]]
           /\ Meets(f)
    /\ UNCHANGED <<files, writer>>

\* edit_file opens the file a second time, which makes it again if it is gone
OpenToEdit(d) ==
    /\ thread[d].at = "loaded"
    /\ Truncated(d, thread[d].file, thread[d].text, FALSE)
    /\ UNCHANGED <<root, links, place, dept, calls, ops, spoilt, told, clearing, clears,
                   expected, raced>>

\* The text is written and the file closed.  One that was unlinked meanwhile
\* takes the text with it.
Writes(d) ==
    /\ thread[d].at = "open"
    /\ LET f == thread[d].file
       IN  /\ files' = IF thread[d].linked
                       THEN [files EXCEPT ![f] = Over(@, thread[d].text)] ELSE files
           /\ expected' = [expected EXCEPT ![f] =
                 IF f \in raced \/ thread[d].new THEN thread[d].text ELSE Replaced(@)]
    /\ thread' = [thread EXCEPT ![d] = Idle]
    /\ UNCHANGED <<root, links, place, dept, calls, ops, spoilt, told, clearing, clears,
                   raced, writer>>

\* The disk is full, say: the tool returns an error, and what it truncated is lost
WriteFails(d) ==
    /\ thread[d].at = "open"
    /\ thread' = [thread EXCEPT ![d] = Idle]
    /\ expected' = [expected EXCEPT ![thread[d].file] = <<>>]
    /\ UNCHANGED <<root, links, place, files, dept, calls, ops, spoilt, told, clearing,
                   clears, raced, writer>>

-----------------------------------------------------------------------------
(* clear_workspace: top-level files and links, one after another *)

StartClear ==
    /\ clears < MaxClears /\ clearing = {}
    /\ clears' = clears + 1
    /\ clearing' = {at \in DOMAIN links : TopLevel(root, at)}
                       \cup {f \in Locations : files[f] # Absent /\ TopLevel(root, f)}
    /\ UNCHANGED <<root, links, place, files, dept, thread, calls, ops, spoilt, told,
                   expected, raced, writer>>

\* A link goes, what it led to stays: paths that led over it mean other files now
UnlinkLink(at) ==
    /\ at \in clearing /\ at \in DOMAIN links
    /\ clearing' = clearing \ {at}
    /\ links' = Remaining(DOMAIN links \ {at})
    /\ place' = [p \in Paths |-> WritePath(links', p, root)]
    /\ UNCHANGED <<root, files, dept, thread, calls, ops, spoilt, told, clears, expected,
                   raced, writer>>

Unlink(f) ==
    /\ f \in clearing /\ f \notin DOMAIN links
    /\ clearing' = clearing \ {f}
    /\ files' = [files EXCEPT ![f] = Absent]
    /\ thread' = [d \in Departments |->
                     IF Uses(d, f) /\ thread[d].at = "open"
                     THEN [thread[d] EXCEPT !.linked = FALSE] ELSE thread[d]]
    /\ expected' = [expected EXCEPT ![f] = Absent]
    /\ writer' = [writer EXCEPT ![f] = Absent]
    /\ Meets(f)
    /\ UNCHANGED <<root, links, place, dept, calls, ops, spoilt, told, clears>>

-----------------------------------------------------------------------------
Done ==
    /\ \A d \in Departments : /\ dept[d] \in {"folded", "lost", "given_up"}
                              /\ thread[d].at = "idle"
    /\ clearing = {}
    /\ UNCHANGED vars

FileCall(d) ==
    \/ \E path \in Paths :
          \/ \E tool \in {"write_file", "edit_file"} : ToolRefuses(d, path, tool)
          \/ OpenToWrite(d, path) \/ ReadToEdit(d, path)
    \/ SchemaRefuses(d) \/ OpenToEdit(d) \/ Writes(d) \/ WriteFails(d)

Next ==
    \/ \E asked \in SUBSET Departments : StartTurn(asked)
    \/ \E d \in Departments : Answers(d) \/ Fails(d) \/ GivenUp(d) \/ FileCall(d)
    \/ Fold \/ FoldRaises
    \/ StartClear
    \/ \E at \in clearing : UnlinkLink(at) \/ Unlink(at)
    \/ Done

Spec == Init /\ [][Next]_vars

-----------------------------------------------------------------------------
(* Properties *)

\* Departments that keep to files of their own are undisturbed by the others: a
\* file no two calls, and no call and clear, had open together holds what its
\* calls would have left one after another, whatever the paths that named it and
\* whatever went on at other files (tools.py:108-140, guardrails.py:114-128).
SerialText == \A f \in Locations \ raced : ~InUse(f) => files[f] = expected[f]

\* "workspace/..." names a file of the root.  A file below ./workspace that is
\* displayed like that is another one when the root is elsewhere.
Shadowed(f) ==
    LET here == Append(Cwd, "workspace")
    IN  root # here /\ IsPrefix(here, f)

\* A file a tool has made lies in the workspace, and the name the tool gives it in
\* its reply is one under which read_file finds it, unless that name is taken for
\* the root's (guardrails.py:18-111).
WrittenIsReadable ==
    \A f \in Locations : files[f] # Absent =>
        /\ IsPrefix(root, Resolve(links, f))
        /\ Shadowed(f) \/ ReadPath(links, Displayed(f), root) = f

\* Who changed a file last has told the parent of a call that led to that file,
\* failed calls included, if what it answered was folded: nothing else changes a
\* file behind the audit trail.  The path told still leads there, unless a clear
\* has unlinked a link.  Nothing is told of what a department did that was given
\* up, that failed, or that answered beside one whose record cannot be joined
\* (subagents.py:336-345, graph.py:102-119).
ChangesAreTold ==
    \A f \in Locations : \A d \in Departments :
        writer[f] = d /\ dept[d] = "folded" =>
            \E op \in told : op.file = f /\ (links = Links => place[op.path] = f)
=============================================================================
