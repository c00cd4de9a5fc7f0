---------------------------- MODULE ToolSelection ----------------------------
(***************************************************************************)
(* Which tools a department gets, what a call of one of them reaches, and  *)
(* with which arguments.                                                   *)
(* run_department resolves the allowlist of a SKILL.md against all tools   *)
(* (built-in, of MCP servers, of files under tools/), lets a model narrow  *)
(* a long list to the few relevant to the query, binds them, and takes the *)
(* ToolRegistry that every call is dispatched through.                     *)
(*                                                                         *)
(* A name stands for the tool object get_all_tools has under it.  Races    *)
(* for the registry are ToolRuntime's, outcomes of a call ToolLoop's.      *)
(***************************************************************************)
EXTENDS Naturals, Sequences, FiniteSets, Functions, SequencesExt, Payload

CONSTANTS
    Names,           \* names of tools
    Order,           \* the order a source lists its tools in
    BuiltIns,        \* tools of this service
    FileNames,       \* names files under tools/ may define
    ServerNames,     \* names MCP servers may offer
    AgentNames,      \* names A2A agents may be configured under
    Invented,        \* a name a model makes up
    Claims,          \* for each `prefix*`, the names that start with it
    MaxVisible,      \* MAX_VISIBLE_TOOLS
    MaxShortlisted,  \* MAX_SHORTLISTED_TOOLS
    MaxDeclared,     \* bound: entries of an allowlist
    MaxNamed,        \* bound: names in the sorter's reply
    MaxRenamed,      \* bound: file tools whose tool_spec has another name
    Properties       \* what a server's schema may say of a field

ASSUME SelectionAssumption ==
    /\ Order \in Seq(Names) /\ Range(Order) = Names /\ IsInjective(Order)
    /\ BuiltIns \subseteq Names /\ FileNames \subseteq Names
    /\ ServerNames \subseteq Names /\ AgentNames \subseteq Names
    /\ Invented \notin Names
    /\ Claims \subseteq SUBSET Names
    /\ MaxShortlisted \in Nat \ {0} /\ MaxVisible \in Nat
    /\ MaxShortlisted <= MaxVisible
    /\ Properties \subseteq Property
    /\ MaxDeclared \in Nat /\ MaxNamed \in Nat /\ MaxRenamed \in Nat

None == "none"

VARIABLES
    files,      \* names of the tools found under tools/
    servers,    \* names of the tools the MCP servers offered
    pc,         \* "select", "bound", "ready", "call" or "called"
    declared,   \* spec.tools: an exact name is the set of it, `prefix*` its claim
    bound,      \* names of the tools bound to the model
    spec_name,  \* the name each file tool declares with @tool_spec
    registry,   \* [tool, remote]: _tools, and the specs of kind A2A
    schema,     \* the args_schema of the MCP tool that is called
    args        \* and the payload the model made for it

selection == <<files, servers, declared, bound, spec_name, registry>>
vars == <<selection, pc, schema, args>>

-----------------------------------------------------------------------------
(* tools.get_all_tools: precedence built-in > MCP > file                   *)

\* The members of s that are in S, in their order.
Only(s, S) ==
    FlattenSeq([i \in DOMAIN s |-> IF s[i] \in S THEN <<s[i]>> ELSE <<>>])

Among(S) == Only(Order, S)

\* The merged dict: a name keeps the place of its first source and the object
\* of its last.
Toolset == Among(files) \o Among(servers \ files)
               \o Among(BuiltIns \ (files \cup servers))

Origin(n) == CASE n \in BuiltIns -> "builtin"
               [] n \in servers \ BuiltIns -> "mcp"
               [] OTHER -> "file"

-----------------------------------------------------------------------------
(* subagents.select_department_tools and registry.select_for_query         *)

First(n, s) == SubSeq(s, 1, IF n <= Len(s) THEN n ELSE Len(s))

\* A name is kept where it stands first.
Deduped(names) ==
    FlattenSeq([i \in DOMAIN names |->
        IF \E j \in 1..i - 1 : names[j] = names[i] THEN <<>> ELSE <<names[i]>>])

\* Mutated form of Allowed: no allowlist means every tool.
AllowedByDefault(entries) ==
    IF entries = <<>> THEN Toolset
    ELSE Deduped(FlattenSeq([i \in DOMAIN entries |-> Only(Toolset, entries[i])]))

\* Unknown names and claims that match nothing are skipped.
Allowed(entries) ==
    LET tools == Toolset
    IN  Deduped(FlattenSeq([i \in DOMAIN entries |-> Only(tools, entries[i])]))

\* relevance.sort_tools: the reply's names, in its order.  A reply without a
\* list of names, and a model that can not be reached, both count as empty.
SortTools(tools, reply) ==
    IF First(MaxShortlisted, reply) = <<>>
    THEN First(MaxShortlisted, tools)
    ELSE Only(First(MaxShortlisted, reply), Range(tools))

SelectForQuery(tools, reply) ==
    LET shortlist == First(MaxShortlisted, SortTools(tools, reply))
    IN  IF shortlist # <<>> THEN shortlist ELSE First(MaxShortlisted, tools)

-----------------------------------------------------------------------------
(* tools.create_tool_registry, subagents._registry_for, registry.dispatch  *)

\* A file tool is registered under the name its tool_spec declares, any other
\* under its own, and the last one registered stays; agents come last, and
\* replace the spec but not the tool.
Places(tools, declared_as, n) ==
    {i \in DOMAIN tools :
        n = IF Origin(tools[i]) = "file" THEN declared_as[tools[i]] ELSE tools[i]}

Built(declared_as, agents) ==
    LET tools == Toolset
    IN  [tool   |-> [n \in Names |-> LET places == Places(tools, declared_as, n)
                                     IN  IF places = {} THEN None ELSE tools[Max(places)]],
         remote |-> agents]

\* Mutated form of Completed: the registry is taken as it is.
AsBuilt(reg) == reg

\* Bound tools it does not have are added, under their own names.
Completed(reg) ==
    LET missing == {n \in Range(bound) : reg.tool[n] = None}
    IN  [tool   |-> [n \in Names |-> IF n \in missing THEN n ELSE reg.tool[n]],
         remote |-> reg.remote \ missing]

\* What a call of n reaches: the kind of the tool object decides first, then
\* that of the spec.
Reached(n) ==
    LET tool == registry.tool[n]
    IN  IF n \in registry.remote /\ (tool = None \/ Origin(tool) # "mcp")
        THEN "remote" ELSE tool

-----------------------------------------------------------------------------
NoRegistry == [tool |-> [n \in Names |-> None], remote |-> {}]
NoArgs == [f \in {} |-> f]

Init ==
    /\ files \in SUBSET FileNames
    /\ servers \in SUBSET ServerNames
    /\ pc = "select"
    /\ declared = <<>>
    /\ bound = <<>>
    /\ spec_name = [n \in {} |-> n]
    /\ registry = NoRegistry
    /\ schema = NoArgs /\ args = NoArgs

\* An allowlist no longer than the shortlist is bound whole.
SelectAll(entries) ==
    /\ pc = "select" /\ Len(Allowed(entries)) <= MaxShortlisted
    /\ declared' = entries
    /\ bound' = Allowed(entries)
    /\ pc' = "bound"
    /\ UNCHANGED <<files, servers, spec_name, registry, schema, args>>

Shortlist(entries) ==
    LET allowed == Allowed(entries)
        visible == First(MaxVisible, allowed)
    IN  /\ pc = "select" /\ Len(allowed) > MaxShortlisted
        /\ declared' = entries
        /\ \E reply \in BoundedSeq(Names \cup {Invented}, MaxNamed) :
              bound' = SelectForQuery(visible, reply)
        /\ pc' = "bound"
        /\ UNCHANGED <<files, servers, spec_name, registry, schema, args>>

\* get_model raises: everything visible is kept.
SelectWithoutModel(entries) ==
    /\ pc = "select" /\ Len(Allowed(entries)) > MaxShortlisted
    /\ declared' = entries
    /\ bound' = First(MaxVisible, Allowed(entries))
    /\ pc' = "bound"
    /\ UNCHANGED <<files, servers, spec_name, registry, schema, args>>

Entry == {{n} : n \in Names} \cup Claims

\* The registry is built, and completed for the department.
TakeRegistry ==
    /\ pc = "bound"
    /\ spec_name' \in {f \in [files -> Names] :
                          Cardinality({n \in files : f[n] # n}) <= MaxRenamed}
    /\ \E agents \in SUBSET AgentNames : registry' = Completed(Built(spec_name', agents))
    /\ declared' = <<>>
    /\ pc' = "ready"
    /\ UNCHANGED <<files, servers, bound, schema, args>>

\* The model calls a tool that reaches an MCP server; what has led to it no
\* longer matters and is dropped.
Calls ==
    /\ pc = "ready"
    /\ \E n \in Range(bound) : Reached(n) \in Names /\ Origin(Reached(n)) = "mcp"
    /\ files' = {} /\ servers' = {} /\ bound' = <<>>
    /\ spec_name' = NoArgs /\ registry' = NoRegistry
    /\ pc' = "call"
    /\ UNCHANGED <<declared, schema, args>>

\* registry.dispatch: the payload is checked against the schema the server
\* gave, whatever the model was shown, and sent or refused.
Dispatch ==
    /\ pc = "call"
    /\ \E declares, gives \in SUBSET Field :
           /\ schema' \in [declares -> Properties]
           /\ args' \in [gives -> Value]
    /\ pc' = "called"
    /\ UNCHANGED selection

\* The tool loop follows (ToolLoop).
Done == pc \in {"ready", "called"} /\ UNCHANGED vars

Next ==
    \/ \E entries \in BoundedSeq(Entry, MaxDeclared) :
          SelectAll(entries) \/ Shortlist(entries) \/ SelectWithoutModel(entries)
    \/ TakeRegistry \/ Calls \/ Dispatch
    \/ Done

Spec == Init /\ [][Next]_vars

-----------------------------------------------------------------------------
(* Properties                                                              *)

\* The allowlist is hard: a department is bound to nothing its SKILL.md does
\* not name or claim, and to something whenever a tool it declares exists,
\* whatever the sorter replies and whether or not it can be asked.
OnlyDeclared ==
    LET theirs == Range(Toolset) \cap UNION Range(declared)
    IN  pc = "bound" => Range(bound) \subseteq theirs
                        /\ (theirs # {} => bound # <<>>)

\* A call of a bound tool reaches the tool that was bound, also when the file
\* it comes from declares another name, unless another file tool declares its
\* name or an A2A agent has it.
ReachesBound ==
    pc = "ready" =>
        \A n \in Range(bound) :
            /\ n \notin registry.remote
            /\ \A f \in files : Origin(f) = "file" /\ spec_name[f] = n => f = n
            => Reached(n) = n

\* Every payload that is sent arrives whole (Payload).
PayloadArrives == pc = "called" => PayloadKept(schema, args)
=============================================================================
