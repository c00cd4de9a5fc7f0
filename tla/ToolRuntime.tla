----------------------------- MODULE ToolRuntime -----------------------------
(***************************************************************************)
(* The tools of the process: file tools and MCP tools, each with a         *)
(* module-level cache and its key (load_dynamic_tools, load_mcp_tools),    *)
(* and the one ToolRegistry every tool call goes through, built by the     *)
(* first department that needs it (subagents._registry_for).  Departments  *)
(* run on worker threads and take no lock; a reset may come from another   *)
(* thread; files under tools/ are edited and servers change meanwhile.     *)
(*                                                                         *)
(* One tool name stands for each source.  A tool is the version of it that *)
(* was loaded, 0 when the source does not offer it.                        *)
(***************************************************************************)
EXTENDS Naturals, Sequences, FiniteSets

CONSTANTS
    Sources,     \* sets of sources: "file" if tools/ has files, "mcp" with servers
    Workers,     \* threads that run departments
    MaxRuns,     \* bound: departments started
    MaxChanges,  \* bound: versions of a tool
    MaxResets    \* bound: resets

ASSUME RuntimeAssumption ==
    /\ Sources \subseteq {{"file"}, {"mcp"}, {"file", "mcp"}}
    /\ MaxRuns \in Nat /\ MaxChanges \in Nat /\ MaxResets \in Nat

\* The two functions called reset_deep_agent: agent_factory's and graph's.
Kind == {"factory", "graph"}

VARIABLES
    offered,   \* tools the sources offer now
    cache,     \* [Source -> [full, tool, key]]: the two module globals
    heap,      \* ToolRegistry objects, in order of creation
    registry,  \* _TOOL_REGISTRY: index into heap, 0 for None
    runs, resets,
    reset,     \* [kind, at]: the reset under way and its next step
    pc,        \* where each worker is
    phase,     \* what it loads tools for: "select", "names", "build"
    source,    \* the source it loads from
    key,       \* the key it computed for that source
    got,       \* what it has loaded in this phase
    bound,     \* tool_map: the tools bound to its model
    reg,       \* the registry its calls go through
    overtaken, \* another thread assigned the registry since it started
    quiet,     \* no department has run since the reset began
    fresh,     \* the tools offered at the last quiet factory reset
    crowded    \* sources two threads have been loading at once

world == <<offered, runs, resets, reset, quiet, fresh>>
mine == <<pc, phase, source, key, got, bound, reg, overtaken>>
runtime == <<world, cache, heap, registry, mine, crowded>>

Source == DOMAIN offered
NoTools == [s \in Source |-> 0]

\* File tools are loaded first, and come first among the bound tools.
FirstSource == IF "file" \in Source THEN "file" ELSE "mcp"
LastSource  == IF "mcp" \in Source THEN "mcp" ELSE "file"

\* Key of a cache: a hash of tools/, or the serialized server configuration,
\* which stays the same when a server changes its tools.  0 is no key.
KeyOf(s) == IF s = "file" THEN offered[s] + 1 ELSE 1

AllIdle == \A w \in Workers : pc[w] = "idle"

-----------------------------------------------------------------------------
RuntimeInit ==
    /\ offered \in UNION {[S -> 0..1] : S \in Sources}
    /\ cache = [s \in Source |-> [full |-> FALSE, tool |-> 0, key |-> 0]]
    /\ heap = <<>> /\ registry = 0
    /\ runs = 0 /\ resets = 0
    /\ reset = [kind |-> "graph", at |-> "done"]
    /\ quiet = FALSE
    /\ pc = [w \in Workers |-> "idle"]
    /\ phase = [w \in Workers |-> "select"]
    /\ source = [w \in Workers |-> FirstSource]
    /\ key = [w \in Workers |-> 0]
    /\ got = [w \in Workers |-> NoTools]
    /\ bound = [w \in Workers |-> NoTools]
    /\ reg = [w \in Workers |-> 0]
    /\ overtaken = [w \in Workers |-> FALSE]
    /\ fresh = NoTools
    /\ crowded = {}

\* run_department: select_department_tools loads every tool there is.
Start(w) ==
    /\ pc[w] = "idle" /\ runs < MaxRuns
    /\ pc' = [pc EXCEPT ![w] = "load"]
    /\ runs' = runs + 1
    /\ quiet' = FALSE
    /\ UNCHANGED <<offered, resets, reset, fresh, cache, heap, registry, phase,
                   source, key, got, bound, reg, overtaken, crowded>>

-----------------------------------------------------------------------------
(* load_dynamic_tools and load_mcp_tools                                   *)

Loads(w, s) == pc[w] \in {"miss", "store", "storekey"} /\ source[w] = s

Lookup(w) ==
    LET s == source[w]
        hit == cache[s].full /\ cache[s].key = KeyOf(s)
    IN  /\ pc[w] = "load"
        /\ key' = [key EXCEPT ![w] = KeyOf(s)]
        /\ pc' = [pc EXCEPT ![w] = IF hit THEN "hit" ELSE "miss"]
        /\ crowded' = IF ~hit /\ \E v \in Workers : Loads(v, s)
                      THEN crowded \cup {s} ELSE crowded
        /\ UNCHANGED <<world, cache, heap, registry, phase, source, got, bound,
                       reg, overtaken>>

\* The load of the source is over: the other one follows, then the next phase.
Loaded(w, tool) ==
    LET tools == [got[w] EXCEPT ![source[w]] = tool]
        last  == source[w] = LastSource
    IN  /\ got' = [got EXCEPT ![w] = tools]
        /\ source' = [source EXCEPT ![w] = IF last THEN FirstSource ELSE LastSource]
        /\ phase' = [phase EXCEPT ![w] =
                       IF last /\ @ = "names" THEN "build" ELSE @]
        /\ bound' = [bound EXCEPT ![w] =
                       IF last /\ phase[w] = "select" THEN tools ELSE @]
        /\ pc' = [pc EXCEPT ![w] =
                    IF ~last \/ phase[w] = "names" THEN "load"
                    ELSE IF phase[w] = "select" THEN "check" ELSE "assign"]

\* What becomes of an exception while tools are loaded: the department fails;
\* a registry is replaced by an empty one.
LoadRaises(w) ==
    /\ got' = [got EXCEPT ![w] = NoTools]
    /\ pc' = [pc EXCEPT ![w] = IF phase[w] = "select" THEN "raised" ELSE "assign"]
    /\ source' = [source EXCEPT ![w] = FirstSource]
    /\ UNCHANGED <<phase, bound>>

\* The cache is read again to be returned; a reset may have emptied it, and
\* None is not a mapping.
Hit(w) ==
    /\ pc[w] = "hit"
    /\ IF cache[source[w]].full THEN Loaded(w, cache[source[w]].tool)
                                ELSE LoadRaises(w)
    /\ UNCHANGED <<world, cache, heap, registry, key, reg, overtaken, crowded>>

Fetches(w, tool) ==
    /\ got' = [got EXCEPT ![w][source[w]] = tool]
    /\ pc' = [pc EXCEPT ![w] = "store"]
    /\ UNCHANGED <<world, cache, heap, registry, phase, source, key, bound,
                   reg, overtaken, crowded>>

\* The modules under tools/ are executed.
ExecutesModules(w) ==
    pc[w] = "miss" /\ source[w] = "file" /\ Fetches(w, offered["file"])

\* The servers are asked; one that can not be reached has no tools, and that
\* is cached too.
AsksServers(w) ==
    /\ pc[w] = "miss" /\ source[w] = "mcp"
    /\ \E tool \in {0, offered["mcp"]} : Fetches(w, tool)

\* Cache and key are two assignments.
Store(w) ==
    /\ pc[w] = "store"
    /\ cache' = [cache EXCEPT ![source[w]] =
                     [full |-> TRUE, tool |-> got[w][source[w]], key |-> @.key]]
    /\ pc' = [pc EXCEPT ![w] = "storekey"]
    /\ UNCHANGED <<world, heap, registry, phase, source, key, got, bound, reg,
                   overtaken, crowded>>

\* Mutated form of StoreKey: the key is computed when it is stored.
StoreLateKey(w) ==
    /\ pc[w] = "storekey"
    /\ cache' = [cache EXCEPT ![source[w]].key = KeyOf(source[w])]
    /\ Loaded(w, got[w][source[w]])
    /\ UNCHANGED <<world, heap, registry, key, reg, overtaken, crowded>>

StoreKey(w) ==
    /\ pc[w] = "storekey"
    /\ cache' = [cache EXCEPT ![source[w]].key = key[w]]
    /\ Loaded(w, got[w][source[w]])
    /\ UNCHANGED <<world, heap, registry, key, reg, overtaken, crowded>>

-----------------------------------------------------------------------------
(* subagents._registry_for                                                 *)

Check(w) ==
    /\ pc[w] = "check"
    /\ phase' = [phase EXCEPT ![w] = "names"]
    /\ pc' = [pc EXCEPT ![w] = IF registry = 0 THEN "load" ELSE "add"]
    /\ UNCHANGED <<world, cache, heap, registry, source, key, got, bound, reg,
                   overtaken, crowded>>

\* create_tool_registry may fail for another reason, too (A2A configuration).
BuildFails(w) ==
    /\ pc[w] = "assign" /\ got[w] # NoTools
    /\ got' = [got EXCEPT ![w] = NoTools]
    /\ UNCHANGED <<world, cache, heap, registry, pc, phase, source, key, bound,
                   reg, overtaken, crowded>>

\* The registry is published whole; a second build replaces the first one.
Assign(w) ==
    /\ pc[w] = "assign"
    /\ heap' = Append(heap, got[w])
    /\ registry' = Len(heap')
    /\ overtaken' = [v \in Workers |-> IF v = w THEN overtaken[v] ELSE pc[v] # "idle"]
    /\ pc' = [pc EXCEPT ![w] = "add"]
    /\ UNCHANGED <<world, cache, phase, source, key, got, bound, reg, crowded>>

\* The loop over the bound tools: _TOOL_REGISTRY is read anew for each test
\* and for each registration.
NextBound(w) ==
    /\ source' = [source EXCEPT ![w] =
                     IF @ = LastSource THEN FirstSource ELSE LastSource]
    /\ pc' = [pc EXCEPT ![w] = IF source[w] = LastSource THEN "return" ELSE "add"]

Bound(w) == bound[w][source[w]]

\* Mutated form of Add: a registry that was there is taken as it is.
AddNothing(w) ==
    /\ pc[w] = "add" /\ (Bound(w) = 0 \/ registry # 0)
    /\ NextBound(w)
    /\ UNCHANGED <<world, cache, heap, registry, phase, key, got, bound, reg,
                   overtaken, crowded>>

Add(w) ==
    /\ pc[w] = "add" /\ (Bound(w) = 0 \/ registry # 0)
    /\ IF Bound(w) = 0 \/ heap[registry][source[w]] # 0
       THEN NextBound(w)
       ELSE pc' = [pc EXCEPT ![w] = "put"] /\ UNCHANGED source
    /\ UNCHANGED <<world, cache, heap, registry, phase, key, got, bound, reg,
                   overtaken, crowded>>

Put(w) ==
    /\ pc[w] = "put" /\ registry # 0
    /\ heap' = [heap EXCEPT ![registry][source[w]] = Bound(w)]
    /\ NextBound(w)
    /\ UNCHANGED <<world, cache, registry, phase, key, got, bound, reg,
                   overtaken, crowded>>

\* None has no get_tool and no register_builtin.
AddRaises(w) ==
    /\ \/ pc[w] = "add" /\ Bound(w) # 0
       \/ pc[w] = "put"
    /\ registry = 0
    /\ pc' = [pc EXCEPT ![w] = "raised"]
    /\ UNCHANGED <<world, cache, heap, registry, phase, source, key, got,
                   bound, reg, overtaken, crowded>>

Return(w) ==
    /\ pc[w] = "return"
    /\ reg' = [reg EXCEPT ![w] = registry]
    /\ got' = [got EXCEPT ![w] = NoTools]
    /\ pc' = [pc EXCEPT ![w] = "run"]
    /\ UNCHANGED <<world, cache, heap, registry, phase, source, key, bound,
                   overtaken, crowded>>

\* The tool loop ends, or the department had failed before.
Finish(w) ==
    /\ pc[w] \in {"run", "raised"}
    /\ pc' = [pc EXCEPT ![w] = "idle"]
    /\ phase' = [phase EXCEPT ![w] = "select"]
    /\ source' = [source EXCEPT ![w] = FirstSource]
    /\ key' = [key EXCEPT ![w] = 0]
    /\ got' = [got EXCEPT ![w] = NoTools]
    /\ bound' = [bound EXCEPT ![w] = NoTools]
    /\ reg' = [reg EXCEPT ![w] = 0]
    /\ overtaken' = [overtaken EXCEPT ![w] = FALSE]
    /\ UNCHANGED <<world, cache, heap, registry, crowded>>

-----------------------------------------------------------------------------
(* Resets and the world outside                                            *)

\* Mutated form of StartReset: the factory's reset leaves the registry.
StartResetLight(kind) ==
    /\ reset.at = "done" /\ resets < MaxResets
    /\ reset' = [kind |-> kind, at |-> "cache"]
    /\ resets' = resets + 1
    /\ quiet' = AllIdle
    /\ UNCHANGED <<offered, runs, fresh, cache, heap, registry, mine, crowded>>

\* agent_factory.reset_deep_agent drops the registry before it calls
\* graph.reset_deep_agent, which does not.
StartReset(kind) ==
    /\ reset.at = "done" /\ resets < MaxResets
    /\ IF kind = "factory"
       THEN registry' = 0 /\ overtaken' = [w \in Workers |-> pc[w] # "idle"]
       ELSE UNCHANGED <<registry, overtaken>>
    /\ reset' = [kind |-> kind, at |-> "cache"]
    /\ resets' = resets + 1
    /\ quiet' = AllIdle
    /\ UNCHANGED <<offered, runs, fresh, cache, heap, pc, phase, source, key,
                   got, bound, reg, crowded>>

\* clear_caches -> clear_mcp_tools_cache: two assignments.
ClearCache ==
    /\ reset.at = "cache"
    /\ cache' = [s \in Source |-> IF s = "mcp"
                                 THEN [cache[s] EXCEPT !.full = FALSE, !.tool = 0]
                                 ELSE cache[s]]
    /\ reset' = [reset EXCEPT !.at = "key"]
    /\ UNCHANGED <<offered, runs, resets, quiet, fresh, heap, registry, mine, crowded>>

ClearKey ==
    /\ reset.at = "key"
    /\ cache' = [s \in Source |-> IF s = "mcp" THEN [cache[s] EXCEPT !.key = 0]
                                 ELSE cache[s]]
    /\ reset' = [reset EXCEPT !.at = "done"]
    /\ fresh' = IF quiet /\ reset.kind = "factory" THEN offered ELSE fresh
    /\ UNCHANGED <<offered, runs, resets, quiet, heap, registry, mine, crowded>>

\* A file is added or edited, a server changes its tool.
Change ==
    /\ \E s \in Source : /\ offered[s] < MaxChanges
                         /\ offered' = [offered EXCEPT ![s] = @ + 1]
    /\ UNCHANGED <<runs, resets, reset, quiet, fresh, cache, heap, registry, mine, crowded>>

RuntimeDone == AllIdle /\ runs = MaxRuns /\ UNCHANGED runtime

RuntimeNext ==
    \/ \E w \in Workers :
          \/ Start(w) \/ Lookup(w) \/ Hit(w) \/ ExecutesModules(w) \/ AsksServers(w)
          \/ Store(w) \/ StoreKey(w)
          \/ Check(w) \/ BuildFails(w) \/ Assign(w)
          \/ Add(w) \/ Put(w) \/ AddRaises(w) \/ Return(w) \/ Finish(w)
    \/ \E kind \in Kind : StartReset(kind)
    \/ ClearCache \/ ClearKey \/ Change
    \/ RuntimeDone

RuntimeSpec == RuntimeInit /\ [][RuntimeNext]_runtime

-----------------------------------------------------------------------------
(* Properties                                                              *)

\* A department can call every tool bound to its model.
Callable(w) ==
    \A s \in Source : bound[w][s] # 0 => reg[w] # 0 /\ heap[reg[w]][s] # 0

\* ... as long as no other thread has assigned the registry since the
\* department started: however many share it, and whatever it lacked.
UndisturbedCallable ==
    \A w \in Workers : pc[w] = "run" /\ ~overtaken[w] => Callable(w)

\* The file tools bound to a department are those of the files as they were when
\* it asked, or newer: an edit between the hash of tools/ and the load, or between
\* the two assignments of cache and key, is not hidden for good by a key that
\* already counts it, as long as no two threads load at once (tools.py:244-291).
LoadedIsCurrent ==
    \A w \in Workers : pc[w] = "check" /\ source[w] = "file" /\ crowded = {} =>
        bound[w]["file"] + 1 >= key[w]

\* After agent_factory.reset_deep_agent, taken while no department ran, no
\* later department is bound to, or dispatches, an older tool of a server.
FactoryResetIsFresh ==
    \A w \in Workers :
        pc[w] = "run" =>
            \A s \in Source \cap {"mcp"} :
                \A tool \in {bound[w][s]} \cup {heap[r][s] : r \in {reg[w]} \ {0}} :
                    tool = 0 \/ tool >= fresh[s]

=============================================================================
