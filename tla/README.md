# Formal models of the deep agent

TLA+ modules, TLC configurations and TLAPS proofs for the deep agent: a
LangGraph application in which a router names departments, the departments run
as sub-agents on worker threads with their own tool loops, and a responder
turns what they return into one answer.  Paths below are relative to the
repository (`src/` of the checkout); `agent_orchestrator`, `session_memory` and
`tools_integration` live under `src/src/services/`.

Contents: [the system](#1-the-system), [where it is hard](#2-where-it-is-hard),
[the modules](#3-the-modules), [the runs](#4-the-runs),
[disagreements](#5-disagreements-between-the-repository-and-its-code),
[the proofs](#6-the-proofs), [limits](#7-what-is-not-shown), [plan](#8-plan),
[how to run it](#9-how-to-run-it).

## 1. The system

| Part | State it keeps | Operations | Talks to | What makes it correct |
|---|---|---|---|---|
| **Graph and turn lifecycle** (`graph.py`, `orchestrator.py`, `routing.py`, `state.py`, `aggregator.py`, `verification.py`; driven by `app.py`, `main.py`) | the channels of `AgentState`, in a run and in the thread's checkpoint; the page's history and log | a prompt, the nodes `orchestrator`, `subagent_fanout`, `responder`; a node that raises, a script that is stopped | the model (router call), the fanout engine, session memory, SUBAGENTS | an answer is made of its own turn's data; page and thread tell the same story; every turn ends |
| **Fanout engine** (`subagent_engine.py`, the fanout node) | groups, batches, tasks, the merged dict; the default executor's queue and threads | split, batch, submit, deliver, deadline, merge, join, fold | SUBAGENTS, the department executor on threads, the parent's channels | every department reported, batch cap, serial after parallel, exact accounting |
| **Department executor** (`subagents.py: run_tool_loop`, `utils.py: invoke_with_retry`) | the message list, usage, `write_ops` | model call, tool call, retry, budget end | the model, the tool registry | transcript well formed, audit complete, effects bounded, it ends |
| **Sub-agent registry and discovery** (`subagents.py: SUBAGENTS`, `refresh_subagents`; `discovery.py`; `memory.py: get_skill_body`) | the live mapping name -> spec; the cached scan and its key | discover, build, refresh, list, read a prompt | `skills/`, A2A configuration | a served scan is what the disk holds, a refresh is not older than itself, a department runs with its own prompt |
| **Process-wide caches and resets** (`subagents.py: _TOOL_REGISTRY`, `mcp_client.py`, `tools.py: load_dynamic_tools`, `agent_factory.py`, `memory.py`, `graph.reset_deep_agent`) | module globals: registry, tool caches and keys, models, compiled graph | lookup, load, build, reset (two functions of that name) | department threads, resets from other threads | a bound tool is callable; after a reset nothing old is served |
| **Session memory** (`checkpoint.py`, `window.py`, `compression.py`) | `MemorySaver` checkpoints, `_latest` index | `append_message`, graph save, `get_session`, `get_window` | the graph (same saver), the router's prompt | complete history; a window that fits and keeps calls with results |
| **Tool selection** (`select_department_tools`, `registry.select_for_query`, `relevance.py`) | none | shortlist the tools of a department for a query | the model, the registry | only declared tools; a short list, never emptied by the model's reply |
| **Tool registry and dispatch** (`registry.py`, `decorator.py`, `types.py`) | name -> registered tool | register, get, dispatch (validate, then invoke) | validation, tools | one authority per name; nothing runs unvalidated |
| **Validation** (`validation.py`) | none | check a payload against a schema | dispatch | what is sent is what the model gave, and what the schema allows is sent |
| **Built-in file tools** (`tools.py`) and **guardrails** (`guardrails.py`) | files of the workspace | read, list, write, edit, clear | the file system | a text suffers only from calls on the same file; what is written can be read; no silent changes |
| **MCP client** (`mcp_client.py`) | tool cache and key | load, call, clear | servers, the async bridge | no older tool after a reset; arguments arrive whole |
| **A2A client** (`a2a_client.py`) | none | one call: stream, then polls | a remote agent, the async bridge | the agent's artifacts, once and in order, or an error, when its stream ends |
| **Async bridge** (`src/src/async_bridge.py`) | one loop and its thread, a lock | `run_sync`, close | every worker thread | a caller gets an answer when its coroutine ends |
| **Research fetch** (`research_fetch.py`) | none | redirects, a bounded read under one deadline | the network, the async bridge | a page not marked truncated is whole |
| **Configuration** (`config.py`) | environment | getters with clamping | all | |
| **User interface** (`app.py`, `main.py`), **scripts**, **sample tools**, **skills** | Streamlit session | submit, stream, reset | the graph | |

How they interact in one turn: the user interface sends one `HumanMessage` on a
thread; the orchestrator node reads the compressed window, asks the model, and
writes `enhanced_query`, `department_targets` and `next_message`; the fanout
node binds SUBAGENTS, starts `asyncio.run(invoke_parallel)`, whose tasks hand
each department to a thread with `asyncio.to_thread`; each thread loads tools,
takes the shared registry and runs the tool loop; the node folds the
`SubagentRun`s into `subagent_results`, `token_usage`, `pending_writes` and
`audit_log`; the responder appends the answer and clears the staging channels.

## 2. Where it is hard

The list with file and line is `hazards` in `PROJECT.json`.  In short:

- **Deadlines against threads.** `asyncio.wait_for` cancels a task, never a
  thread.  A department reported as timed out may go on calling the model and
  writing files: beside the next batch, while the results are folded, while
  `asyncio.run` joins the executor (up to 300 s), and into the next turn.
- **A stopped script.** Streamlit stops a script at its next call of the user
  interface.  A node that is running ends and saves all the same, on the thread
  of which a new prompt may already be at work.
- **Rebinding while in use.** SUBAGENTS is bound once by the node, but looked up
  again in the live mapping at the split and at submission.
- **Two anchors.** `skills/` is discovered in the repository and read for prompts
  below the working directory.
- **Unlocked caches.** `_TOOL_REGISTRY`, the two tool caches and the scan of
  `skills/` with their keys are read, written and reset by threads without a
  lock; a key is computed before the load it stands for.
- **Checkpointed channels.** Whatever a failed or abandoned turn left in a
  channel is there when the next turn starts.
- **Two writers of one history.** The graph and `append_message` save to the
  same saver; only one of them maintains `_latest`.
- **Retries of effects.** A tool that fails after it took effect is called
  again; whether a failure is retried depends on words in its message.
- **Accounting of partial failure.** Spend and writes of a department that
  failed half-way; recorded arguments that are not what the schema wants; a
  model call of the department that is in nobody's usage.
- **Files without locks.** `write_file` truncates and writes, `edit_file` reads,
  truncates and writes, a clear unlinks files and links; a file has several
  names, and fewer after a clear.
- **Calls out of the process.** Artifacts come by three ways, a remote agent may
  never end and its stream neither, and the loop a call was given may be closed
  under it.

## 3. The modules

| Module | Models | State and actions |
|---|---|---|
| `FanoutContract` | what the graph may rely on | opened, one outcome per asked department, closed with all of them or aborted |
| `SubAgentEngine` | one fanout: event loop, threads, refresh | see below |
| `DepartmentRun` | a department thread as the engine sees it | pays for a sorter, spends, records, returns or raises |
| `ToolLoop` | `run_department`: the selection as far as it is paid for, then `run_tool_loop` with `invoke_with_retry` and `dispatch`'s outcomes | one action per reply, call, attempt, budget end |
| `Conversation` | what the user sees on the page | prompt, then an answer or nothing |
| `DeepAgentGraph` | a browser session: page, script, runs of the graph, the thread's checkpoint | one action per node outcome, `Submit`, `Send`, `Show`, `Persist`, `Rerun`, `Abandon`, `Refresh` |
| `SessionMemory` | checkpoints, index, window, compression | `AppendMessage`, `GraphSaves`; `Window` is an operator |
| `ToolRuntime` | caches of file and MCP tools, lazy registry, the two resets | one action per read or write of a module global |
| `ToolSelection` | what `run_department` binds to the model, what a call of it reaches, what is sent | `SelectAll`, `Shortlist`, `SelectWithoutModel`, `TakeRegistry`, `Calls`, `Dispatch`; the algorithms are operators |
| `Payload` | the arguments of an MCP call from model to server | operators only |
| `Roster` | `skills/`, its cached scan, SUBAGENTS, the working directory, the prompts | one action per read or write of a module global or a file |
| `Guardrails` | which file a path means | operators only |
| `Workspace` | files, links, file tools, deadlines, what a fold tells of them, clears | one action per step of a tool at the file system, per outcome of a department and of the fold |
| `RemoteCalls` | async bridge, A2A call, fetched page | one action per await, and per critical section of the bridge |
| `MC*` | the instances TLC checks | model values, bounds, symmetry |
| `DataLemmas` | facts on sequences, order in them, `FlattenSeq`, finite sums | proved, no state |
| `SubAgentEngine_proofs`, `ToolLoop_proofs`, `DeepAgentGraph_proofs`, `RemoteCalls_proofs`, `Workspace_proofs`, `Roster_proofs`, `ToolSelection_proofs` | theorems about the module each is named after; `DeepAgentGraph_proofs` also about `SessionMemory`, `Workspace_proofs` also about `ToolRuntime` | inductive invariants and proofs, no state |

Three abstractions connect them: `SubAgentEngine` implements `FanoutContract`,
which is the step `Fanout` of `DeepAgentGraph` takes as one; `ToolLoop`
implements `DepartmentRun`, which is what `Sort`, `Spend`, `Write`,
`WorkerReturns` and `WorkerRaises` let a thread of the engine do;
`DeepAgentGraph` implements `Conversation`.  Each implementation is a `PROPERTY`
of a run (`MeetsContract`, `MeetsRun`, `MeetsConversation`) under a refinement
mapping at the end of the module, and a theorem (section 6).  `Workspace`
composes the paths of `Guardrails` with the file tools, `ToolSelection` the
payloads of `Payload` with the dispatch.

### SubAgentEngine

`pc` is where the fanout node is: `bind` (it imports SUBAGENTS), `split`
(`is_parallelizable`, name by name), `dispatch` and `gather` (the batch loop),
`drain` (`asyncio.run` joins the executor), `fold`, then `returned` or `failed`.
`task[d]` is the asyncio task of a department and `worker[d]` the work item of
its thread: two variables because the deadline parts them. `pool` is the
executor's FIFO queue; a cancelled item stays in it as a dead entry until a free
thread drops it (`SkipCancelled`), as in CPython. `calls[d]` and `ops[d]` are
what the thread has spent and recorded so far, whatever its task says, so that
the accounting properties can compare what the parent was told with what
happened.  `paid[d]` is what it has paid for: `calls[d]` and, for a department
of `Choosy`, whose allowlist is longer than the shortlist, one call of the tool
sorter (`Sort`), whose usage `sort_tools` drops.  Timers of one batch are armed
together, when its tasks first run: hence one flag `expired`, and `Expire` needs
all of the batch submitted.  Texts are abstracted to an outcome (`answered`,
`error`, `timeout`), a recorded write to what became of it.

### ToolLoop

The thread begins with `SelectTools`: which tools are bound is a constant here
(`ToolSelection` is about that), what it may cost is not (`paid`).
`messages` is the transcript, `reply` the place of its last reply (0 before the
first), `next` the call of it the loop is at.
A reply is a list of calls and a text that is something or blank; what a tool
message says decides nothing in the loop, and is left out.  A call's
arguments are accepted by the schema, refused by it, or refused with a `path`
that is not a string: the last two differ because the arguments are recorded
before they are checked and joined into a text later.  `ToolRaises` has the
effect or not, is retried or not.  Which error texts look transient is left
open, because `is_transient_error` looks for its markers anywhere in the text.

### DeepAgentGraph

Every datum in a channel carries the turn that produced it.  A router reply has
a form (bare or wrapped envelope, prose, blank), an `enhanced_query` of a type,
and names of which some may be invented.

Each turn has a script (`live`, `stopped`, `done`), a run (`node` is the node
that runs, `chan` its channels) and `unseen`, what the script has still to show
of the last update.  `Saves` is what the checkpointer does after a node: the
channels of this run become the thread's newest checkpoint, whatever another
run has saved meanwhile.  `Rerun` tells the script to stop; `Abandon` is the
moment it does, when it has something to show.  `TurnFails` is a node that
raises: the updates of the nodes before stay in the checkpoint.  The router
reads its window from the thread, not from its run (`PromptInWindow`).

### SessionMemory

Of all checkpoints only two can be read: the one with the greatest id (`top`)
and the one `_latest` names (`indexed`).  The graph's ids are time-ordered,
`append_message`'s are random, so the new one may fall above or below.  `Window`
is `get_window` with `compress_messages`; its summary is the number of messages
it stands for.

### ToolRuntime

Each action reads or writes one module global, which is the granularity at
which CPython threads can interleave here.  A tool is the version of it that was
loaded; one name stands for each source (`file`, `mcp`), and `Sources` says
which of them there are.  `heap` holds the `ToolRegistry` objects, because a
department keeps the object it was given after the global has moved on.
`overtaken`, `fresh` and `crowded` are history variables for the properties.

### ToolSelection and Payload

A name stands for the tool object `get_all_tools` has under it.  `Toolset` is the
merged dict, `Allowed` the allowlist with its `prefix*` claims, `SelectForQuery`
and `SortTools` the shortlist for a given reply of the model, `Built` and
`Completed` the registry, `Reached` the transport and tool of a call.  An
allowlist entry is the set of names it matches: a claim is a constant, since
matching prefixes is not what the properties are about.  The steps enumerate
allowlists, replies, declared names and configured agents; `Dispatch` then
enumerates a schema and a payload.

`Payload` follows one payload: `Annotation` and `Fits` are the pydantic model,
`Pruned` is `prune_unset`, `Outcome` the check in the dispatch and the one in
`MCPTool.run`, `Received` what the server gets.  Its reference, `Conforms`, is
JSON Schema's own reading.  Values are kinds; a numeral is a string that reads as
a number, which pydantic converts.

### Roster

`disk` is what each directory's SKILL.md holds: its frontmatter, the edit that
wrote it, and the edit its time and size still show, since a replacement of the
same size within the clock's granularity shows those of the file before.
`discover_subagents` is seven steps: hash, compare, read the cache again or list
and scan file by file, store the scan, store the key.  A scan goes through the
directories in their order and passes over those that were not listed.  `blind`
and `crowded` record what the properties except: an edit nothing shows, two
calls at once. The scan does not depend on `cwd`, the working directory;
`PromptFile` does.  It is what `get_skill_body` reads: below another working
directory the file of the same directory there (`Foreign`, for those in
`Elsewhere`) or none, in the repository the file of `disk`, or none when
`validate_read_path` refuses it because it leads out of `skills/` (`Barred`).

### Guardrails and Workspace

A location is a sequence of names, a path is absolute or not and may hold `..`
and links.  The operators are told which links there are, since a clear unlinks
some.  `Resolve` is `Path.resolve`, `Normalized` is `os.path.normpath`; the
two validators are translated branch by branch.  In `Workspace` an open file is
part of the thread that has it open: `Truncated` empties the file at once, `Writes`
puts the text over what is there then, and `Unlink` leaves a writer with a file
that has no name any more.  `raced` is the set of files two calls, or a call and
a clear, had open together: of these the last writer's text may survive, or a
mixture, and no property speaks of them.  A department that was given up goes
on, into the next turn (`StartTurn`) and past a clear.

A clear takes its entries one by one: a file loses its name (`Unlink`), a link is
gone (`UnlinkLink`), so that `place`, what each path means, changes under the
departments that are at work.  What a department did reaches the parent at the
end of the fanout: `ops[d]` is what it has recorded while the parent waits for it,
emptied when it fails or is given up (`Forgotten`); when all have their outcome
`Fold` adds what was recorded by those that answered to `told`, or `FoldRaises`
tells nothing of any of them, because one recorded a path that is not a string
(`SchemaRefuses`, `spoilt`).

### RemoteCalls

`loop` is the state of each event loop the bridge has made, `home[t]` the one
`_get_loop` gave a thread, and a coroutine moves only while its loop runs.
`remote` is the truth at the agent's side, `view` what `_call` knows.  An
artifact is its number; a stream may end before the task does, because it is
broken off, or go on for ever: `StreamStatus` is always possible, with or without
news, and every occurrence is a step (`beat`), so that nothing but the agent ends a
stream.  An agent may leave out the task's id, which is needed to poll.
`Stranded` is a thread whose loop was closed under it: `run_sync` waits for ever
then, which `CallEnds` excepts; of an agent it assumes that its stream ends, of a
fetch nothing.

## 4. The runs

A passing run explores the whole state space of its instance.

| Run | Instance | What it shows |
|---|---|---|
| `engine_fanout` | two parallel, one serial department, two threads, batches of two, one model call and one write each, the serial department with more tools than are bound | `AccountingExact`: from the moment the node returns, the parent's writes and audit are those of the departments that answered, its tokens those of their loops' replies, which is all they paid for but the sorter's call of a department that needs one; and no thread can change that later. `RequestOrder` (results in the router's order, however departments finish), `NoLateStart` (given-up work in the executor's queue never starts), `MeetsContract` |
| `engine_dispatch` | batches of one, one thread, a remote department, one refresh at any moment | `InFlightCap`, `SerialAfterParallel`, `EveryDepartmentReported`; `FanoutEnds` although any thread may hang for ever |
| `loop_calls` | a file tool, a tool that raises, an unbound name; two replies of up to two calls; three attempts | `TranscriptPaired`, `AuditMatchesCalls`, `EffectsBounded`, `LoopEnds`, `MeetsRun` |
| `graph_turns` | a specialist and `general`, two prompts, one name in a reply, one write, one refresh, a rerun of the page at any moment | `OwnAnswer`: on the page and in the thread an answer follows its own prompt and is made of its own turn's data. `ScreenIsThread`: as long as no run has saved over a newer one, the page shows what the thread holds. `TurnEnds`, `MeetsConversation` |
| `memory_window` | six messages, two tool calls, windows of one to four messages with `min_keep` 0, 2 and 8 | `SessionComplete` (one writer reads back what it wrote), `WindowKeepsPairs`, `WindowBounded`, `SummaryOnlyGrows` |
| `runtime_registry` | two threads, three departments, a file tool or an MCP tool that changes twice (the latter may not be loaded), one reset of either kind at any moment | `UndisturbedCallable`, `LoadedIsCurrent` (no edit is hidden by a key that counts it), `FactoryResetIsFresh` |
| `tool_selection` | a built-in tool, a server's two tools, a file tool; files and servers that repeat those names; allowlists of up to three entries, replies of up to three names; caps of two and three; one renamed file tool, A2A agents; schemas of two fields with unions, and every payload for them | `OnlyDeclared` (nothing undeclared, and not nothing), `ReachesBound`, `PayloadArrives` |
| `remote_calls` | an agent of up to two artifacts, two polls, a page of up to three pieces with a limit of two and one redirect, one close of the bridge at any moment | `AnswerWhole`, `BridgeAlive`; `CallEnds`: a fetch returns, and so does a call whose stream ends, although the agent may work for ever |
| `workspace_files` | two departments of one turn or two, two calls, two texts, files of earlier sessions or none, four paths (plain; absolute, below `./workspace`; through a link inside; through a link out), three workspace roots (`./workspace`, the working directory itself, elsewhere), a link inside in each of them and one out of the last, one clear | `SerialText`: a file nobody shares holds what its calls leave one after another. `WrittenIsReadable`; `ChangesAreTold`: who changed a file last has told of a call that led there, if its answer was folded |
| `roster` | two directories, five frontmatters (its own name, the other's, the other's department, a remote agent's name, none), one file that leads out of `skills/`, another working directory with one of them, two edits or removals, two discoveries or refreshes | `CacheIsDisk`, `RosterFresh`, `OwnPrompt` |

Why the bounds are enough: three departments are the fewest that give a batch
with a remainder and a serial group behind a parallel one; two threads are the
fewest in which one abandoned thread runs beside live work, one thread the
fewest in which a department waits in the queue past its deadline.  Two replies
reach the budget with work done before and after a retry.  Two turns are the
fewest in which a leftover can be shown, and in which a run can save over
another.  Six messages hold two calls with
their results and text on both sides of every cut; windows of one and two are
the edges of `min(max(min_keep, max_history // 2), max_history - 1)`.  Two
threads are the fewest that race for the registry, a third department the
fewest that comes after the race, two changes the fewest in which an old tool
differs from the one a reset should have brought, and in which a load can lie
between two edits.  Caps of two and three under
four tools let both caps cut, and three names in a reply let it repeat, invent
and overflow.  Two fields let one be pruned while the other stays, and a schema's
types hold each kind of union: a known member first, null first, an unknown
first.  Two artifacts and two polls let a task end before, between and after
what is streamed and polled; the second loop is the one a call makes after a
close.  Two file calls meet at one file, or at two, or before and after a clear or
a turn; that earlier sessions may have left files gives an edit something to do
without a call before it (they leave the same text everywhere, since calls do not
compare files).  Three roots tell names below the working directory from
others, and the root's own `workspace/` from a folder of that name.  Two edits
and two calls let one edit fall into a scan and be found, or missed, by the next;
of the two directories one is barred and the other is found elsewhere, so that
each way to a prompt is taken.  In `engine_fanout` only the serial department
sorts its tools, as `skills/general` does.  Each property has a mutant in
`PROJECT.json`: a plausible bug in the modelled code under which the same
instance violates it, so none of the instances is too small for its property.

**Fairness.**  `SubAgentEngine`: `WF_vars(Loop)`, the event loop.  It is never
blocked, since departments run on threads, its timers fire, and the join of the
executor has a timeout; nothing is assumed of the threads.  `ToolLoop`:
`WF_vars(Next)`, every model or tool call ends; that is an assumption about the
outside (client timeouts), and the reason why the engine, which has a deadline
of its own, does not rely on it.  `DeepAgentGraph`: `WF_vars(GraphStep(t))`, a
started node ends, which `FanoutEnds` justifies for the fanout, and
`WF_vars(ScriptStep(t))`, the script's thread is not starved.  `RemoteCalls`:
`WF_vars(Schedule(t))`, the caller's thread runs; `WF_vars(AgentStep(a))` and
`WF_vars(FetchStep(f) \/ FetchFails(f))`, the loop runs its coroutines and each
single await of theirs has a timeout; nothing of the remote agent or of the close.
An agent that streams for ever satisfies this fairness, one status event after
another, which is why `CallEnds` states its condition.  No
fairness is given to prompts, reruns, refreshes, resets or changes of the
outside.  Deadlock is checked in every run: the states in which a system may
stop have an explicit `Done` step.

## 5. Disagreements between the repository and its code

Each is a run of its own with one property, which TLC finds violated.

| Run | The repository says | The code does |
|---|---|---|
| `engine_siblings` | `README.md:63`: one failing department "never drops its siblings' results" | one recorded `path` that is not a string makes the node raise at `graph.py:119`, and a department that answered, and recorded nothing of the kind, loses its result |
| `graph_overlap` | `orchestrator.py:127`: the window is "the real conversation — including the current turn's user message" | the node of a stopped script saves over the new turn's prompt before its router reads the window |

Seen while modelling, without a run.

The fanout and the session:

- `README.md:22` says that token spend and every file write fold back.  A
  timed-out or failed department reports a default `SubagentRun`, so that its
  spend and writes are in no channel.  Neither is the model call with which a
  department's thread narrows its tools (`subagents.py:542`, `relevance.py:109`),
  whose usage nobody reads; `skills/general` allows nine tools and
  `MAX_SHORTLISTED_TOOLS` is five, so it is made in the shipped configuration
  (`AccountingExact` says what is in the channels).
- When the audit entry raises (`engine_siblings`), the writes of all departments
  of that turn are told to nobody (`FoldRaises`).
- `README.md:57` says "routing always lands somewhere"; an `enhanced_query`
  that is a number or an object raises in a log line, `orchestrator.py:165`.
- A fenced JSON envelope is taken for an answer by `_is_envelope`
  (`graph.py:172`) when no department resolves.
- After an abandoned script's node has saved last, the turns that others had
  saved in between are gone from the thread's history.
- Departments marked `parallelizable: false` share one gather with each other,
  so "runs alone" holds for one of them only; threads abandoned at a deadline
  work beside the next batch, so the "Concurrency cap" of `config.py:59` bounds
  what is awaited (`InFlightCap`), not what runs.
- `_latest` goes stale when `append_message` and the graph both write
  (`SessionComplete` is stated for one writer, and no production code calls
  `append_message`).

Tools and departments:

- A reset beside running work is not atomic with the readers of two caches:
  `_get_cached_model` (`agent_factory.py:162-167`) tests for its key and reads
  it again, so `clear()` in between raises a `KeyError` in that department;
  `get_deep_agent` (`graph.py:211-212`, `244-245`) reads `_compiled_graph`
  twice, so a reset in between hands its caller `None`.
- `subagents.py:249` says "a bound tool is never silently uncallable"; two
  departments that build the registry together leave the one assigned last
  without what the other bound (`UndisturbedCallable` excepts that).
- `subagents.py:461` keeps first occurrences "so the bound list has no
  duplicates"; a sorter's reply that repeats a name binds its tool twice
  (`relevance.py:123`).
- The comment at `registry.py:116` gives a sorter that can not be reached the
  whole allowlist, but `sort_tools` catches that error itself and returns the
  first few, so that only a missing model does.
- The docstring of `_ToolDispatcher` (`subagents.py:281`) says validation errors
  re-raise at once, but `utils.py:30` retries one whose text contains a marker
  such as `500`.
- `write_ops` gives every recorded call the status `executed`, refused ones too.
- `CODEBASE_GUIDE.md:316` says that `graph.reset_deep_agent` nulls
  `_TOOL_REGISTRY`, which only `agent_factory.reset_deep_agent` does.
- `CODEBASE_GUIDE.md:132` takes the prompt of a department from its own
  directory; a `department:` that names another one gives it that one's prompt,
  or none (`OwnPrompt` excepts it).  `CODEBASE_GUIDE.md:210` requires a name and
  a description, which the code does not.
- `subagents.py:75` wants a rebuild after a chdir to find every department.  It
  does, but their prompts are read below `skills/` of the working directory
  (`memory.py:38`): after a chdir a department runs with the prompt of another
  project, or with none, as it does in the repository when its SKILL.md is a link
  out of `skills/`, which discovery follows and `validate_read_path` refuses
  (`OwnPrompt` says when).
- `discover_subagents` reads its cache twice: two overlapping calls may return
  `None` (`ServesNone`), or serve one another's older scan.  A directory that
  appears and goes again around a scan leaves it in the cache under a key that
  shows nothing.
- A union whose first member is `null` accepts nothing else; a required union
  that starts with a type refuses null; a required null is pruned by the dispatch
  and then refused by the tool, where `validation.py:166` says a nullable field
  keeps its `None`.  A numeral is converted for an integer.

Files and calls:

- A clear, or another department, that meets an open file leaves a mixture of
  texts, or none.  `edit_file` truncates before it writes, so that a failing write
  loses what was there.
- `list_files` names files relative to the workspace, while `read_file` refuses
  such a name unless it starts with `workspace/`.
- `a2a_client.py:121` says that the call blocks until there is a result or the
  timeout elapses.  The `timeout` bounds one HTTP request, or one read of the
  stream, not the polls; the stream has no bound at all, and an agent that goes on
  sending status events keeps its caller for ever.  `CallEnds` therefore asks that
  the stream ends.
- A clear unlinks links (`guardrails.py:124`): a path the parent was told may mean
  another file afterwards, while the one that was changed is still there
  (`ChangesAreTold`).
- A page of exactly the byte limit is marked as truncated (`research_fetch.py:88`).

- A file below `./workspace` is displayed as `workspace/...`, which is also the
  alias of the root.  When the root is elsewhere, above (an absolute path, or
  `x/../workspace/a` under the working directory) or below (nearly every path),
  the name a tool replies with is that of another file.  `WrittenIsReadable`
  excepts these files by name (`Shadowed`), and no others.

## 6. The proofs

Every theorem is about all values of the constants that satisfy the named
assumption of its module; TLC evaluates these assumptions in the runs.  Each
inductive invariant was checked by TLC on the instance of the run before it was
proved: the properties the runs check are seldom inductive as they stand.

### The engine

`SubAgentEngine_proofs` proves, for every finite set of departments, every
`MaxParallel` and `Slots`, and every bound, from `EngineAssumption` alone:

| Theorem | Statement |
|---|---|
| `TypeCorrect` | `Spec => []TypeOK` |
| `DispatchInvariant` | `Spec => []Dispatch`: the inductive invariant of the dispatch |
| `EngineInvariant` | `Spec => []EngineInv`: dispatch, threads and accounting together |
| `CapRespected` | `Spec => []InFlightCap` |
| `AllReported` | `Spec => []EveryDepartmentReported`, with any number of refreshes |
| `AccountingCorrect` | `Spec => []AccountingExact` |
| `NeverLate` | `Spec => NoLateStart` |
| `EngineMeetsContract` | `Spec => MeetsContract`: the engine implements `FanoutContract` |
| `OrderInvariant` | `Spec => []Order`, with `Dispatch` the inductive invariant of the order |
| `ResultsAreOrdered` | `Spec => []RequestOrder` |
| `SerialComesLast` | `Spec => []SerialAfterParallel` |

The invariant `EngineInv` has five parts:

- `Cover` and `Distinct`: between the split and the end each department the
  node found registered is in exactly one place: still to be grouped, in the
  parallel or the serial group, in the batch under gather, or in the results,
  and in none of them twice.  `EveryDepartmentReported` is this at the end.
- `Tasks`: a department has a task exactly when it is under gather or in the
  results, and in the latter case the task is resolved; a batch is no longer
  than the cap.  `InFlightCap` follows with the cardinality of a range.
- `Work`: what a task's state says of its thread.  The important conjunct is
  `answered => returned`: an answer is only delivered by a thread that is done.
  The last one bounds what is paid beside the calls reported to one sorter's call.
- `Accounts`: the channels before and after the fold.  It is stable because a
  thread that is done neither pays nor records (`Work`), so that the sum over
  the departments that answered, `ChildTokens`, no longer changes although
  abandoned threads go on (`ChildFrame`, `SumCongruence`).

`Order` says, for a registry that stands still, that every list of the dispatch
is sorted and that they come one before another: what is merged before what is
under gather, that before what is still in a group; a group's names before those
still to be grouped.  The groups are sorted by the router's order (`Named`), what
is gathered and merged by the order of the result (`Merged`: the parallel group
first).  `RequestOrder` alone is not inductive because it says nothing of the
names that are still to come, and `SerialAfterParallel` is its consequence
because a serial name under gather precedes no parallel one that is left.

`DataLemmas` proves what these rest on: what appending, splitting, taking the
head and concatenating do to range, repetitions and order; that `FlattenSeq` and
`SumFunctionOnSet` of the community modules satisfy the equations they are
used by (both are defined by CHOOSE over recursive functions, so existence is
proved first, from a least-element principle stated without an operator
parameter).

### The tool loop

`ToolLoop_proofs` proves, for every set of tools, every number of attempts,
replies and calls in a reply, from `ToolLoopAssumption`:

| Theorem | Statement |
|---|---|
| `LoopInvariant` | `Spec => []LoopInv`, the inductive invariant |
| `LoopTypeCorrect` | `Spec => []TypeOK` |
| `TranscriptIsPaired` | `Spec => []TranscriptPaired` |
| `AuditIsTheCalls` | `Spec => []AuditMatchesCalls` |
| `EffectsAreBounded` | `Spec => []EffectsBounded` |
| `LoopMeetsRun` | `Spec => MeetsRun`: the loop implements `DepartmentRun` |

`TranscriptPaired` speaks of the moments the model is asked; `Shape` says what
holds in between: replies before the last are followed by all of their answers,
the last one by those of the calls before `next`.  `EffectsBounded` needs to know
how often the call under way has failed: an attempt that had its effect and then
raised has been counted, and a file call has had no effect while it is tried
(`EffectsInv`).  That a call of a later reply has a greater id than all earlier
ones, which keeps the audit in order, comes from `Shape` as well.

### The session

`DeepAgentGraph_proofs` proves, for every set of departments and any number of
turns, from `GraphAssumption`:

| Theorem | Statement |
|---|---|
| `GraphInvariant` | `Spec => []GraphInv`, the inductive invariant |
| `GraphTypeCorrect` | `Spec => []TypeOK` |
| `AnswersAreOwn` | `Spec => []OwnAnswer` |
| `GraphMeetsConversation` | `Spec => MeetsConversation`: the session implements `Conversation` |
| `ScreenInvariant` | `Spec => []ScreenInv`, the inductive invariant of page and thread |
| `ScreensAreThreads` | `Spec => []ScreenIsThread` |

`OwnAnswer` speaks of page and thread.  What can break it is a run: the responder
appends to the messages of its own channels, and these become the thread's.  So
`RunInv` says that a run's messages end with its own prompt and, from the router
on, that what it has staged is its own turn's, whatever the checkpoint it
started from held; `ScriptInv` that only the newest turn's script is live, that
the page waits for its answer, and that what it has yet to show is that turn's.
The refinement needs the second of these: a script shows an answer at most once,
and before the next prompt.

`ScreenIsThread` compares the page with the newest checkpoint, but that one is
the newest run's only after it has saved.  `ScreenInv` therefore looks through
`View`: the channels of the newest run while it is in the graph, the thread
otherwise, and says that these and the page tell the same of every turn but for
what the turn's script has yet to show (`TellInv`).  A run that has been overtaken
may still save; then the thread is not the newest run's any more, and `TellInv`
goes on to speak of the newest run alone, unless that has ended (`Told`).  When the
newest run ends without saving, the thread takes its place, and `SaverInv` says
that it is the same if that run saved last.  `WaitInv` keeps what waits to be
shown the turn's own, once and after the router, so that a turn's writes are on
the page in full or not at all.

### The session's memory

The same module proves of `SessionMemory`, for any number of messages and
calls, any limits and however the random ids fall, from `MemoryAssumption`:

| Theorem | Statement |
|---|---|
| `MemoryInvariant` | `MemorySpec => []MemoryInv`, the inductive invariant |
| `MemoryIsComplete` | `MemorySpec => []SessionComplete` |
| `WindowsKeepPairs` | `MemorySpec => []WindowKeepsPairs` |
| `WindowsAreBounded` | `MemorySpec => []WindowBounded` |
| `SummariesOnlyGrow` | `MemorySpec => SummaryOnlyGrows` |

`WriterInv` says what a single writer leaves: the graph alone writes no index,
and of `append_message` alone what it indexed is read, so that the order of the
ids never decides.  `WindowKeepsPairs` speaks of one window, but two writers
may have left two histories; what is kept of each is that no result stands
in it twice (`OneResult`), and of all that was said that a call stands once and
before its result (`OneCall`).  The last is what makes the first inductive: a
result is only written for a call that waits, and a call that stood twice could
have its result and wait.  A result that is shown while its call is under the
cut would then have to stand under the cut as well, since no call waits there
(`SafeFacts`).  The bound and the growth of the summary are facts about
`SafeBoundary` of one history, and of that history and one message more.

### Calls out of the process

`RemoteCalls_proofs` proves, for any sets of agents and fetches, any number of
artifacts, polls, redirects and loops, from `RemoteAssumption`:

| Theorem | Statement |
|---|---|
| `CallsInvariant` | `Spec => []CallsInv`, the inductive invariant |
| `CallsTypeCorrect` | `Spec => []TypeOK` |
| `BridgeStaysAlive` | `Spec => []BridgeAlive` |
| `AnswersAreWhole` | `Spec => []AnswerWhole` |

`BridgeAlive` is kept by a close because the loop it stops is no longer the one
that is handed out (`CloseInv`).  `AnswerWhole` needs what a call knows while it is
still at work (`AgentInv`): the artifacts it holds are the first ones the agent
made, in order, and a final state in the stream is the agent's own with all its
artifacts before it; and for a page that less than the limit has been read while
there is more to read (`PageInv`).

### The workspace

`Workspace_proofs` proves, for any departments, roots, paths and links, from
`WorkspaceAssumption` and `GuardrailsAssumption`, which say that the working
directory, the roots and what links lead to are resolved places (`Real`), as
`os.getcwd` and `Path.resolve` return them:

| Theorem | Statement |
|---|---|
| `WorkspaceInvariant` | `Spec => []WorkInv`, the inductive invariant |
| `WorkspaceTypeCorrect` | `Spec => []TypeOK` |
| `TextsAreSerial` | `Spec => []SerialText` |
| `ParentHearsOfChanges` | `Spec => []ChangesAreTold` |
| `WrittenFilesAreReadable` | `Spec => []WrittenIsReadable` |

`TextInv` says of a file nobody has raced for what its one user still knows: what
it has read is what the file holds, and an open file is empty and still has its
name.  `LinkInv` is there because an open file whose name is gone must not count
as one: a clear that meets it makes the file raced.  `ToldInv` relates what a
department recorded to the files it is at and has changed, by the file each path
meant when the call was made, which is why an absolute or linked name does not
hide a change: it is in `ops` while the parent waits, and in `told` once the answer
is folded, to which `Fold` only adds.  While all links stand a path means what it
meant (`place`).  The first four hold whatever `Resolve` makes of a path.

`WrittenIsReadable` rests on what `Resolve` does, which goes through a path name
by name: whatever it is given it returns a `Real` place (`ResolveIsReal`), a `Real`
place is its own (`ResolveOfReal`), and so are its beginnings (`RealPrefix`).  What
`_checked_file` lets through is therefore a file it lets through again, unchanged
(`CheckedFacts`, `CheckedAgain`), whichever branch of `validate_and_normalize_path`
made its target; what remains is that `validate_read_path` takes the displayed
name back to that file (`DisplayedIsRead`).  The links of the moment are the
operators' first parameter; what a path meant under more links is still a real
place under fewer (`RealFiles`).

### The tools of the process

The same module proves of `ToolRuntime`, for any number of threads, departments,
edits and resets, from `RuntimeAssumption`:

| Theorem | Statement |
|---|---|
| `RuntimeInvariant` | `RuntimeSpec => []RuntimeInv`, the inductive invariant |
| `UndisturbedIsCallable` | `RuntimeSpec => []UndisturbedCallable` |
| `LoadsAreCurrent` | `RuntimeSpec => []LoadedIsCurrent` |
| `FactoryResetsAreFresh` | `RuntimeSpec => []FactoryResetIsFresh` |

- `RegistryInv`: what the loop of `_registry_for` has passed is in the global
  registry, unless another thread has assigned it since; what is returned is in
  the object the department keeps.  Other threads may add to that object
  meanwhile, but nothing is ever taken out of one (`LoopFrame`).
- `FileInv`: the cached file tools are no older than their key.  Between the two
  assignments the cache has a new tool and an old key, which is still right, as
  keys only grow; the key that follows is right because the tool stored is the
  thread's own (`KeyOK`), which needs that no two threads load at once (`Alone`).
  With the assignments swapped, or the key computed late, it fails.
- `FreshInv`: a server's tool in the cache, in any registry that is in use, or in
  a thread's hands is none or no older than the last quiet factory reset.  When
  such a reset ends nothing may be left that is older: `ResetInv` says that while it
  is quiet no department runs, the registry is dropped and the cache empty, and
  `IdleInv` that a department which does not run holds nothing.
- `ServerKey`: the servers' configuration does not change while the process runs.

### The roster

`Roster_proofs` proves, for any list of directories without repetitions, any
frontmatters and remote agents, any number of threads, calls and edits, from
`RosterAssumption`:

| Theorem | Statement |
|---|---|
| `RosterTypes` | `Spec => [](TypeOK /\ StampInv)`: what holds however calls overlap |
| `RosterInvariant` | `Spec => []RosterInv`, the inductive invariant |
| `PromptsAreOwn` | `Spec => []OwnPrompt` |
| `CachedIsDisk` | `Spec => []CacheIsDisk` |
| `RosterIsFresh` | `Spec => []RosterFresh` |

`StampInv` says that an entry, wherever it is held, has the department of its
file for as long as that file is the one it was read from; no edit has the
number of an earlier one, so it can not become true of another file.  It needs
no exclusion and gives `OwnPrompt`, in each case of `PromptFile`.

The other two hold until calls overlap (`FreshInv`), and say nothing of a scan
but what it will be compared with.  A key shows no later edit than the last and
every file that was there from the start (`Seen`), so that an edit which is not
blind tells every key made before it from the tree's (`EditShows`).  `CallInv`
keeps, for a call, that a scan whose tree stands `Still`, since the call began
or since it hashed, has found the files of the directories it is past; that what
a refresh has found is no older than its beginning (`Recent`), which is where
dropping the cache is used: a refresh is never served; and for the moment
between the two assignments that the scan stored is the call's own.
`RegistryExact` is the operator's part: of a whole scan the registry names what
the files declare, and of two directories with one name the first.  It rests on
`PrefixFacts`, an induction over the directories by the least-element principle.

### Selection and payloads

`ToolSelection_proofs` proves, for every set of names, claims, files, servers and
agents, every allowlist and every reply of the sorter, and for every schema whose
properties are unions of the modelled types and every payload:

| Theorem | Statement |
|---|---|
| `OnlyTheDeclared` | `Spec => []OnlyDeclared` |
| `CallsReachBound` | `Spec => []ReachesBound` |
| `PayloadIsKept` | `PayloadKept(sch, pay)`: an operator's theorem, no behaviour involved |
| `PayloadsArrive` | `Spec => []PayloadArrives`, from `PayloadIsKept` and the type of what `Dispatch` chose (`CalledTyped`) |

Of the selection: what an allowlist lets through is what is in the toolset and in
one of its entries, exactly (`AllowedFacts`), and every way to a shortlist picks some
of that (`SelectedFacts`).  What the registry is built with under a name is a tool of
the toolset that has or declares that name (`BuiltFacts`); what it lacks is added
from the bound tools.

Of the payloads: pruning a payload twice changes nothing (`PrunedFields` for the
first, applied again), so that what survives the dispatch's check and pruning
is what arrives (`SentIsWhole`); and a value that conforms to a single type is
admitted as that type before and after its conversion (`PlainIsSent`), so that
the second check can not refuse what the first let through.

### Model-checked only

- Liveness (`FanoutEnds`, `LoopEnds`, `TurnEnds`, `CallEnds`) and the fairness part
  of refinements: out of the prover's reach.

## 7. What is not shown

- Texts: prompts, the layout of the aggregated answer, log lines, the wording of
  errors.  Where a property depends on one it is modelled by what it does.
- `verify`'s verdict is advisory (it is logged and otherwise unused); only that
  it may raise is modelled.
- Token usage over turns: `DeepAgentGraph` leaves it to the engine, where one
  fanout's accounting is exact but for the sorters.  A thread abandoned in one
  fanout ends with the model of that fanout; its file calls go on in
  `Workspace`, its model calls are paid for and counted nowhere.
- The page is shown step by step, but a rerun takes effect only where the script
  calls the user interface between two items; within one item it is atomic.
- Files two calls, or a call and a clear, have open together: `SerialText` excepts
  them, as the guardrails' own docstring excepts concurrent changes of the tree.
- Links that lead over other links (`GuardrailsAssumption`), and calls a fold's raise
  has nothing to do with: `ChangesAreTold` is about answers that were folded.
- Caches that several threads use at once: `UndisturbedCallable` excepts a department
  that another overtook, `FactoryResetIsFresh` a reset with a department in between,
  and of tools that could not be loaded nothing is claimed.  In these the code does
  lose tools, or keeps old ones; the hazards say so at their lines.
- `SessionComplete` is about one writer, `InFlightCap` about what is awaited.
- Aliases of departments (no spec has any), the text of frontmatters, the
  discovery of `tool_spec` tags, which nothing reads at run time.
- In `Roster` the cached scan and its key are dropped in one step; the loader of
  tools drops its key in a step of its own (`ClearKey`).
- Nested objects are payloads of their own and are checked in the same way; the
  payload checks are those of MCP tools, which pass through all of the steps.
- A call of a remote agent whose stream never ends: it does not return, and no
  property says what becomes of its thread.  A stream reports its final state
  after its artifacts; artifacts that append to or replace an earlier one, and a
  Task chunk sent twice, are not modelled.  The bridge's loop stops within the
  five seconds of the join.
- Which addresses are public, what text a page holds, HTML: a fetch may be
  refused at any request.
- The compiled graph and model client caches: they are rebuilt from
  configuration on demand and hold no data of a turn.
- The terminal loop of `main.py`, which runs one turn at a time on one thread,
  as the session without reruns.
- The mock server, sample tools, manual checks under `scripts/` and the skills'
  texts are not part of the running system.

## 8. Plan

Done, in this order: `FanoutContract` and `SubAgentEngine`; `DepartmentRun` and
`ToolLoop`; `Conversation` and `DeepAgentGraph`; `SessionMemory`;
`ToolRuntime`; the proofs about the engine; `ToolSelection`; `RemoteCalls`;
`Guardrails` and `Workspace`; `Roster`; `Payload` and its proofs; the browser
session in `DeepAgentGraph`; the file tools in `ToolRuntime`.

Proved since: the order of the engine; the tool loop; the session; the calls out
of the process; the workspace; the roster; the selection; the session's memory;
the tools of the process; the page and its thread; the names of the files.

Every safety property the runs check is now a theorem; liveness is left to TLC
(section 6).

## 9. How to run it

    tlc -workers 2 -config MCSubAgentEngine_fanout.cfg MCSubAgentEngine
    tlapm SubAgentEngine_proofs.tla

Each configuration is named after its MC module and run.  The passing runs take
between a few seconds and three minutes each, the proofs some minutes.
