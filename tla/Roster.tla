------------------------------- MODULE Roster -------------------------------
(***************************************************************************)
(* Where the departments come from: skills/<dir>/SKILL.md, the cached scan *)
(* of that tree, SUBAGENTS, and the prompt a department runs with.         *)
(*                                                                         *)
(* discover_subagents hashes modification times and sizes, serves its      *)
(* cache when the hash is the one it stored, and reads the files one by    *)
(* one otherwise.  refresh_subagents drops the cache, discovers and binds  *)
(* SUBAGENTS anew.  Neither holds a lock: files are edited, and other      *)
(* calls are made, between any two steps.                                  *)
(*                                                                         *)
(* The scan is anchored at the repository, the prompt is not: it is read   *)
(* below skills/ of the working directory, by a reader that refuses a file *)
(* which leads out of there.                                               *)
(***************************************************************************)
EXTENDS Naturals, Sequences, FiniteSets, Functions, SequencesExt

CONSTANTS
    Call,       \* threads that discover or refresh
    Dirs,       \* directories skills/ may hold, in the order they are sorted
    Header,     \* frontmatters a SKILL.md may have
    Blank,      \* an absent or empty name or department
    Remote,     \* names of A2A_AGENTS, fixed when the process starts
    Barred,     \* directories whose SKILL.md is a link out of skills/
    Elsewhere,  \* directories another working directory has below its skills/
    MaxEdits,   \* bound: edits of files under skills/
    MaxCalls    \* bound: discoveries and refreshes

Dir == Range(Dirs)

\* A SKILL.md is its frontmatter and the edit that wrote it; `written` is
\* the edit its modification time and size still show.
NoFile == [written |-> 0]
\* A SKILL.md of another project
Foreign(d) == [project |-> "another", of |-> d]
\* The frontmatters of skills/*/SKILL.md: the name of the directory, no department.
Shipped(d) == [name |-> d, department |-> Blank, valid |-> TRUE]
File == [front : Header, edit : 0..MaxEdits, written : 0..MaxEdits]

ASSUME RosterAssumption ==
    /\ Dirs \in Seq(Dir) /\ IsInjective(Dirs)
    /\ \A d \in Dir : Shipped(d) \in Header
    /\ \A h \in Header : h.department \in Dir \cup {Blank} /\ h.valid \in BOOLEAN
    /\ MaxEdits \in Nat /\ MaxCalls \in Nat

\* _skills_cache: None, or one scan.
NoScan == <<>>
Held(scan) == <<scan>>

VARIABLES
    disk,       \* of each directory: its SKILL.md, or NoFile
    edits,
    cwd,        \* the working directory: "repository" or "elsewhere"
    cache,      \* _skills_cache
    cache_key,  \* _skills_cache_key
    registered, \* SUBAGENTS
    call,       \* of each thread: the call it is in
    calls,
    blind,      \* history: an edit the cached scan lacks and no key shows
    crowded,    \* history: two calls overlapped
    as_of       \* history: the edits made when the call that bound registered
                \* began

history == <<blind, crowded, as_of>>
vars == <<disk, edits, cwd, cache, cache_key, registered, call, calls, history>>

Idle == [pc |-> "idle", refresh |-> FALSE, key |-> <<>>, listed |-> {}, todo |-> <<>>,
         found |-> <<>>, since |-> 0]

-----------------------------------------------------------------------------
\* _directory_tree_key: the files there are, with the time and size they show.
TreeKey ==
    [d \in {e \in Dir : disk[e] # NoFile} |-> disk[d].written]

\* Mutated form of Entry: a missing department is taken from the name.
EntryByName(d, file) ==
    [name |-> file.front.name,
     skill |-> IF file.front.department # Blank THEN file.front.department
               ELSE IF file.front.name # Blank THEN file.front.name ELSE d,
     from |-> d, edit |-> file.edit]

\* What one SKILL.md contributes to the scan; `from` is its directory.
Entry(d, file) ==
    [name |-> file.front.name,
     skill |-> IF file.front.department = Blank THEN d
               ELSE file.front.department,
     from |-> d, edit |-> file.edit]

\* _parse_skill_file: a file without well-formed frontmatter is skipped.
Parsed(d) ==
    IF disk[d] = NoFile \/ ~disk[d].front.valid THEN <<>>
    ELSE <<Entry(d, disk[d])>>

\* _skill_specs: the name, or else the department.
SpecName(entry) == IF entry.name = Blank THEN entry.skill ELSE entry.name

LocalSpec(entry) == [kind |-> "tool_loop", skill |-> entry.skill,
                     from |-> entry.from, edit |-> entry.edit]
RemoteSpec == [kind |-> "a2a"]

\* Of two definitions of one name the first is kept.
SkillSpecs(found) ==
    [n \in {SpecName(found[i]) : i \in DOMAIN found} |->
        LocalSpec(found[CHOOSE i \in DOMAIN found :
                            /\ SpecName(found[i]) = n
                            /\ \A j \in 1..i - 1 : SpecName(found[j]) # n])]

\* build_subagent_registry: a remote agent replaces a skill of its name.
Registry(found) ==
    LET skills == SkillSpecs(found)
    IN  [n \in Remote \cup DOMAIN skills |->
            IF n \in Remote THEN RemoteSpec ELSE skills[n]]

Scanned == FlattenSeq([i \in DOMAIN Dirs |-> Parsed(Dirs[i])])

-----------------------------------------------------------------------------
Init ==
    /\ disk = [d \in Dir |-> [front |-> Shipped(d), edit |-> 0, written |-> 0]]
    /\ edits = 0 /\ cwd = "repository"
    /\ registered = Registry(Scanned)    \* built at import
    /\ cache = Held(Scanned) /\ cache_key = TreeKey
    /\ call = [c \in Call |-> Idle] /\ calls = 0
    /\ blind = FALSE /\ crowded = FALSE /\ as_of = 0

\* A SKILL.md is written or replaced; a replacement of the same size within
\* the granularity of the clock shows the time and size of the file before.
Edit(d) ==
    /\ edits < MaxEdits
    /\ edits' = edits + 1
    /\ \E front \in Header, hidden \in BOOLEAN :
           /\ hidden => disk[d] # NoFile
           /\ disk' = [disk EXCEPT ![d] =
                  [front |-> front, edit |-> edits',
                   written |-> IF hidden THEN disk[d].written ELSE edits']]
           /\ blind' = (blind \/ hidden)
    /\ UNCHANGED <<cwd, cache, cache_key, registered, call, calls, crowded, as_of>>

\* The directory goes away; if it is a new one, the tree may look again as it
\* did before.
Delete(d) ==
    /\ edits < MaxEdits /\ disk[d] # NoFile
    /\ edits' = edits + 1
    /\ disk' = [disk EXCEPT ![d] = NoFile]
    /\ blind' = (blind \/ disk[d].edit > 0)
    /\ UNCHANGED <<cwd, cache, cache_key, registered, call, calls, crowded, as_of>>

\* os.chdir, as an application that embeds the agents may
ChangeDirectory ==
    /\ cwd' = IF cwd = "repository" THEN "elsewhere" ELSE "repository"
    /\ UNCHANGED <<disk, edits, cache, cache_key, registered, call, calls, history>>

Goes(c, pc) == call' = [call EXCEPT ![c].pc = pc]

Begins(c, pc, refresh) ==
    /\ call[c].pc = "idle" /\ calls < MaxCalls
    /\ calls' = calls + 1
    /\ call' = [call EXCEPT ![c] =
                   [Idle EXCEPT !.pc = pc, !.refresh = refresh, !.since = edits]]
    /\ crowded' = (crowded \/ \E b \in Call : call[b].pc # "idle")
    /\ UNCHANGED <<disk, edits, cwd, registered, as_of>>

\* discover_subagents is called, by itself ...
Discover(c) ==
    /\ Begins(c, "key", FALSE)
    /\ UNCHANGED <<cache, cache_key, blind>>

\* Mutated form of Refresh: the cached scan is kept.
RefreshCached(c) ==
    /\ Begins(c, "key", TRUE)
    /\ UNCHANGED <<cache, cache_key, blind>>

\* ... or by refresh_subagents, which drops the cached scan first.
Refresh(c) ==
    /\ Begins(c, "key", TRUE)
    /\ cache' = NoScan /\ cache_key' = <<>>
    /\ blind' = FALSE

HashTree(c) ==
    /\ call[c].pc = "key"
    /\ call' = [call EXCEPT ![c].key = TreeKey, ![c].pc = "check"]
    /\ UNCHANGED <<disk, edits, cwd, cache, cache_key, registered, calls, history>>

\* A scan under this key is there.  The variable is read again to return it.
Hit(c) ==
    /\ call[c].pc = "check" /\ cache # NoScan /\ cache_key = call[c].key
    /\ Goes(c, "serve")
    /\ UNCHANGED <<disk, edits, cwd, cache, cache_key, registered, calls, history>>

Serve(c) ==
    /\ call[c].pc = "serve" /\ cache # NoScan
    /\ call' = [call EXCEPT ![c].found = Head(cache), ![c].pc = "found"]
    /\ UNCHANGED <<disk, edits, cwd, cache, cache_key, registered, calls, history>>

\* A refresh has dropped it meanwhile: None is returned, and iterating over
\* it raises.
ServesNone(c) ==
    /\ call[c].pc = "serve" /\ cache = NoScan
    /\ call' = [call EXCEPT ![c] = Idle]
    /\ UNCHANGED <<disk, edits, cwd, cache, cache_key, registered, calls, history>>

\* The directories are listed once, and gone through in their order.
Miss(c) ==
    /\ call[c].pc = "check" /\ ~(cache # NoScan /\ cache_key = call[c].key)
    /\ call' = [call EXCEPT ![c].pc = "scan",
                   ![c].listed = {d \in Dir : disk[d] # NoFile}, ![c].todo = Dirs]
    /\ UNCHANGED <<disk, edits, cwd, cache, cache_key, registered, calls, history>>

ScanOne(c) ==
    /\ call[c].pc = "scan" /\ call[c].todo # <<>>
    /\ LET d == Head(call[c].todo)
       IN  call' = [call EXCEPT ![c].found = IF d \in call[c].listed THEN @ \o Parsed(d) ELSE @,
                                ![c].todo = Tail(@)]
    /\ UNCHANGED <<disk, edits, cwd, cache, cache_key, registered, calls, history>>

\* Cache and key are two assignments.
StoreScan(c) ==
    /\ call[c].pc = "scan" /\ call[c].todo = <<>>
    /\ cache' = Held(call[c].found)
    /\ Goes(c, "store key")
    /\ UNCHANGED <<disk, edits, cwd, cache_key, registered, calls, history>>

\* Mutated form of StoreKey: the tree is hashed when the scan is over.
StoreLateKey(c) ==
    /\ call[c].pc = "store key"
    /\ cache_key' = TreeKey
    /\ Goes(c, "found")
    /\ UNCHANGED <<disk, edits, cwd, cache, registered, calls, history>>

StoreKey(c) ==
    /\ call[c].pc = "store key"
    /\ cache_key' = call[c].key
    /\ Goes(c, "found")
    /\ UNCHANGED <<disk, edits, cwd, cache, registered, calls, history>>

\* refresh_subagents rebinds SUBAGENTS; a bare discovery just returns.
Bind(c) ==
    /\ call[c].pc = "found"
    /\ IF call[c].refresh
       THEN registered' = Registry(call[c].found) /\ as_of' = call[c].since
       ELSE UNCHANGED <<registered, as_of>>
    /\ call' = [call EXCEPT ![c] = Idle]
    /\ UNCHANGED <<disk, edits, cwd, cache, cache_key, calls, blind, crowded>>

Step(c) ==
    \/ HashTree(c) \/ Hit(c) \/ Serve(c) \/ ServesNone(c) \/ Miss(c)
    \/ ScanOne(c) \/ StoreScan(c) \/ StoreKey(c) \/ Bind(c)

\* Nobody needs to call again, or to edit.
Done ==
    /\ calls = MaxCalls /\ \A c \in Call : call[c].pc = "idle"
    /\ UNCHANGED vars

Next ==
    \/ \E c \in Call : Discover(c) \/ Refresh(c) \/ Step(c)
    \/ \E d \in Dir : Edit(d) \/ Delete(d)
    \/ ChangeDirectory
    \/ Done

Spec == Init /\ [][Next]_vars

-----------------------------------------------------------------------------
(* Properties                                                              *)

Local(n) == registered[n].kind = "tool_loop"

\* get_skill_body: the SKILL.md a department's prompt is read from, each time
\* it runs; its frontmatter need not be well-formed.  None is read, and the
\* department runs without a prompt of its own, where there is no such file or
\* validate_read_path refuses it.
PromptFile(n) ==
    LET d == registered[n].skill
    IN  IF cwd = "elsewhere" THEN IF d \in Elsewhere THEN Foreign(d) ELSE NoFile
        ELSE IF d \in Barred THEN NoFile ELSE disk[d]

\* A cached scan that would be served is what a new scan would find, even if
\* files were edited while it was made: unless calls have overlapped, or an
\* edit kept both the time and the size of a file.
CacheIsDisk ==
    /\ ~crowded /\ ~blind /\ cache # NoScan /\ cache_key = TreeKey
    /\ \A c \in Call : call[c].pc # "store key"
    => cache = Held(Scanned)

\* The directories that declare a name, and the one the name belongs to.
Declaring(n) ==
    {i \in DOMAIN Dirs :
        LET file == disk[Dirs[i]]
        IN  file # NoFile /\ file.front.valid
            /\ n = IF file.front.name # Blank THEN file.front.name
                   ELSE IF file.front.department # Blank
                   THEN file.front.department ELSE Dirs[i]}

\* What SUBAGENTS says of a directory is not older than the beginning of the
\* refresh that bound it, even for edits that no time or size shows; when
\* nothing was edited since, each name a file declares is the first such
\* directory's, save those of remote agents, and no other name is known.
RosterFresh ==
    ~crowded =>
        /\ edits = as_of =>
               \A n \in DOMAIN registered \cup {h.name : h \in Header} \cup Dir :
                   /\ n \in DOMAIN registered
                      <=> n \in Remote \/ Declaring(n) # {}
                   /\ n \in DOMAIN registered => (Local(n) <=> n \notin Remote)
                   /\ n \in DOMAIN registered /\ Local(n)
                      => registered[n].from = Dirs[Min(Declaring(n))]
        /\ \A n \in DOMAIN registered :
               LET spec == registered[n]
               IN  Local(n) /\ disk[spec.from] # NoFile
                   /\ disk[spec.from].edit <= as_of
                       => spec.edit = disk[spec.from].edit

\* A department runs with the prompt of the file that declares it, unless
\* that file names another directory or has changed since the refresh.  When
\* the process has changed its working directory it is the prompt of the same
\* directory there, if it has one; when the file leads out of skills/ it is none
\* (memory.py:34-51).
OwnPrompt ==
    \A n \in DOMAIN registered :
        LET spec == registered[n]
        IN  Local(n) /\ disk[spec.from] # NoFile
            /\ disk[spec.from].edit = spec.edit
            /\ disk[spec.from].front.department \in {Blank, spec.from}
                => /\ cwd = "repository" /\ spec.from \notin Barred
                          => PromptFile(n) = disk[spec.from]
                   /\ PromptFile(n) \in {disk[spec.from], NoFile, Foreign(spec.from)}
=============================================================================
