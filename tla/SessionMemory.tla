---------------------------- MODULE SessionMemory ----------------------------
(***************************************************************************)
(* The history of one conversation thread: checkpoints in the shared       *)
(* MemorySaver, the index of the latest checkpoint, and the compressed     *)
(* window the orchestrator reads at the start of a turn.                   *)
(*                                                                         *)
(* Two writers exist.  The compiled graph saves checkpoints with           *)
(* time-ordered ids; append_message saves them with random ids and notes   *)
(* the newest in _latest.  Of all checkpoints only two can ever be read:   *)
(* the one with the greatest id and the one _latest names.                 *)
(***************************************************************************)
EXTENDS Naturals, Sequences, FiniteSets, FiniteSetsExt

CONSTANTS
    Calls,        \* ids of tool calls
    MaxMessages,  \* bound: messages of the thread
    Limits        \* pairs <<max_history, min_keep>> windows are read with

ASSUME MemoryAssumption ==
    /\ IsFiniteSet(Calls)
    /\ MaxMessages \in Nat
    /\ Limits \subseteq (Nat \ {0}) \X Nat

\* Messages: text of a user or of the agent, an agent message with tool calls,
\* the result of one call.
Message == [type : {"text"}]
           \cup [type : {"ai"}, calls : (SUBSET Calls) \ {{}}]
           \cup [type : {"tool"}, call : Calls]

VARIABLES
    said,      \* every message handed to a writer, in order
    top,       \* messages of the checkpoint with the greatest id
    indexed,   \* messages of the checkpoint _latest names, <<>> when none
    writers    \* which of the two writers have been used

memory == <<said, top, indexed, writers>>

-----------------------------------------------------------------------------
(* checkpoint.get_session                                                  *)

\* Mutated form of Session: the saver's order is relied on.
SessionByOrder == top

\* The index first; the greatest id for threads it does not know.
Session == IF indexed # <<>> THEN indexed ELSE top

-----------------------------------------------------------------------------
(* compression.compress_messages and window.get_window                     *)

\* Calls of the first n messages that have no result among them.
Pending(ms, n) ==
    {c \in Calls : \E i \in 1..n :
        /\ ms[i].type = "ai" /\ c \in ms[i].calls
        /\ \A j \in i+1..n : ms[j].type = "tool" => ms[j].call # c}

\* Mutated form of KeepCount: no room is left for the summary.
KeepAll(max_history, min_keep) == Max({min_keep, max_history \div 2})

KeepCount(max_history, min_keep) ==
    Min({Max({min_keep, max_history \div 2}), max_history - 1})

\* Mutated forms of SafeBoundary: the cut is where the count says; a group
\* under the cut undoes the earlier cut.
PlainBoundary(ms, cut) == cut
LostBoundary(ms, cut) == IF Pending(ms, cut) = {} THEN cut ELSE 0

\* The last place up to the cut where no call waits for its result.
SafeBoundary(ms, cut) == Max({n \in 0..cut : Pending(ms, n) = {}})

\* How many of the oldest messages the summary replaces.
Boundary(ms, max_history, min_keep) ==
    LET keep == KeepCount(max_history, min_keep)
    IN  IF keep = 0 THEN Len(ms) ELSE SafeBoundary(ms, Len(ms) - keep)

\* A window: the number of messages its summary stands for, and the messages
\* that follow it verbatim.
Window(ms, max_history, min_keep) ==
    IF Len(ms) <= max_history THEN [summarised |-> 0, recent |-> ms]
    ELSE LET b == Boundary(ms, max_history, min_keep)
         IN  [summarised |-> b, recent |-> SubSeq(ms, b + 1, Len(ms))]

Size(w) == Len(w.recent) + IF w.summarised > 0 THEN 1 ELSE 0

-----------------------------------------------------------------------------
MemoryInit ==
    /\ said = <<>> /\ top = <<>> /\ indexed = <<>> /\ writers = {}

\* What may follow: text, new calls, the result of a call that has none yet.
Following(ms) ==
    {m \in Message :
        CASE m.type = "text" -> TRUE
          [] m.type = "ai"   -> \A i \in DOMAIN ms :
                                   ms[i].type = "ai" => ms[i].calls \cap m.calls = {}
          [] m.type = "tool" -> m.call \in Pending(ms, Len(ms))}

\* append_message: its id is random, above all others or not.
AppendMessage(m) ==
    LET new == Append(Session, m)
    IN  /\ indexed' = new
        /\ \E above \in BOOLEAN :
              top' = IF above \/ top = <<>> THEN new ELSE top
        /\ said' = Append(said, m)
        /\ writers' = writers \cup {"append_message"}

\* The graph goes on from the greatest id.  Its own ids grow; one of
\* append_message may still be above.
GraphSaves(m) ==
    LET new == Append(top, m)
    IN  /\ \E above \in BOOLEAN :
              /\ "append_message" \notin writers => above
              /\ top' = IF above THEN new ELSE top
        /\ said' = Append(said, m)
        /\ writers' = writers \cup {"graph"}
        /\ UNCHANGED indexed

\* The conversation may stop at any length.
MemoryDone == Len(said) = MaxMessages /\ UNCHANGED memory

MemoryNext ==
    \/ /\ Len(said) < MaxMessages
       /\ \E m \in Following(said) : AppendMessage(m) \/ GraphSaves(m)
    \/ MemoryDone

MemorySpec == MemoryInit /\ [][MemoryNext]_memory
-----------------------------------------------------------------------------
(* Properties                                                              *)

\* A thread with a single writer reads back exactly what was written, however
\* the random ids fall.
SessionComplete == Cardinality(writers) <= 1 => Session = said

\* A result is never cut off from the call it answers: a window that shows a
\* tool message shows the agent message that made the call, when the session
\* has it.
WindowKeepsPairs ==
    LET Answers(ms, i) == \E j \in 1..i-1 : /\ ms[j].type = "ai"
                                            /\ ms[i].call \in ms[j].calls
    IN  \A l \in Limits :
            LET w == Window(Session, l[1], l[2])
            IN  \A i \in DOMAIN w.recent :
                    /\ w.recent[i].type = "tool"
                    /\ Answers(Session, w.summarised + i)
                    => Answers(w.recent, i)

\* A window holds at most max_history messages, its summary included, unless
\* a group of calls lies across the cut; it is never longer than the history.
WindowBounded ==
    \A l \in Limits :
        LET ms == Session
            w == Window(ms, l[1], l[2])
            cut == Len(ms) - KeepCount(l[1], l[2])
        IN  /\ Size(w) <= Len(ms)
            /\ Len(ms) > l[1] /\ Pending(ms, cut) = {} => Size(w) <= l[1]

\* As the thread grows, a message that has gone into the summary never
\* reappears in a later window of the same limits.
SummaryOnlyGrows ==
    [][Len(Session') > Len(Session) =>
          \A l \in Limits :
              Window(Session, l[1], l[2]).summarised
                  <= Window(Session', l[1], l[2]).summarised]_memory
=============================================================================
