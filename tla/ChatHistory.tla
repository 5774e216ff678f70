----------------------------- MODULE ChatHistory -----------------------------
(***************************************************************************)
(* The conversation an agent keeps and sends to the provider: the          *)
(* chat_context_t of src/src/providers/providers.c, an array that doubles  *)
(* when it is full, and agent_trim_history of src/src/agent/agent.c, which *)
(* replaces it by a smaller one.  A message is its role and its number in  *)
(* the order of sending.                                                   *)
(***************************************************************************)
EXTENDS Naturals, Sequences, FiniteSets, SequencesExt, Selection

CONSTANTS InitialCapacity,   \* 32, in chat_context_init
          MaxHistory,        \* MAX_HISTORY_MESSAGES
          KeepRecent,        \* COMPACTION_KEEP_RECENT
          Slack,             \* 8, the room a trimmed history has
          MaxToolCalls,          \* MAX_TOOL_CALLS: tool calls in one answer
          MaxSent            \* bound: the messages of one conversation

\* The trim leaves KeepRecent messages in reverse; the next one must find as many
\* behind them, which 20 and 50 see to.
ASSUME HistoryAssumption ==
    /\ InitialCapacity \in Nat \ {0} /\ MaxHistory \in Nat
    /\ KeepRecent \in Nat \ {0} /\ 2 * KeepRecent <= MaxHistory + 1
    /\ Slack \in Nat /\ MaxToolCalls \in Nat \ {0} /\ MaxSent \in Nat

VARIABLES messages,    \* messages[0..message_count-1]
          capacity,    \* message_capacity
          allocated,   \* the messages the array has room for
          sent,        \* the messages added so far, the system prompt aside
          hpc,          \* where agent_think_with_tools is
          todo        \* the tool calls of the answer yet to be run

historyVars == <<messages, capacity, allocated, sent, hpc, todo>>

Message == [system : BOOLEAN, no : 0..MaxSent]

\* agent_init: the context and its system prompt.
HistoryInit == /\ messages = <<[system |-> TRUE, no |-> 0]>>
               /\ capacity = InitialCapacity /\ allocated = InitialCapacity
               /\ sent = 0 /\ hpc = "user" /\ todo = 0

chat_context_add_message(m) ==
    /\ messages' = Append(messages, m)
    /\ IF Len(messages) >= capacity
       THEN capacity' = capacity * 2 /\ allocated' = capacity * 2
       ELSE UNCHANGED <<capacity, allocated>>

AddNext == /\ sent < MaxSent
           /\ sent' = sent + 1
           /\ chat_context_add_message([system |-> FALSE, no |-> sent + 1])

SystemAt(s) == {i \in DOMAIN s : s[i].system}
OtherAt(s) == {i \in DOMAIN s : ~s[i].system}

\* Mistake: the KeepRecent oldest messages are kept.
TrimKeepsOldest(s) == Picked(s, SystemAt(s))
                      \o SubSeq(Picked(s, OtherAt(s)), 1, KeepRecent)

\* The trimmed array: first the system messages, then the last KeepRecent
\* others, copied from the end of the old array to its front.
Trimmed(s) ==
    LET other == Picked(s, OtherAt(s))
    IN  Picked(s, SystemAt(s))
        \o Reverse(SubSeq(other, Len(other) - KeepRecent + 1, Len(other)))

TooLong(s) == Cardinality(OtherAt(s)) > MaxHistory

\* agent_trim_history on the array s of capacity c; without memory for the
\* new array the old one stays.
agent_trim_history(s, c, a) ==
    \/ /\ TooLong(s)
       /\ messages' = Trimmed(s)
       /\ capacity' = Len(Trimmed(s)) + Slack
       /\ allocated' = Cardinality(SystemAt(s)) + KeepRecent + Slack
    \/ messages' = s /\ capacity' = c /\ allocated' = a
-----------------------------------------------------------------------------
(* agent_think_with_tools *)
UserMessage ==
    /\ hpc = "user"
    /\ AddNext
    /\ hpc' = "ask"
    /\ UNCHANGED todo

\* No API key, no answer, or too many iterations: the turn fails, and the
\* history is left as it is.
TurnFails ==
    /\ hpc = "ask"
    /\ hpc' = "user"
    /\ UNCHANGED <<messages, capacity, allocated, sent, todo>>

\* Mistake: <= where < is meant in the copy of the answer's tool calls.
ToolCallsOneMore ==
    /\ hpc = "ask"
    /\ todo' \in 1..MaxToolCalls + 1
    /\ hpc' = "tools"
    /\ UNCHANGED <<messages, capacity, allocated, sent>>

ToolCalls ==
    /\ hpc = "ask"
    /\ todo' \in 1..MaxToolCalls
    /\ hpc' = "tools"
    /\ UNCHANGED <<messages, capacity, allocated, sent>>

ToolResult ==
    /\ hpc = "tools" /\ todo > 0
    /\ AddNext
    /\ todo' = todo - 1
    /\ UNCHANGED hpc

\* The loop guard refuses a call: the turn ends, again without a trim.
Refused ==
    /\ hpc = "tools" /\ todo > 0
    /\ hpc' = "user" /\ todo' = 0
    /\ UNCHANGED <<messages, capacity, allocated, sent>>

IterationEnds ==
    /\ hpc = "tools" /\ todo = 0
    /\ agent_trim_history(messages, capacity, allocated)
    /\ hpc' = "ask"
    /\ UNCHANGED <<sent, todo>>

\* The answer is added, which may double the array, and the history trimmed.
FinalAnswer ==
    /\ hpc = "ask" /\ sent < MaxSent
    /\ LET s == Append(messages, [system |-> FALSE, no |-> sent + 1])
           full == Len(messages) >= capacity
       IN  agent_trim_history(s, IF full THEN capacity * 2 ELSE capacity,
                                 IF full THEN capacity * 2 ELSE allocated)
    /\ sent' = sent + 1
    /\ hpc' = "user"
    /\ UNCHANGED todo

HistoryNext == \/ UserMessage \/ TurnFails \/ ToolCalls \/ ToolResult
               \/ Refused \/ IterationEnds \/ FinalAnswer

HistorySpec == HistoryInit /\ [][HistoryNext]_historyVars
-----------------------------------------------------------------------------
\* The array, its two sizes and the place in the turn.
HistoryTypeOK ==
    /\ messages \in Seq(Message) /\ capacity \in Nat /\ allocated \in Nat
    /\ sent \in 0..MaxSent /\ hpc \in {"user", "ask", "tools"}
    /\ todo \in 0..MaxToolCalls

\* No message is written behind the end of the array: what the trim sets as
\* its capacity (agent.c) is never more than what it allocated, and the
\* doubling (providers.c) comes in time, through any number of both.
FitsAllocation == Len(messages) <= capacity /\ capacity <= allocated

Nos == {messages[i].no : i \in {j \in DOMAIN messages : ~messages[j].system}}

\* Trimming forgets from the old end only: the history is the system prompt,
\* which agent_think_with_tools takes from messages[0], and the last messages
\* without a gap or a repetition, at least KeepRecent of them.  (A second trim
\* works on the array that the first one turned round.)
RecentSuffix ==
    /\ messages[1] = [system |-> TRUE, no |-> 0]
    /\ \E k \in 0..sent : /\ Nos = k + 1..sent
                          /\ Len(messages) = sent - k + 1
                          /\ k > 0 => sent - k >= KeepRecent

\* Through any number of trims and doublings the history stays within its
\* memory and loses nothing but its oldest messages.
HistoryIntact == FitsAllocation /\ RecentSuffix
=============================================================================
