----------------------------- MODULE LoopGuard -----------------------------
(***************************************************************************)
(* The circuit breaker for tool calls, src/src/loop_guard/loop_guard.c: a  *)
(* window of the last tool names, and two tests on it after every call.    *)
(* g_count is the length of g_history.                                     *)
(***************************************************************************)
EXTENDS Naturals, Sequences

CONSTANTS Tools,
          HistoryLen, SameThresh, PingPongLen   \* LOOP_GUARD_*

ASSUME GuardAssumption ==
    /\ HistoryLen \in Nat /\ SameThresh \in Nat /\ PingPongLen \in Nat
    /\ 2 <= SameThresh /\ SameThresh <= HistoryLen
    /\ 2 <= PingPongLen /\ PingPongLen <= HistoryLen

VARIABLES g_history, g_tripped
guardVars == <<g_history, g_tripped>>

GuardInit == g_history = <<>> /\ g_tripped = FALSE

\* The i-th last name.
Ago(h, i) == h[Len(h) - i]

\* Mistake: > where >= is meant.
same_tool_late(h) ==
    /\ Len(h) > SameThresh
    /\ \A i \in 1..SameThresh : Ago(h, i) = Ago(h, 0)

same_tool_repeated(h) ==
    /\ Len(h) >= SameThresh
    /\ \A i \in 1..SameThresh - 1 : Ago(h, i) = Ago(h, 0)

\* The loop over i stops where fewer than PingPongLen names are left before
\* the i-th last one.
is_pingpong(h) ==
    /\ Len(h) >= PingPongLen
    /\ Ago(h, 0) /= Ago(h, 1)
    /\ \A i \in 0..Len(h) - PingPongLen : Ago(h, i) = Ago(h, i % 2)

Record(h, t) == IF Len(h) >= HistoryLen THEN Append(Tail(h), t) ELSE Append(h, t)

loop_guard_reset == g_history' = <<>> /\ g_tripped' = FALSE

\* A tripped guard refuses without recording.
loop_guard_check(t) ==
    IF g_tripped THEN UNCHANGED guardVars
    ELSE /\ g_history' = Record(g_history, t)
         /\ g_tripped' = \/ same_tool_repeated(g_history')
                         \/ is_pingpong(g_history')

-----------------------------------------------------------------------------
\* g_history stays within its array.
GuardTypeOK == /\ g_history \in Seq(Tools) /\ Len(g_history) <= HistoryLen
               /\ g_tripped \in BOOLEAN

Alternates(h) == /\ Ago(h, 0) /= Ago(h, 1)
                 /\ \A i \in 0..Len(h) - 1 : Ago(h, i) = Ago(h, i % 2)

\* "A,B,A,B,A,B -> trip" (loop_guard.h): a window that holds nothing but two
\* tools in alternation has tripped the guard, however often it was shifted.
\* (Other calls further back in the window can keep the loop in is_pingpong
\* from seeing an alternation.)
PingPongTrips ==
    Len(g_history) >= PingPongLen /\ Alternates(g_history) => g_tripped

=============================================================================
