-------------------------- MODULE AgentTurnsProofs --------------------------
(***************************************************************************)
(* What AgentTurns promises, for every set of workers and tools and every  *)
(* length of the guard's window and of its two tests.  The guard and the   *)
(* approval context are process globals: what depends on them within a job *)
(* holds until another job interferes, and the run of ApprovalRace.cfg     *)
(* shows that it can.                                                      *)
(***************************************************************************)
EXTENDS AgentTurns, SequenceTheorems, TLAPS

USE DEF guardVars, approvalVars, jobVars, raceVars, turnVars
-----------------------------------------------------------------------------
(* The two windows. *)

\* A sequence that keeps its last n elements: Record and Remember.
Shifted(s, t, n) == IF Len(s) >= n THEN Append(Tail(s), t) ELSE Append(s, t)

\* What is read from such a window after a call: the call itself, then what was
\* there before, one place further back; it never gets longer than n.
LEMMA ShiftedAgo ==
    ASSUME NEW S, NEW s \in Seq(S), NEW t \in S, NEW n \in Nat, n >= 1, Len(s) <= n
    PROVE  /\ Shifted(s, t, n) \in Seq(S)
           /\ Len(Shifted(s, t, n)) = IF Len(s) >= n THEN n ELSE Len(s) + 1
           /\ Ago(Shifted(s, t, n), 0) = t
           /\ \A i \in 1..Len(Shifted(s, t, n)) - 1 :
                 Ago(Shifted(s, t, n), i) = Ago(s, i - 1)
<1>1. Len(s) \in Nat
  OBVIOUS
<1>2. CASE Len(s) >= n
  <2>1. s /= <<>>
    BY <1>1, <1>2
  <2>2. /\ Tail(s) \in Seq(S) /\ Len(Tail(s)) = Len(s) - 1
        /\ \A i \in 1..Len(s) - 1 : Tail(s)[i] = s[i + 1]
    BY <2>1, HeadTailProperties
  <2>3. /\ Append(Tail(s), t) \in Seq(S) /\ Len(Append(Tail(s), t)) = Len(s)
        /\ Append(Tail(s), t)[Len(s)] = t
        /\ \A i \in 1..Len(s) - 1 : Append(Tail(s), t)[i] = Tail(s)[i]
    BY <1>1, <2>2, AppendProperties
  <2>4. Shifted(s, t, n) = Append(Tail(s), t)
    BY <1>2 DEF Shifted
  <2>5. \A i \in 1..Len(s) - 1 : Append(Tail(s), t)[Len(s) - i] = s[Len(s) - (i - 1)]
    <3> TAKE i \in 1..Len(s) - 1
    <3>1. Len(s) - i \in 1..Len(s) - 1 /\ Len(s) - i + 1 = Len(s) - (i - 1)
      BY <1>1
    <3>2. QED
      BY <3>1, <2>2, <2>3
  <2>6. Len(s) = n /\ Len(s) - 0 = Len(s)
    BY <1>1, <1>2
  <2>7. \A i \in 1..Len(s) - 1 : Ago(Append(Tail(s), t), i) = Ago(s, i - 1)
    BY <2>3, <2>5 DEF Ago
  <2>8. Ago(Append(Tail(s), t), 0) = t
    BY <2>3, <2>6 DEF Ago
  <2>9. QED
    BY <1>2, <2>3, <2>4, <2>6, <2>7, <2>8
<1>3. CASE Len(s) < n
  <2>1. /\ Append(s, t) \in Seq(S) /\ Len(Append(s, t)) = Len(s) + 1
        /\ Append(s, t)[Len(s) + 1] = t
        /\ \A i \in 1..Len(s) : Append(s, t)[i] = s[i]
    BY AppendProperties
  <2>2. Shifted(s, t, n) = Append(s, t)
    BY <1>1, <1>3 DEF Shifted
  <2>3. \A i \in 1..Len(s) : Append(s, t)[Len(s) + 1 - i] = s[Len(s) - (i - 1)]
    <3> TAKE i \in 1..Len(s)
    <3>1. Len(s) + 1 - i \in 1..Len(s) /\ Len(s) + 1 - i = Len(s) - (i - 1)
      BY <1>1
    <3>2. QED
      BY <3>1, <2>1
  <2>4. QED
    BY <1>1, <1>3, <2>1, <2>2, <2>3 DEF Ago
<1>4. QED
  BY <1>1, <1>2, <1>3

\* Both windows are of this kind.
LEMMA WindowsAreShifted ==
    ASSUME NEW s \in Seq(Tools), NEW t \in Tools
    PROVE  Record(s, t) = Shifted(s, t, HistoryLen) /\ Remember(s, t) = Shifted(s, t, SameThresh)
<1>1. Len(s) \in Nat /\ SameThresh \in Nat
  BY GuardAssumption
<1>2. QED
  BY <1>1 DEF Record, Remember, Shifted
-----------------------------------------------------------------------------
(* Types, with the counters where the loops test them. *)

AtWork(w) == pc[w] \in {"turn", "ask", "check", "run"}

ContextOK == /\ g_approval_manager \in Workers \cup {NoManager}
             /\ g_require_approval \in BOOLEAN

FlagsOK == /\ task \in [Workers -> BOOLEAN]
           /\ unapproved \in [Workers -> BOOLEAN]

RaceOK == disarmed \in [Workers -> BOOLEAN] /\ disturbed \in [Workers -> BOOLEAN]

CountersOK ==
    /\ pc \in [Workers -> {"idle", "turn", "ask", "check", "run", "free"}]
    /\ round \in [Workers -> 0..MaxRounds] /\ iteration \in [Workers -> 0..MaxIterations]
    /\ \A w \in Workers : AtWork(w) => round[w] < MaxRounds
    /\ \A w \in Workers : InCalls(w) => iteration[w] < MaxIterations

CallsOK ==
    /\ calls \in [Workers -> Seq(Tools)] /\ turn \in [Workers -> Seq(Tools)]
    /\ \A w \in Workers : /\ Len(calls[w]) <= MaxCalls /\ Len(turn[w]) <= SameThresh
                          /\ InCalls(w) => calls[w] /= <<>>

TurnsInv == GuardTypeOK /\ ContextOK /\ FlagsOK /\ RaceOK /\ CountersOK /\ CallsOK

LEMMA TurnsInvInit == TurnsInit => TurnsInv
<1> SUFFICES ASSUME TurnsInit PROVE TurnsInv
  OBVIOUS
<1> USE TurnAssumption, GuardAssumption DEF TurnsInit
<1>1. <<>> \in Seq(Tools) /\ Len(<<>>) = 0
  OBVIOUS
<1>2. GuardTypeOK
  <2>1. g_history = <<>> /\ g_tripped = FALSE
    BY DEF GuardInit
  <2>2. Len(g_history) <= HistoryLen
    BY <2>1
  <2>3. QED
    BY <1>1, <2>1, <2>2 DEF GuardTypeOK
<1>3. ContextOK /\ FlagsOK /\ RaceOK
  BY Zenon DEF ContextOK, FlagsOK, RaceOK
<1>4. CountersOK
  BY DEF CountersOK, AtWork, InCalls
<1>5. CallsOK
  BY <1>1 DEF CallsOK, InCalls
<1>6. QED
  BY <1>2, <1>3, <1>4, <1>5 DEF TurnsInv

\* The invariant implies the type invariant of the model.
LEMMA TurnsInvType == TurnsInv => TurnsTypeOK
<1> SUFFICES ASSUME TurnsInv PROVE TurnsTypeOK
  OBVIOUS
<1> USE DEF TurnsInv
<1>1. \A w \in Workers : /\ calls[w] \in Seq(Tools) /\ Len(calls[w]) <= MaxCalls
                         /\ turn[w] \in Seq(Tools)
                         /\ pc[w] \in {"check", "run"} => calls[w] /= <<>>
  BY DEF CallsOK, InCalls
<1>2. QED
  BY <1>1 DEF TurnsTypeOK, ContextOK, FlagsOK, RaceOK, CountersOK

\* The guard's operations keep its type.
LEMMA GuardReset == loop_guard_reset => GuardTypeOK'
<1> SUFFICES ASSUME loop_guard_reset PROVE GuardTypeOK'
  OBVIOUS
<1>1. g_history' = <<>> /\ g_tripped' = FALSE
  BY DEF loop_guard_reset
<1>2. g_history' \in Seq(Tools) /\ Len(g_history') <= HistoryLen
  BY <1>1, GuardAssumption
<1>3. QED
  BY <1>1, <1>2 DEF GuardTypeOK

LEMMA GuardCheck ==
    ASSUME GuardTypeOK, NEW t \in Tools, loop_guard_check(t)
    PROVE  GuardTypeOK'
<1> USE GuardAssumption DEF GuardTypeOK
<1>1. CASE g_tripped
  BY <1>1 DEF loop_guard_check
<1>2. CASE ~g_tripped
  <2>1. g_history' = Shifted(g_history, t, HistoryLen)
    BY <1>2, WindowsAreShifted DEF loop_guard_check
  <2>2. HistoryLen \in Nat /\ HistoryLen >= 1 /\ Len(g_history) \in Nat
    OBVIOUS
  <2>3. /\ g_history' \in Seq(Tools)
        /\ Len(g_history') = IF Len(g_history) >= HistoryLen THEN HistoryLen ELSE Len(g_history) + 1
    BY <2>1, <2>2, ShiftedAgo
  <2>4. Len(g_history') <= HistoryLen
    BY <2>2, <2>3
  <2>5. g_tripped' \in BOOLEAN
    BY <1>2 DEF loop_guard_check, same_tool_repeated, is_pingpong
  <2>6. QED
    BY <2>3, <2>4, <2>5
<1>3. QED
  BY <1>1, <1>2

\* After a turn the worker is at the next one, with a round left, or done.
LEMMA AfterTurnStep ==
    ASSUME CountersOK, NEW w \in Workers, AtWork(w), NEW complete \in BOOLEAN,
           AfterTurn(w, complete), UNCHANGED iteration
    PROVE  /\ CountersOK' /\ pc'[w] \in {"free", "turn"}
           /\ ~InCalls(w)' /\ \A v \in Workers \ {w} : pc'[v] = pc[v]
<1> USE TurnAssumption DEF CountersOK, AtWork, InCalls, AfterTurn
<1>1. CASE ~task[w] \/ complete
  BY <1>1
<1>2. CASE ~(~task[w] \/ complete)
  BY <1>2
<1>3. QED
  BY <1>1, <1>2

\* What is left of an answer's calls after one of them.
LEMMA TailOfCalls ==
    ASSUME NEW s \in Seq(Tools), s /= <<>>, Len(s) <= MaxCalls
    PROVE  /\ Tail(s) \in Seq(Tools) /\ Len(Tail(s)) <= MaxCalls
           /\ Len(s) /= 1 => Tail(s) /= <<>>
<1>1. Tail(s) \in Seq(Tools) /\ Len(Tail(s)) = Len(s) - 1
  BY HeadTailProperties
<1>2. Len(s) \in Nat /\ MaxCalls \in Nat /\ Len(<<>>) = 0
  BY TurnAssumption
<1>3. Len(Tail(s)) <= MaxCalls
  BY <1>1, <1>2
<1>4. Len(s) /= 1 => Len(Tail(s)) /= Len(<<>>)
  BY <1>1, <1>2
<1>5. QED
  BY <1>1, <1>3, <1>4

\* The flags of the races are set and cleared.
LEMMA RaceStep == RaceOK /\ [TurnsNext]_turnVars => RaceOK'
<1> SUFFICES ASSUME RaceOK, [TurnsNext]_turnVars PROVE RaceOK'
  OBVIOUS
<1> USE DEF RaceOK
<1>1. ASSUME NEW w \in Workers, Disarm(w) PROVE disarmed' \in [Workers -> BOOLEAN]
  BY <1>1, Zenon DEF Disarm
<1>2. ASSUME NEW w \in Workers, NEW b \in BOOLEAN, Disturb(w, b)
      PROVE  disturbed' \in [Workers -> BOOLEAN]
  BY <1>2, Zenon DEF Disturb, InTurn
<1>3. ASSUME NEW w \in Workers, TurnStart(w) PROVE RaceOK'
  BY <1>2, <1>3 DEF TurnStart
<1>4. ASSUME NEW w \in Workers, AskTools(w) PROVE RaceOK'
  BY <1>4 DEF AskTools
<1>5. ASSUME NEW w \in Workers, CheckCall(w) PROVE RaceOK'
  <2>1. disturbed[w] \in BOOLEAN /\ Disturb(w, disturbed[w]) /\ disarmed' = disarmed
    BY <1>5 DEF CheckCall
  <2>2. QED
    BY <1>2, <2>1
<1>6. ASSUME NEW w \in Workers, JobEnd(w) PROVE RaceOK'
  BY <1>1, <1>6 DEF JobEnd
<1>7. CASE UNCHANGED raceVars
  BY <1>7
<1>8. QED
  BY <1>3, <1>4, <1>5, <1>6, <1>7
     DEF TurnsNext, TurnStep, JobStart, AskFails, AskAnswer, RunCall

LEMMA TurnsInvStep == TurnsInv /\ [TurnsNext]_turnVars => TurnsInv'
<1> SUFFICES ASSUME TurnsInv, [TurnsNext]_turnVars PROVE TurnsInv'
  OBVIOUS
<1>0. RaceOK'
  BY RaceStep DEF TurnsInv
<1> USE <1>0, TurnAssumption, GuardAssumption DEF TurnsInv
<1>1. ASSUME NEW w \in Workers, JobStart(w) PROVE TurnsInv'
  <2> USE <1>1 DEF JobStart
  <2>1. GuardTypeOK' /\ ContextOK' /\ CallsOK'
    BY DEF GuardTypeOK, ContextOK, CallsOK, InCalls, CountersOK
  <2>2. FlagsOK'
    BY Zenon DEF FlagsOK
  <2>3. CountersOK'
    BY DEF CountersOK, AtWork, InCalls
  <2>4. QED
    BY <2>1, <2>2, <2>3
<1>2. ASSUME NEW w \in Workers, TurnStart(w) PROVE TurnsInv'
  <2> USE <1>2 DEF TurnStart
  <2>1. GuardTypeOK'
    <3>1. CASE UNCHANGED guardVars
      BY <3>1 DEF GuardTypeOK
    <3>2. CASE loop_guard_reset
      BY <3>2, GuardReset
    <3>3. QED
      BY <3>1, <3>2
  <2>2. ContextOK' /\ FlagsOK'
    BY DEF ContextOK, FlagsOK
  <2>3. CASE pc' = [pc EXCEPT ![w] = "free"] /\ UNCHANGED <<iteration, turn>>
    <3>1. CountersOK'
      BY <2>3 DEF CountersOK, AtWork, InCalls
    <3>2. CallsOK'
      BY <2>3 DEF CallsOK, InCalls, CountersOK
    <3>3. QED
      BY <2>1, <2>2, <3>1, <3>2
  <2>4. CASE /\ pc' = [pc EXCEPT ![w] = "ask"]
             /\ iteration' = [iteration EXCEPT ![w] = 0]
             /\ turn' = [turn EXCEPT ![w] = <<>>]
    <3>1. CountersOK'
      BY <2>4 DEF CountersOK, AtWork, InCalls
    <3>2. CallsOK'
      BY <2>4 DEF CallsOK, InCalls, CountersOK
    <3>3. QED
      BY <2>1, <2>2, <3>1, <3>2
  <2>5. QED
    BY <2>3, <2>4
<1>3. ASSUME NEW w \in Workers, AskFails(w) PROVE TurnsInv'
  <2> USE <1>3 DEF AskFails
  <2>1. GuardTypeOK' /\ ContextOK' /\ FlagsOK'
    BY DEF GuardTypeOK, ContextOK, FlagsOK
  <2>2. CountersOK'
    BY DEF CountersOK, AtWork, InCalls
  <2>3. CallsOK'
    BY DEF CallsOK, InCalls, CountersOK
  <2>4. QED
    BY <2>1, <2>2, <2>3
<1>4. ASSUME NEW w \in Workers, AskTools(w) PROVE TurnsInv'
  <2> USE <1>4 DEF AskTools
  <2>1. GuardTypeOK' /\ FlagsOK'
    BY Zenon DEF GuardTypeOK, FlagsOK
  <2>2. ContextOK'
    BY DEF ContextOK
  <2>3. CountersOK'
    BY DEF CountersOK, AtWork, InCalls
  <2>4. CallsOK'
    <3>1. PICK b \in Batches : calls' = [calls EXCEPT ![w] = b]
      OBVIOUS
    <3>2. b \in Seq(Tools) /\ Len(b) <= MaxCalls /\ b /= <<>>
      BY DEF Batches
    <3>3. QED
      BY <3>1, <3>2 DEF CallsOK, InCalls, CountersOK
  <2>5. QED
    BY <2>1, <2>2, <2>3, <2>4
<1>5. ASSUME NEW w \in Workers, AskAnswer(w) PROVE TurnsInv'
  <2> USE <1>5 DEF AskAnswer
  <2>1. GuardTypeOK' /\ ContextOK' /\ FlagsOK'
    BY DEF GuardTypeOK, ContextOK, FlagsOK
  <2>2. CountersOK' /\ ~InCalls(w)' /\ \A v \in Workers \ {w} : pc'[v] = pc[v]
    <3>1. PICK complete \in BOOLEAN : AfterTurn(w, complete)
      OBVIOUS
    <3>2. AtWork(w) /\ CountersOK /\ UNCHANGED iteration
      BY DEF AtWork
    <3>3. QED
      BY <3>1, <3>2, AfterTurnStep
  <2>3. CallsOK'
    BY <2>2 DEF CallsOK, InCalls
  <2>4. QED
    BY <2>1, <2>2, <2>3
<1>6. ASSUME NEW w \in Workers, CheckCall(w) PROVE TurnsInv'
  <2> USE <1>6 DEF CheckCall
  <2>1. /\ pc[w] = "check" /\ calls[w] \in Seq(Tools) /\ calls[w] /= <<>>
        /\ turn[w] \in Seq(Tools) /\ Len(turn[w]) <= SameThresh
    BY DEF CallsOK, InCalls
  <2>2. Head(calls[w]) \in Tools
    BY <2>1
  <2>3. GuardTypeOK'
    BY <2>2, GuardCheck
  <2>4. ContextOK'
    BY DEF ContextOK
  <2>5. FlagsOK'
    BY Zenon DEF FlagsOK
  <2>6. /\ CountersOK' /\ \A v \in Workers \ {w} : pc'[v] = pc[v]
        /\ InCalls(w)' => pc'[w] = "run" /\ calls' = calls
    <3>1. CASE g_tripped'
      BY <3>1, <2>1, AfterTurnStep DEF AtWork
    <3>2. CASE ~g_tripped'
      BY <3>2, <2>1 DEF CountersOK, AtWork, InCalls
    <3>3. QED
      BY <3>1, <3>2
  <2>7. Remember(turn[w], Head(calls[w])) \in Seq(Tools) /\ Len(Remember(turn[w], Head(calls[w]))) <= SameThresh
    <3>1. SameThresh \in Nat /\ SameThresh >= 1 /\ Len(turn[w]) \in Nat
      BY <2>1
    <3>2. Remember(turn[w], Head(calls[w])) = Shifted(turn[w], Head(calls[w]), SameThresh)
      BY <2>1, <2>2, WindowsAreShifted
    <3>3. /\ Remember(turn[w], Head(calls[w])) \in Seq(Tools)
          /\ Len(Remember(turn[w], Head(calls[w]))) =
                IF Len(turn[w]) >= SameThresh THEN SameThresh ELSE Len(turn[w]) + 1
      BY <2>1, <2>2, <3>1, <3>2, ShiftedAgo
    <3>4. QED
      BY <3>1, <3>3
  <2>8. turn' \in [Workers -> Seq(Tools)] /\ \A v \in Workers : Len(turn'[v]) <= SameThresh
    BY <2>7 DEF CallsOK
  <2>9. /\ calls' \in [Workers -> Seq(Tools)] /\ \A v \in Workers : Len(calls'[v]) <= MaxCalls
        /\ \A v \in Workers : InCalls(v)' => calls'[v] /= <<>>
    <3>1. calls' \in {calls, [calls EXCEPT ![w] = <<>>]}
      OBVIOUS
    <3>2. <<>> \in Seq(Tools) /\ Len(<<>>) = 0
      OBVIOUS
    <3> HIDE DEF CheckCall
    <3>3. CASE calls' = calls
      BY <2>1, <2>6, <3>3 DEF CallsOK, InCalls
    <3>4. CASE calls' = [calls EXCEPT ![w] = <<>>] /\ calls' /= calls
      <4>1. calls' \in [Workers -> Seq(Tools)] /\ \A v \in Workers : Len(calls'[v]) <= MaxCalls
        BY <3>2, <3>4 DEF CallsOK
      <4>2. ~InCalls(w)' /\ \A v \in Workers \ {w} : calls'[v] = calls[v]
        BY <2>6, <3>4
      <4>3. QED
        BY <2>6, <4>1, <4>2 DEF CallsOK, InCalls
    <3>5. QED
      BY <3>1, <3>3, <3>4
  <2>10. QED
    BY <2>3, <2>4, <2>5, <2>6, <2>8, <2>9 DEF CallsOK
<1>7. ASSUME NEW w \in Workers, RunCall(w) PROVE TurnsInv'
  <2> USE <1>7 DEF RunCall
  <2>1. /\ calls[w] \in Seq(Tools) /\ calls[w] /= <<>> /\ Len(calls[w]) <= MaxCalls
        /\ iteration[w] < MaxIterations
    BY DEF CallsOK, CountersOK, InCalls
  <2>2. GuardTypeOK' /\ ContextOK'
    BY DEF GuardTypeOK, ContextOK
  <2>3. FlagsOK'
    BY Zenon DEF FlagsOK, check_approval_risky, ContextOK
  <2>4. /\ pc' = [pc EXCEPT ![w] = IF Len(calls[w]) = 1 THEN "ask" ELSE "check"]
        /\ iteration' = IF Len(calls[w]) = 1 THEN [iteration EXCEPT ![w] = @ + 1] ELSE iteration
        /\ calls' = [calls EXCEPT ![w] = Tail(@)] /\ round' = round /\ turn' = turn
        /\ pc[w] = "run"
    OBVIOUS
  <2> HIDE DEF RunCall
  <2>5. CountersOK'
    <3>1. iteration[w] \in Nat /\ iteration[w] + 1 \in 0..MaxIterations
      BY <2>1 DEF CountersOK
    <3>2. /\ iteration' \in [Workers -> 0..MaxIterations]
          /\ \A v \in Workers \ {w} : iteration'[v] = iteration[v]
          /\ Len(calls[w]) /= 1 => iteration' = iteration
      BY <2>4, <3>1 DEF CountersOK
    <3>3. QED
      BY <2>1, <2>4, <3>2 DEF CountersOK, AtWork, InCalls
  <2>6. /\ Tail(calls[w]) \in Seq(Tools) /\ Len(Tail(calls[w])) <= MaxCalls
        /\ Len(calls[w]) /= 1 => Tail(calls[w]) /= <<>>
    BY <2>1, TailOfCalls
  <2>7. CallsOK'
    BY <2>4, <2>6 DEF CallsOK, InCalls, CountersOK
  <2>8. QED
    BY <2>2, <2>3, <2>5, <2>7
<1>8. ASSUME NEW w \in Workers, JobEnd(w) PROVE TurnsInv'
  <2> USE <1>8 DEF JobEnd
  <2>1. GuardTypeOK' /\ FlagsOK'
    BY Zenon DEF GuardTypeOK, FlagsOK
  <2>2. ContextOK'
    BY Zenon DEF ContextOK
  <2>3. CountersOK'
    BY DEF CountersOK, AtWork, InCalls
  <2>4. CallsOK'
    BY DEF CallsOK, InCalls, CountersOK
  <2>5. QED
    BY <2>1, <2>2, <2>3, <2>4
<1>9. CASE UNCHANGED turnVars
  BY <1>9 DEF GuardTypeOK, ContextOK, FlagsOK, RaceOK, CountersOK, CallsOK, AtWork, InCalls
<1>10. QED
  BY <1>1, <1>2, <1>3, <1>4, <1>5, <1>6, <1>7, <1>8, <1>9 DEF TurnsNext, TurnStep

LEMMA TurnsInvHolds == TurnsSpec => []TurnsInv
<1>1. QED
  BY TurnsInvInit, TurnsInvStep, PTL DEF TurnsSpec

\* The globals, the loop counters of agent_run_task and agent_think_with_tools and
\* the calls of an answer stay within their bounds, whatever the provider answers
\* and however the workers interleave.
THEOREM TurnsTypeCorrect == TurnsSpec => []TurnsTypeOK
<1>1. QED
  BY TurnsInvHolds, TurnsInvType, PTL
-----------------------------------------------------------------------------
(* The approval context. *)

\* While a job makes calls, some agent's context is set, unless the end of another
\* job has taken it away: nothing else clears it.
ContextIsSet == \A w \in Workers :
    InCalls(w) /\ ~disarmed[w] =>
        g_approval_manager /= NoManager /\ g_require_approval = RequireApproval

ApprovalInv == ContextIsSet /\ ApprovalHolds

\* For any number of workers, a risky tool runs without approval only after the end
\* of another job that came between this answer's calls: agent_think_with_tools
\* sets the context before the calls of every answer, other agents only replace it
\* by one of theirs, and agent_free is all that clears it.
THEOREM RiskyIsApproved == TurnsSpec => []ApprovalHolds
<1> USE TurnAssumption
<1>1. TurnsInit => ApprovalInv
  BY DEF TurnsInit, ApprovalInv, ContextIsSet, InCalls, ApprovalHolds
<1>2. TurnsInv /\ ApprovalInv /\ [TurnsNext]_turnVars => ApprovalInv'
  <2> SUFFICES ASSUME TurnsInv, ApprovalInv, [TurnsNext]_turnVars PROVE ApprovalInv'
    OBVIOUS
  <2> USE DEF ApprovalInv, ContextIsSet, InCalls, ApprovalHolds
  <2>0. /\ pc \in [Workers -> {"idle", "turn", "ask", "check", "run", "free"}]
        /\ unapproved \in [Workers -> BOOLEAN] /\ disarmed \in [Workers -> BOOLEAN]
    BY DEF TurnsInv, CountersOK, FlagsOK, RaceOK
  <2>1. ASSUME NEW w \in Workers, JobStart(w) PROVE ApprovalInv'
    BY <2>0, <2>1 DEF JobStart
  <2>2. ASSUME NEW w \in Workers, TurnStart(w) PROVE ApprovalInv'
    BY <2>0, <2>2 DEF TurnStart
  <2>3. ASSUME NEW w \in Workers, AskFails(w) PROVE ApprovalInv'
    BY <2>0, <2>3 DEF AskFails
  <2>4. ASSUME NEW w \in Workers, AskTools(w) PROVE ApprovalInv'
    BY <2>0, <2>4 DEF AskTools
  <2>5. ASSUME NEW w \in Workers, AskAnswer(w) PROVE ApprovalInv'
    BY <2>0, <2>5 DEF AskAnswer, AfterTurn
  <2>6. ASSUME NEW w \in Workers, CheckCall(w) PROVE ApprovalInv'
    BY <2>0, <2>6 DEF CheckCall, AfterTurn
  <2>7. ASSUME NEW w \in Workers, RunCall(w) PROVE ApprovalInv'
    <3>1. RequireApproval /\ check_approval_risky => disarmed[w]
      BY <2>7 DEF RunCall, check_approval_risky
    <3>2. /\ unapproved'[w] => unapproved[w] \/ check_approval_risky
          /\ \A v \in Workers \ {w} : unapproved'[v] = unapproved[v]
      BY <2>0, <2>7 DEF RunCall
    <3>3. ContextIsSet' /\ disarmed' = disarmed
      BY <2>0, <2>7 DEF RunCall
    <3>4. QED
      BY <3>1, <3>2, <3>3
  <2>8. ASSUME NEW w \in Workers, JobEnd(w) PROVE ApprovalInv'
    <3>1. /\ \A v \in Workers \ {w} : /\ unapproved'[v] = unapproved[v] /\ pc'[v] = pc[v]
                                       /\ disarmed'[v] = (disarmed[v] \/ InCalls(v))
          /\ ~unapproved'[w] /\ pc'[w] = "idle"
      BY <2>0, <2>8 DEF JobEnd, Disarm
    <3>2. QED
      BY <3>1
  <2>9. CASE UNCHANGED turnVars
    BY <2>9
  <2>10. QED
    BY <2>1, <2>2, <2>3, <2>4, <2>5, <2>6, <2>7, <2>8, <2>9 DEF TurnsNext, TurnStep
<1>3. ApprovalInv => ApprovalHolds
  BY DEF ApprovalInv
<1>4. QED
  BY <1>1, <1>2, <1>3, TurnsInvHolds, PTL DEF TurnsSpec
-----------------------------------------------------------------------------
(* The loop guard. *)

\* is_pingpong looks at less of the window than Alternates, so that it finds every
\* alternation, also right after a shift.
LEMMA PingPongStep == TurnsInv' /\ PingPongTrips /\ [TurnsNext]_turnVars => PingPongTrips'
<1> SUFFICES ASSUME TurnsInv', PingPongTrips, [TurnsNext]_turnVars PROVE PingPongTrips'
  OBVIOUS
<1>1. CASE UNCHANGED guardVars
  BY <1>1 DEF PingPongTrips, Alternates, Ago
<1>2. CASE loop_guard_reset
  <2>1. Len(g_history') = 0
    BY <1>2 DEF loop_guard_reset
  <2>2. QED
    BY <2>1, GuardAssumption DEF PingPongTrips
<1>3. ASSUME NEW t, loop_guard_check(t), ~g_tripped PROVE PingPongTrips'
  <2>0. Len(g_history') \in Nat
    BY DEF TurnsInv, GuardTypeOK
  <2> SUFFICES ASSUME Len(g_history') >= PingPongLen, Alternates(g_history') PROVE g_tripped'
    BY DEF PingPongTrips
  <2>1. \A i \in 0..Len(g_history') - PingPongLen : i \in 0..Len(g_history') - 1
    BY <2>0, GuardAssumption
  <2>2. is_pingpong(g_history')
    BY <2>1 DEF Alternates, is_pingpong
  <2>3. QED
    BY <1>3, <2>2 DEF loop_guard_check
<1>4. ASSUME NEW t, loop_guard_check(t), g_tripped PROVE UNCHANGED guardVars
  BY <1>4 DEF loop_guard_check
<1>5. \/ UNCHANGED guardVars \/ loop_guard_reset
      \/ \E w \in Workers : CheckCall(w)
  BY DEF TurnsNext, TurnStep, JobStart, TurnStart, AskFails, AskTools, AskAnswer, RunCall, JobEnd
<1>6. QED
  BY <1>1, <1>2, <1>3, <1>4, <1>5 DEF CheckCall

\* The guard's window ends in the calls of the turn: as many of them as matter.
SameTail(s, h) == /\ Len(s) = IF Len(h) < SameThresh THEN Len(h) ELSE SameThresh
                  /\ \A i \in 0..Len(s) - 1 : Ago(s, i) = Ago(h, i)

\* Both windows are shifted alike, the guard's because it is no shorter.
LEMMA SameTailKept ==
    ASSUME NEW s \in Seq(Tools), NEW h \in Seq(Tools), NEW t \in Tools,
           Len(h) <= HistoryLen, SameTail(s, h)
    PROVE  SameTail(Remember(s, t), Record(h, t))
<1> DEFINE s2 == Shifted(s, t, SameThresh)
           h2 == Shifted(h, t, HistoryLen)
<1>0. /\ SameThresh \in Nat /\ HistoryLen \in Nat /\ 2 <= SameThresh /\ SameThresh <= HistoryLen
      /\ Len(s) \in Nat /\ Len(h) \in Nat
  BY GuardAssumption
<1>1. Len(s) = (IF Len(h) < SameThresh THEN Len(h) ELSE SameThresh) /\ Len(s) <= SameThresh
  BY <1>0 DEF SameTail
<1>2. /\ Len(s2) = IF Len(s) >= SameThresh THEN SameThresh ELSE Len(s) + 1
      /\ Ago(s2, 0) = t
      /\ \A i \in 1..Len(s2) - 1 : Ago(s2, i) = Ago(s, i - 1)
  BY <1>0, <1>1, ShiftedAgo
<1>3. /\ Len(h2) = IF Len(h) >= HistoryLen THEN HistoryLen ELSE Len(h) + 1
      /\ Ago(h2, 0) = t
      /\ \A i \in 1..Len(h2) - 1 : Ago(h2, i) = Ago(h, i - 1)
  BY <1>0, ShiftedAgo
<1> HIDE DEF s2, h2
<1>4. /\ Len(s2) = IF Len(h2) < SameThresh THEN Len(h2) ELSE SameThresh
      /\ Len(s2) \in Nat /\ Len(h2) \in Nat /\ Len(s2) <= Len(h2)
      /\ Len(s2) - 1 <= Len(s)
  BY <1>0, <1>1, <1>2, <1>3
<1>5. ASSUME NEW i \in 0..Len(s2) - 1 PROVE Ago(s2, i) = Ago(h2, i)
  <2>1. CASE i = 0
    BY <1>2, <1>3, <2>1
  <2>2. CASE i /= 0
    <3>1. i \in 1..Len(s2) - 1 /\ i \in 1..Len(h2) - 1 /\ i - 1 \in 0..Len(s) - 1
      BY <1>0, <1>4, <2>2
    <3>2. Ago(s, i - 1) = Ago(h, i - 1)
      BY <3>1 DEF SameTail
    <3>3. QED
      BY <1>2, <1>3, <3>1, <3>2
  <2>3. QED
    BY <2>1, <2>2
<1>6. Remember(s, t) = s2 /\ Record(h, t) = h2
  BY WindowsAreShifted DEF s2, h2
<1>7. QED
  BY <1>4, <1>5, <1>6 DEF SameTail

\* Within an undisturbed turn the guard has not tripped and its window is the
\* turn's; a call that is run is one behind which the test found no repetition.
TurnInv == /\ \A w \in Workers : InTurn(w) /\ ~disturbed[w] =>
                  ~g_tripped /\ SameTail(turn[w], g_history)
           /\ \A w \in Workers : pc[w] = "run" /\ ~disturbed[w] =>
                  ~same_tool_repeated(g_history)
           /\ PingPongTrips

LEMMA TurnInvTrips == TurnsInv /\ TurnInv => GuardTrips
<1> SUFFICES ASSUME TurnsInv, TurnInv PROVE NoRunawayTurn
  BY DEF GuardTrips, TurnInv
<1> SUFFICES ASSUME NEW w \in Workers, pc[w] = "run", ~disturbed[w], Len(turn[w]) >= SameThresh,
                    \A i \in 0..SameThresh - 1 : Ago(turn[w], i) = Ago(turn[w], 0)
             PROVE  FALSE
  BY DEF NoRunawayTurn
<1>1. /\ SameThresh \in Nat /\ 2 <= SameThresh
      /\ Len(turn[w]) \in Nat /\ Len(g_history) \in Nat
  BY GuardAssumption DEF TurnsInv, CallsOK, GuardTypeOK
<1>2. SameTail(turn[w], g_history) /\ ~same_tool_repeated(g_history)
  BY DEF TurnInv, InTurn
<1>3. Len(g_history) >= SameThresh /\ Len(turn[w]) = SameThresh
  BY <1>1, <1>2 DEF SameTail
<1>4. \A i \in 0..SameThresh - 1 : Ago(turn[w], i) = Ago(g_history, i)
  BY <1>2, <1>3 DEF SameTail
<1>5. \A i \in 1..SameThresh - 1 : Ago(g_history, i) = Ago(g_history, 0)
  BY <1>1, <1>4
<1>6. QED
  BY <1>2, <1>3, <1>5 DEF same_tool_repeated

\* For any number of workers, no turn that the others leave alone runs one tool
\* SameThresh times in a row, and a window of nothing but two tools in alternation
\* has tripped the guard, for any lengths of the windows: loop_guard_check decides
\* on the window as it is with the new call, also when it has just been shifted.
THEOREM GuardTripsInTime == TurnsSpec => []GuardTrips
<1> USE TurnAssumption
<1>1. TurnsInit => TurnInv
  <2> SUFFICES ASSUME TurnsInit PROVE TurnInv
    OBVIOUS
  <2>1. Len(g_history) = 0
    BY DEF TurnsInit, GuardInit
  <2>2. PingPongTrips
    BY <2>1, GuardAssumption DEF PingPongTrips
  <2>3. QED
    BY <2>2 DEF TurnsInit, TurnInv, InTurn
<1>2. TurnsInv /\ TurnsInv' /\ TurnInv /\ [TurnsNext]_turnVars => TurnInv'
  <2> SUFFICES ASSUME TurnsInv, TurnsInv', TurnInv, [TurnsNext]_turnVars PROVE TurnInv'
    OBVIOUS
  <2>0. /\ pc \in [Workers -> {"idle", "turn", "ask", "check", "run", "free"}]
        /\ turn \in [Workers -> Seq(Tools)] /\ disturbed \in [Workers -> BOOLEAN] /\ PingPongTrips'
    BY PingPongStep DEF TurnsInv, CountersOK, CallsOK, RaceOK, TurnInv
  <2> USE DEF TurnInv, InTurn
  <2>1. ASSUME NEW w \in Workers, JobStart(w) PROVE TurnInv'
    BY <2>0, <2>1 DEF JobStart
  <2>2. ASSUME NEW w \in Workers, TurnStart(w) PROVE TurnInv'
    <3>1. CASE pc'[w] = "free"
      <4>1. pc' = [pc EXCEPT ![w] = "free"] /\ UNCHANGED <<guardVars, turn, disturbed>>
        BY <2>0, <2>2, <3>1 DEF TurnStart
      <4>2. QED
        BY <2>0, <4>1
    <3>2. CASE pc'[w] = "ask"
      <4>1. turn'[w] = <<>> /\ g_history' = <<>> /\ g_tripped' = FALSE
        BY <2>0, <2>2, <3>2 DEF TurnStart, loop_guard_reset
      <4>2. SameTail(turn'[w], g_history')
        BY <4>1, GuardAssumption DEF SameTail
      <4>3. QED
        <5>1. \A v \in Workers \ {w} : pc'[v] = pc[v] /\ disturbed'[v] = (disturbed[v] \/ InTurn(v))
          BY <2>0, <2>2, <3>2 DEF TurnStart, Disturb
        <5>2. QED
          BY <2>0, <3>2, <4>1, <4>2, <5>1
    <3>3. pc'[w] = "free" \/ pc'[w] = "ask"
      BY <2>0, <2>2 DEF TurnStart
    <3>4. QED
      BY <3>1, <3>2, <3>3
  <2>3. ASSUME NEW w \in Workers, AskFails(w) PROVE TurnInv'
    BY <2>0, <2>3 DEF AskFails
  <2>4. ASSUME NEW w \in Workers, AskTools(w) PROVE TurnInv'
    BY <2>0, <2>4 DEF AskTools
  <2>5. ASSUME NEW w \in Workers, AskAnswer(w) PROVE TurnInv'
    BY <2>0, <2>5 DEF AskAnswer, AfterTurn
  <2>6. ASSUME NEW w \in Workers, CheckCall(w) PROVE TurnInv'
    <3>0. /\ disturbed'[w] = disturbed[w]
          /\ \A v \in Workers \ {w} : pc'[v] = pc[v] /\ disturbed'[v] = (disturbed[v] \/ InTurn(v))
      BY <2>0, <2>6 DEF CheckCall, Disturb, AfterTurn
    <3>1. CASE g_tripped' \/ disturbed[w]
      <4>1. pc'[w] \in {"free", "turn"} \/ disturbed'[w]
        BY <2>0, <2>6, <3>0, <3>1 DEF CheckCall, AfterTurn
      <4>2. QED
        BY <2>0, <3>0, <4>1
    <3>2. CASE ~g_tripped' /\ ~disturbed[w]
      <4>1. /\ pc[w] = "check" /\ turn'[w] = Remember(turn[w], Head(calls[w]))
            /\ loop_guard_check(Head(calls[w]))
        BY <2>0, <2>6 DEF CheckCall
      <4>2. ~g_tripped /\ SameTail(turn[w], g_history)
        BY <3>2, <4>1
      <4>3. /\ turn[w] \in Seq(Tools) /\ g_history \in Seq(Tools) /\ Len(g_history) <= HistoryLen
            /\ Head(calls[w]) \in Tools
        BY <4>1 DEF TurnsInv, CallsOK, InCalls, GuardTypeOK
      <4>4. g_history' = Record(g_history, Head(calls[w])) /\ ~same_tool_repeated(g_history')
        BY <3>2, <4>1, <4>2 DEF loop_guard_check
      <4>5. SameTail(turn'[w], g_history')
        BY <4>1, <4>2, <4>3, <4>4, SameTailKept
      <4>6. QED
        BY <2>0, <3>0, <3>2, <4>4, <4>5
    <3>3. QED
      BY <3>1, <3>2
  <2>7. ASSUME NEW w \in Workers, RunCall(w) PROVE TurnInv'
    BY <2>0, <2>7 DEF RunCall
  <2>8. ASSUME NEW w \in Workers, JobEnd(w) PROVE TurnInv'
    BY <2>0, <2>8 DEF JobEnd
  <2>9. CASE UNCHANGED turnVars
    BY <2>0, <2>9
  <2>10. QED
    BY <2>1, <2>2, <2>3, <2>4, <2>5, <2>6, <2>7, <2>8, <2>9 DEF TurnsNext, TurnStep
<1>3. QED
  BY <1>1, <1>2, TurnInvTrips, TurnsInvHolds, PTL DEF TurnsSpec
=============================================================================
