----------------------------- MODULE AgentTurns -----------------------------
(***************************************************************************)
(* The agent's turns, src/src/agent/agent.c, as the worker threads run     *)
(* them (JOB_AGENT_CHAT in dispatch_job of jobworker.c): agent_chat is one *)
(* turn, agent_run_task repeats the turn until the model says that the     *)
(* task is complete.  The agents of all workers share the loop guard and   *)
(* the approval context of tools.c, which are process globals without a    *)
(* lock.  The provider's answers are arbitrary.                            *)
(***************************************************************************)
EXTENDS LoopGuard

CONSTANTS Workers,
          Risky,           \* the tools that tools_execute asks approval for
          RequireApproval, \* autonomy.require_approval of the configuration
          MaxIterations,   \* MAX_ITERATIONS
          MaxRounds,       \* max_attention_rounds
          MaxCalls,        \* MAX_TOOL_CALLS: tool calls in one answer
          NoManager        \* g_approval_manager == NULL

ASSUME TurnAssumption ==
    /\ Risky \subseteq Tools /\ RequireApproval \in BOOLEAN
    /\ MaxIterations \in Nat \ {0} /\ MaxRounds \in Nat \ {0}
    /\ MaxCalls \in Nat \ {0} /\ NoManager \notin Workers

VARIABLES g_approval_manager, g_require_approval,   \* tools.c
          pc,         \* pc[w]: where worker w is in its agent job
          task,       \* task[w]: the job is a task (agent_run_task)
          round, iteration,   \* the loop counters of the two functions
          calls,      \* calls[w]: the tool calls of the answer yet to be made
          turn,       \* turn[w]: the last tools this turn asked the guard for
          unapproved, \* unapproved[w]: a risky tool of this answer ran unapproved
          disarmed,   \* disarmed[w]: another job's end took the context away
                      \* since this answer's calls began
          disturbed   \* disturbed[w]: another job reset or advanced the guard
                      \* since this turn began

jobVars == <<pc, task, round, iteration, calls, turn, unapproved>>
raceVars == <<disarmed, disturbed>>
approvalVars == <<g_approval_manager, g_require_approval>>
turnVars == <<guardVars, approvalVars, jobVars, raceVars>>

\* The last SameThresh calls are all that a property looks at.
Remember(s, t) == IF Len(s) < SameThresh THEN Append(s, t) ELSE Append(Tail(s), t)

\* While its calls are made, another job's end disarms a job; within a turn,
\* another job's use of the guard disturbs it.
InCalls(w) == pc[w] \in {"check", "run"}
InTurn(w) == pc[w] \in {"ask", "check", "run"}
Disarm(w) == disarmed' = [v \in Workers |-> v /= w /\ (disarmed[v] \/ InCalls(v))]
Disturb(w, mine) ==
    disturbed' = [v \in Workers |-> IF v = w THEN mine ELSE disturbed[v] \/ InTurn(v)]

Batches == UNION {[1..n -> Tools] : n \in 1..MaxCalls}

TurnsInit ==
    /\ GuardInit
    /\ g_approval_manager = NoManager /\ g_require_approval = FALSE
    /\ pc = [w \in Workers |-> "idle"]
    /\ task = [w \in Workers |-> FALSE]
    /\ round = [w \in Workers |-> 0]
    /\ iteration = [w \in Workers |-> 0]
    /\ calls = [w \in Workers |-> <<>>]
    /\ turn = [w \in Workers |-> <<>>]
    /\ unapproved = [w \in Workers |-> FALSE]
    /\ disarmed = [w \in Workers |-> FALSE]
    /\ disturbed = [w \in Workers |-> FALSE]
-----------------------------------------------------------------------------
(* agent_init, then agent_chat or agent_run_task. *)
JobStart(w) ==
    /\ pc[w] = "idle"
    /\ pc' = [pc EXCEPT ![w] = "turn"]
    /\ \E b \in BOOLEAN : task' = [task EXCEPT ![w] = b]
    /\ round' = [round EXCEPT ![w] = 0]
    /\ UNCHANGED <<guardVars, approvalVars, raceVars, iteration, calls, turn, unapproved>>

\* agent_think_with_tools up to its loop; without an API key it fails first.
TurnStart(w) ==
    /\ pc[w] = "turn"
    /\ \/ /\ pc' = [pc EXCEPT ![w] = "free"]
          /\ UNCHANGED <<guardVars, iteration, turn, disturbed>>
       \/ /\ loop_guard_reset /\ Disturb(w, FALSE)
          /\ iteration' = [iteration EXCEPT ![w] = 0]
          /\ turn' = [turn EXCEPT ![w] = <<>>]
          /\ pc' = [pc EXCEPT ![w] = "ask"]
    /\ UNCHANGED <<approvalVars, task, round, calls, unapproved, disarmed>>

\* Out of iterations, or no answer from the provider: the turn fails and with
\* it the job.
AskFails(w) ==
    /\ pc[w] = "ask"
    /\ pc' = [pc EXCEPT ![w] = "free"]
    /\ UNCHANGED <<guardVars, approvalVars, raceVars, task, round, iteration, calls,
                   turn, unapproved>>

\* Mistake: the approval context is left as it is.
AskToolsForgets(w) ==
    /\ pc[w] = "ask"
    /\ iteration[w] < MaxIterations
    /\ \E b \in Batches : calls' = [calls EXCEPT ![w] = b]
    /\ pc' = [pc EXCEPT ![w] = "check"]
    /\ unapproved' = [unapproved EXCEPT ![w] = FALSE]
    /\ disarmed' = [disarmed EXCEPT ![w] = FALSE]
    /\ UNCHANGED <<guardVars, approvalVars, task, round, iteration, turn, disturbed>>

\* The answer holds tool calls: set the approval context to this agent's.
AskTools(w) ==
    /\ pc[w] = "ask"
    /\ iteration[w] < MaxIterations
    /\ \E b \in Batches : calls' = [calls EXCEPT ![w] = b]
    /\ g_approval_manager' = w
    /\ g_require_approval' = RequireApproval
    /\ pc' = [pc EXCEPT ![w] = "check"]
    /\ unapproved' = [unapproved EXCEPT ![w] = FALSE]
    /\ disarmed' = [disarmed EXCEPT ![w] = FALSE]
    /\ UNCHANGED <<guardVars, task, round, iteration, turn, disturbed>>

\* Mistake: the rounds are not counted.
AfterTurnUncounted(w, complete) ==
    /\ pc' = [pc EXCEPT ![w] = IF ~task[w] \/ complete THEN "free" ELSE "turn"]
    /\ UNCHANGED round

\* After the turn: a chat is over; a task is over when the answer holds
\* [TASK_COMPLETE] or the rounds are used up.
AfterTurn(w, complete) ==
    IF ~task[w] \/ complete
    THEN pc' = [pc EXCEPT ![w] = "free"] /\ UNCHANGED round
    ELSE /\ round' = [round EXCEPT ![w] = @ + 1]
         /\ pc' = [pc EXCEPT ![w] = IF round[w] + 1 < MaxRounds THEN "turn"
                                                               ELSE "free"]

AskAnswer(w) ==
    /\ pc[w] = "ask"
    /\ iteration[w] < MaxIterations
    /\ \E complete \in BOOLEAN : AfterTurn(w, complete)
    /\ UNCHANGED <<guardVars, approvalVars, raceVars, task, iteration, calls, turn,
                   unapproved>>

\* The guard is asked before each call; if it refuses, the turn ends with the
\* guard's reason as its answer and result 0.
CheckCall(w) ==
    /\ pc[w] = "check"
    /\ loop_guard_check(Head(calls[w])) /\ Disturb(w, disturbed[w])
    /\ turn' = [turn EXCEPT ![w] = Remember(@, Head(calls[w]))]
    /\ IF g_tripped'
       THEN /\ AfterTurn(w, FALSE)
            /\ calls' = [calls EXCEPT ![w] = <<>>]
       ELSE /\ pc' = [pc EXCEPT ![w] = "run"]
            /\ UNCHANGED <<calls, round>>
    /\ UNCHANGED <<approvalVars, task, iteration, unapproved, disarmed>>

\* Nothing ever records an approval in the manager (approved_actions and
\* auto_approve_enabled stay as approval_manager_init leaves them), so a risky
\* tool runs only where check_approval_risky finds no context.
check_approval_risky == ~g_require_approval \/ g_approval_manager = NoManager

\* agent_execute_tool_by_name; the iteration ends with the last call.
RunCall(w) ==
    /\ pc[w] = "run"
    /\ LET t == Head(calls[w])
       IN  unapproved' = [unapproved EXCEPT ![w] =
                             @ \/ (t \in Risky /\ check_approval_risky)]
    /\ calls' = [calls EXCEPT ![w] = Tail(@)]
    /\ IF Len(calls[w]) = 1
       THEN /\ iteration' = [iteration EXCEPT ![w] = @ + 1]
            /\ pc' = [pc EXCEPT ![w] = "ask"]
       ELSE pc' = [pc EXCEPT ![w] = "check"] /\ UNCHANGED iteration
    /\ UNCHANGED <<guardVars, approvalVars, raceVars, task, round, turn>>

\* agent_free takes the approval context away from everybody; the job's own
\* counters and flags are gone with it.
JobEnd(w) ==
    /\ pc[w] = "free"
    /\ g_approval_manager' = NoManager
    /\ g_require_approval' = FALSE
    /\ pc' = [pc EXCEPT ![w] = "idle"]
    /\ turn' = [turn EXCEPT ![w] = <<>>]
    /\ unapproved' = [unapproved EXCEPT ![w] = FALSE]
    /\ task' = [task EXCEPT ![w] = FALSE]
    /\ round' = [round EXCEPT ![w] = 0]
    /\ iteration' = [iteration EXCEPT ![w] = 0]
    /\ disturbed' = [disturbed EXCEPT ![w] = FALSE]
    /\ Disarm(w)
    /\ UNCHANGED <<guardVars, calls>>

TurnStep(w) == \/ TurnStart(w) \/ AskFails(w) \/ AskTools(w) \/ AskAnswer(w)
               \/ CheckCall(w) \/ JobEnd(w)

TurnsNext == \E w \in Workers : JobStart(w) \/ TurnStep(w) \/ RunCall(w)

TurnsSpec == TurnsInit /\ [][TurnsNext]_turnVars

\* A worker that runs an agent job goes on with it: the provider answers or the
\* request times out (CURLOPT_TIMEOUT).  A tool need not return: run_with_timeout
\* waits without a limit for a command that has closed its output.
FairTurnsSpec == TurnsSpec /\ \A w \in Workers : WF_turnVars(TurnStep(w))
-----------------------------------------------------------------------------
\* The shared state and each worker's counters.
TurnsTypeOK ==
    /\ GuardTypeOK
    /\ g_approval_manager \in Workers \cup {NoManager}
    /\ g_require_approval \in BOOLEAN
    /\ pc \in [Workers -> {"idle", "turn", "ask", "check", "run", "free"}]
    /\ task \in [Workers -> BOOLEAN] /\ round \in [Workers -> 0..MaxRounds]
    /\ iteration \in [Workers -> 0..MaxIterations]
    /\ \A w \in Workers : /\ calls[w] \in Seq(Tools) /\ Len(calls[w]) <= MaxCalls
                          /\ turn[w] \in Seq(Tools)
                          /\ pc[w] \in {"check", "run"} => calls[w] /= <<>>
    /\ unapproved \in [Workers -> BOOLEAN]
    /\ disarmed \in [Workers -> BOOLEAN] /\ disturbed \in [Workers -> BOOLEAN]

\* "Set approval context for risky tools (shell, write, rm)." (tools.h): where
\* approval is required no risky tool runs without it.
RiskyNeedsApproval == RequireApproval => \A w \in Workers : ~unapproved[w]

\* What the code keeps of it with any number of jobs at once: the only way for a
\* risky tool to run unapproved is that another job's agent_free came after this
\* answer's calls began.  The context that other jobs set meanwhile is as good.
ApprovalHolds == RequireApproval => \A w \in Workers : unapproved[w] => disarmed[w]

\* "Detects repeated or ping-pong tool calls and trips to prevent runaway
\* loops" (loop_guard.h): no turn runs one tool SameThresh times in a row, unless
\* another job has reset or advanced the shared guard within it.
NoRunawayTurn ==
    \A w \in Workers :
        pc[w] = "run" /\ ~disturbed[w] =>
            ~ /\ Len(turn[w]) >= SameThresh
              /\ \A i \in 0..SameThresh - 1 : Ago(turn[w], i) = Ago(turn[w], 0)

\* Every agent job ends, whatever the provider keeps answering, unless one of its
\* tool calls never returns.
JobEnds == \A w \in Workers :
               (pc[w] /= "idle") ~> (pc[w] = "idle" \/ [](pc[w] = "run"))

\* The guard does what it is for within every turn: neither a run of one tool nor
\* an alternation of two goes on beyond its threshold.
GuardTrips == NoRunawayTurn /\ PingPongTrips
=============================================================================
