------------------------------ MODULE ShellRun ------------------------------
(***************************************************************************)
(* run_with_timeout of src/src/tools/tools.c, behind the tools shell, zsh  *)
(* and network: a child process, the pipe it writes to, the loop that      *)
(* reads the pipe until the child is done or its time is up.               *)
(***************************************************************************)
EXTENDS Integers

CONSTANTS TimeoutSecs,   \* timeout_secs
          OutputSize,    \* output_size, in reads of the pipe
          ExitCodes      \* what the command may exit with

ASSUME ShellRunAssumption ==
    TimeoutSecs \in Nat \ {0} /\ OutputSize \in Nat \ {0} /\ ExitCodes \subseteq Nat

VARIABLES loop,        \* where run_with_timeout is
          child,       \* the process that execl turned into the shell
          code,        \* its exit code; NoCode before it exits, or after a signal
          writers,     \* somebody holds the write end: the child or its children
          ready,       \* the pipe holds output that was not read
          total_read, elapsed, status,
          killedStray  \* history: a signal was sent to a process already reaped

shellVars == <<loop, child, code, writers, ready, total_read, elapsed, status, killedStray>>

NoCode == -1    \* also what the function returns where WIFEXITED is false

ShellInit ==
    /\ loop = "idle" /\ child = "none" /\ code = NoCode /\ writers = FALSE /\ ready = FALSE
    /\ total_read = 0 /\ elapsed = 0 /\ status = -1 /\ killedStray = FALSE
-----------------------------------------------------------------------------
(* The function. *)

\* pipe and fork; without either there is no command.
RunBegin ==
    /\ loop = "idle"
    /\ \/ loop' = "polling" /\ child' = "running" /\ writers' = TRUE
       \/ loop' = "returned" /\ UNCHANGED <<child, writers>>
    /\ UNCHANGED <<code, ready, total_read, elapsed, status, killedStray>>

TimeIsUp == elapsed > TimeoutSecs

\* SIGKILL and waitpid.  Children of the child may live on.
Timeout ==
    /\ loop = "polling" /\ TimeIsUp
    /\ killedStray' = (killedStray \/ child = "reaped")
    /\ child' = "reaped" /\ loop' = "returned" /\ writers' \in {writers, FALSE}
    /\ UNCHANGED <<code, ready, total_read, elapsed, status>>

\* select finds output: it is copied, unless the buffer is full.
PollOutput ==
    /\ loop = "polling" /\ ~TimeIsUp /\ ready
    /\ IF total_read + 1 < OutputSize
       THEN total_read' = total_read + 1 /\ ready' \in {TRUE, FALSE} /\ UNCHANGED loop
       ELSE loop' = "waiting" /\ ready' = FALSE /\ UNCHANGED total_read
    /\ UNCHANGED <<child, code, writers, elapsed, status, killedStray>>

\* select finds the end of the output.
PollEnd ==
    /\ loop = "polling" /\ ~TimeIsUp /\ ~ready /\ ~writers
    /\ loop' = "waiting"
    /\ UNCHANGED <<child, code, writers, ready, total_read, elapsed, status, killedStray>>

\* select is interrupted by a signal.
PollInterrupted ==
    /\ loop = "polling" /\ ~TimeIsUp
    /\ loop' = "waiting"
    /\ UNCHANGED <<child, code, writers, ready, total_read, elapsed, status, killedStray>>

\* A second without output: a child that has ended is reaped, and the loop left.
PollNothing ==
    /\ loop = "polling" /\ ~TimeIsUp /\ ~ready /\ writers
    /\ child = "zombie" /\ child' = "reaped" /\ status' = code /\ loop' = "waiting"
    /\ UNCHANGED <<code, writers, ready, total_read, elapsed, killedStray>>

\* The waitpid behind the loop, which fails at once if the child was reaped; the
\* result is the exit code, or -1 for a command that was killed by a signal.
WaitChild ==
    /\ loop = "waiting" /\ child \in {"zombie", "reaped"}
    /\ child' = "reaped" /\ status' = IF child = "zombie" THEN code ELSE status
    /\ loop' = "returned"
    /\ UNCHANGED <<code, writers, ready, total_read, elapsed, killedStray>>
-----------------------------------------------------------------------------
(* The processes and the clock. *)

Writes == /\ writers /\ ~ready /\ loop = "polling" /\ ready' = TRUE
          /\ UNCHANGED <<loop, child, code, writers, total_read, elapsed, status, killedStray>>

\* The command exits or is killed by a signal; what it has started may keep the
\* pipe open.
Exits == /\ child = "running" /\ child' = "zombie" /\ code' \in ExitCodes \cup {NoCode}
         /\ writers' \in {writers, FALSE}
         /\ UNCHANGED <<loop, ready, total_read, elapsed, status, killedStray>>

\* The last holder of the write end closes it, which a running command may do too.
Closes == /\ writers /\ writers' = FALSE
          /\ UNCHANGED <<loop, child, code, ready, total_read, elapsed, status, killedStray>>

Second == /\ loop = "polling" /\ ~TimeIsUp /\ elapsed' = elapsed + 1
          /\ UNCHANGED <<loop, child, code, writers, ready, total_read, status, killedStray>>

ShellRunNext == \/ RunBegin \/ Timeout \/ PollOutput \/ PollEnd \/ PollInterrupted \/ PollNothing \/ WaitChild
                \/ Writes \/ Exits \/ Closes \/ Second
-----------------------------------------------------------------------------
\* Every signal goes to the child of this call: never to a pid that was reaped,
\* which may be another process by now.
KillsOwnChild == ~killedStray

\* A command that was started is reaped when the call returns, however it ends.
ChildIsReaped == loop = "returned" => child \in {"none", "reaped"}

\* The result is the exit code of the command on each of the ways out of the
\* loop, -1 if it died of a signal or its time was up.
ExitCodeKept == loop = "returned" => status = code \/ (status = -1 /\ TimeIsUp)

\* The loop is left after the command's time at the latest, also if the command
\* never ends: by a kill, unless the output ended, was too long, or a signal came
\* (then the command is waited for, for as long as it takes).
LoopEnds == loop = "polling" ~> loop \in {"waiting", "returned"}

\* Whichever comes first, the end of the command, the end of its output or the
\* end of its time: the child is ended, reaped and reported as it was.
RunIsClean == KillsOwnChild /\ ChildIsReaped /\ ExitCodeKept
=============================================================================
