-------------------------------- MODULE Cron --------------------------------
(***************************************************************************)
(* The scheduler of src/src/cron/cron.c and its two kinds of process: the  *)
(* daemon, which loads the table once and runs the pending tasks every ten *)
(* seconds, and the `doctorclaw cron` command (cmd_cron in main.c), which  *)
(* loads the table, changes it, saves it and exits.  They share nothing    *)
(* but cron.db (the model takes state_dir to be the directory that the     *)
(* command always uses, $HOME/.doctorclaw).  Time is in seconds; a job is  *)
(* pushed to the job cache, where jobcache_push never fails (it waits).    *)
(***************************************************************************)
EXTENDS Integers, Sequences, FiniteSets, SequencesExt

CONSTANTS Daemon, Clis,       \* the processes
          Ids, Cmds, Piped,   \* task ids; commands; those that contain a '|'
          Exprs, Hourly, Short,   \* expressions; those with an hour field;
                                  \* those with less than five fields
          Minute, Hour,       \* 60 and 3600
          MaxTasks, MaxTime,
          OneAtATime,         \* no two processes are up together
          MayCrash,           \* a process may be killed at any moment
          SaveMayFail         \* cron.db may not be writable, or the disk full

ASSUME CronAssumption ==
    /\ Daemon \notin Clis
    /\ Piped \subseteq Cmds /\ Hourly \subseteq Exprs /\ Short \subseteq Exprs
    /\ Minute \in Nat \ {0} /\ Hour \in Nat /\ Minute <= Hour
    /\ MaxTasks \in Nat /\ MaxTime \in Nat
    /\ {OneAtATime, MayCrash, SaveMayFail} \subseteq BOOLEAN

VARIABLES now,     \* the clock
          file,    \* the task lines of cron.db
          g_tasks, \* g_tasks[p]: the table in the memory of process p
          pc,      \* pc[p]: where process p is
          req,     \* req[p]: what the command was asked to do, and whether it did
          at,      \* the daemon's loop index in cron_run_pending
          tick,    \* its local copy of the time, 0 once it is gone
          loaded,  \* when the daemon loaded its table, 0 while it is down
          ran,     \* ran[id]: when the task was last pushed, -1 if never
          added    \* added[id]: `cron add` has reported id, its last save came
                   \* through, and since then none was cut short by a kill or a
                   \* full disk

cronVars == <<now, file, g_tasks, pc, req, at, tick, loaded, ran, added>>

Procs == Clis \cup {Daemon}

\* A table row.  whole: the command is the one that was given; a load that
\* splits it at its '|' keeps only what comes before.
Tasks == [id : Ids, expression : Exprs, command : Cmds, whole : BOOLEAN,
          enabled : BOOLEAN, next_run : 0..MaxTime + Hour]
IdsOf(s) == {s[i].id : i \in DOMAIN s}

Requests == [op : {"list"}] \cup [op : {"remove"}, id : Ids]
            \cup [op : {"add"}, id : Ids, expression : Exprs, command : Cmds]
            \cup [op : {"added"}, id : Ids] \cup [op : {"none"}]
NoRequest == [op |-> "none"]

Interval(e) == IF e \in Hourly THEN Hour ELSE Minute

calculate_next_run(e, from) ==
    IF e \in Short THEN from + Minute
                   ELSE ((from \div Interval(e)) + 1) * Interval(e)

\* Mistake: the saved next_run is not read and the task is due at once.
LoadedDue(t) ==
    LET split == t.whole /\ t.command \in Piped
    IN  [t EXCEPT !.whole = t.whole /\ ~split,
                  !.enabled = t.enabled /\ ~split,
                  !.next_run = now]

\* What load_tasks_from_disk makes of a line: the text is split at every '|',
\* so one inside the command shifts the columns after it, enabled is read from
\* the command's second part and next_run from last_run; a time that has
\* passed is replaced by the next one.
Loaded(t) ==
    LET split == t.whole /\ t.command \in Piped
    IN  [t EXCEPT !.whole = t.whole /\ ~split,
                  !.enabled = t.enabled /\ ~split,
                  !.next_run = IF split \/ t.next_run < now
                               THEN calculate_next_run(t.expression, now)
                               ELSE t.next_run]

load_tasks_from_disk ==
    [i \in 1..IF Len(file) < MaxTasks THEN Len(file) ELSE MaxTasks |-> Loaded(file[i])]

CronInit == /\ now = 0
            /\ file = <<>>
            /\ g_tasks = [p \in Procs |-> <<>>]
            /\ pc = [p \in Procs |-> "down"]
            /\ req = [p \in Procs |-> NoRequest]
            /\ at = 0 /\ tick = 0 /\ loaded = 0
            /\ ran = [id \in Ids |-> -1]
            /\ added = [id \in Ids |-> FALSE]

Alone(p) == OneAtATime => \A q \in Procs \ {p} : pc[q] = "down"
-----------------------------------------------------------------------------
(* cron_init: the table is emptied and loaded. *)
DaemonStart ==
    /\ pc[Daemon] = "down"
    /\ Alone(Daemon)
    /\ g_tasks' = [g_tasks EXCEPT ![Daemon] = load_tasks_from_disk]
    /\ loaded' = now
    /\ pc' = [pc EXCEPT ![Daemon] = "idle"]
    /\ UNCHANGED <<now, file, req, at, tick, ran, added>>

CliStart(p) ==
    /\ pc[p] = "down"
    /\ Alone(p)
    /\ g_tasks' = [g_tasks EXCEPT ![p] = load_tasks_from_disk]
    /\ \E r \in Requests : /\ r.op \in {"list", "add", "remove"}
                           /\ req' = [req EXCEPT ![p] = r]
    /\ pc' = [pc EXCEPT ![p] = "op"]
    /\ UNCHANGED <<now, file, at, tick, ran, added, loaded>>

cron_add_task(p) ==
    /\ pc[p] = "op" /\ req[p].op = "add"
    /\ Len(g_tasks[p]) < MaxTasks /\ req[p].id \notin IdsOf(g_tasks[p])
    /\ LET t == [id |-> req[p].id, expression |-> req[p].expression,
                 command |-> req[p].command, whole |-> TRUE, enabled |-> TRUE,
                 next_run |-> calculate_next_run(req[p].expression, now)]
       IN  g_tasks' = [g_tasks EXCEPT ![p] = Append(@, t)]
    /\ req' = [req EXCEPT ![p] = [op |-> "added", id |-> req[p].id]]
    /\ ran' = [ran EXCEPT ![req[p].id] = -1]
    /\ pc' = [pc EXCEPT ![p] = "save"]
    /\ UNCHANGED <<now, file, at, tick, added, loaded>>

cron_remove_task(p) ==
    /\ pc[p] = "op" /\ req[p].op = "remove"
    /\ \E i \in DOMAIN g_tasks[p] :
          /\ g_tasks[p][i].id = req[p].id
          /\ \A j \in 1..i-1 : g_tasks[p][j].id /= req[p].id
          /\ g_tasks' = [g_tasks EXCEPT ![p] = RemoveAt(@, i)]
    /\ added' = [added EXCEPT ![req[p].id] = FALSE]
    /\ pc' = [pc EXCEPT ![p] = "save"]
    /\ UNCHANGED <<now, file, req, at, tick, ran, loaded>>

\* A list, a table that is full, an id that is taken or unknown: nothing to
\* save but what cron_shutdown saves.
CliNothing(p) ==
    /\ pc[p] = "op"
    /\ \/ req[p].op = "list"
       \/ /\ req[p].op = "add"
          /\ Len(g_tasks[p]) >= MaxTasks \/ req[p].id \in IdsOf(g_tasks[p])
       \/ req[p].op = "remove" /\ req[p].id \notin IdsOf(g_tasks[p])
    /\ pc' = [pc EXCEPT ![p] = "end"]
    /\ UNCHANGED <<now, file, g_tasks, req, at, tick, ran, added, loaded>>
-----------------------------------------------------------------------------
(* save_tasks_to_disk: fopen(..., "w") empties the file, the lines reach   *)
(* it when it is closed.  Lines that another process wrote meanwhile and   *)
(* that reach further than ours are left behind ours.                      *)
SaveStates == {"save", "end"}
SaveOpen(p) ==
    /\ pc[p] \in SaveStates
    /\ file' = <<>>
    /\ pc' = [pc EXCEPT ![p] = IF pc[p] = "save" THEN "saveWrite" ELSE "endWrite"]
    /\ UNCHANGED <<now, g_tasks, req, at, tick, ran, added, loaded>>

Written(p) == g_tasks[p] \o SubSeq(file, Len(g_tasks[p]) + 1, Len(file))
WrittenUpTo(p, n) == SubSeq(g_tasks[p], 1, n) \o SubSeq(file, n + 1, Len(file))

\* The save of an operation; the command goes on to cron_shutdown.
SaveWrite(p) ==
    /\ pc[p] = "saveWrite"
    /\ file' = Written(p)
    /\ pc' = [pc EXCEPT ![p] = IF p = Daemon THEN "idle" ELSE "end"]
    /\ UNCHANGED <<now, g_tasks, req, at, tick, ran, added, loaded>>

\* What the daemon knew of the time ends with its process.
Forget(p) == IF p = Daemon THEN tick' = 0 /\ loaded' = 0
             ELSE UNCHANGED <<tick, loaded>>

\* The process ends.
Ends(p) ==
    /\ g_tasks' = [g_tasks EXCEPT ![p] = <<>>]
    /\ req' = [req EXCEPT ![p] = NoRequest]
    /\ pc' = [pc EXCEPT ![p] = "down"]
    /\ Forget(p)

\* ... its last save done or not.
Leave(p, saved) ==
    /\ Ends(p)
    /\ added' = IF saved /\ req[p].op = "added"
                THEN [added EXCEPT ![req[p].id] = TRUE] ELSE added

\* Mistake: cron_shutdown empties the table before it saves it.
EndWriteEmpty(p) ==
    /\ pc[p] = "endWrite"
    /\ file' = <<>>
    /\ Leave(p, TRUE)
    /\ UNCHANGED <<now, at, ran>>

\* The save of cron_shutdown, which ends the process.
EndWrite(p) ==
    /\ pc[p] = "endWrite"
    /\ file' = Written(p)
    /\ Leave(p, TRUE)
    /\ UNCHANGED <<now, at, ran>>

\* The file cannot be opened; nobody looks at what the save returns.
SaveFails(p) ==
    /\ SaveMayFail /\ pc[p] \in SaveStates
    /\ IF pc[p] = "end" THEN Leave(p, FALSE)
       ELSE /\ pc' = [pc EXCEPT ![p] = IF p = Daemon THEN "idle" ELSE "end"]
            /\ UNCHANGED <<g_tasks, req, added, tick, loaded>>
    /\ UNCHANGED <<now, file, at, ran>>

\* What fprintf and fclose return is not looked at either: when the disk is full
\* only the first lines get into the file, which was emptied before.  (A line
\* that is cut in two counts as none.)
SaveCut(p) ==
    /\ SaveMayFail /\ pc[p] \in {"saveWrite", "endWrite"}
    /\ \E n \in 0..Len(g_tasks[p]) - 1 : file' = WrittenUpTo(p, n)
    /\ added' = [id \in Ids |-> FALSE]
    /\ IF pc[p] = "endWrite" THEN Ends(p)
       ELSE /\ pc' = [pc EXCEPT ![p] = IF p = Daemon THEN "idle" ELSE "end"]
            /\ UNCHANGED <<g_tasks, req, tick, loaded>>
    /\ UNCHANGED <<now, at, ran>>
-----------------------------------------------------------------------------
(* cron_run_pending: every due task is pushed, then the table is saved. *)
RunBegin ==
    /\ pc[Daemon] = "idle"
    /\ tick' = now /\ at' = 1
    /\ pc' = [pc EXCEPT ![Daemon] = "run"]
    /\ UNCHANGED <<now, file, g_tasks, req, ran, added, loaded>>

Due(t) == t.enabled /\ tick >= t.next_run

\* Mistake: the next run is computed from the last one instead of from now.
RunTaskCatchesUp ==
    /\ pc[Daemon] = "run" /\ at <= Len(g_tasks[Daemon])
    /\ LET t == g_tasks[Daemon][at]
       IN  IF Due(t)
           THEN /\ ran' = [ran EXCEPT ![t.id] = tick]
                /\ g_tasks' = [g_tasks EXCEPT ![Daemon][at].next_run =
                                   calculate_next_run(t.expression, t.next_run)]
           ELSE UNCHANGED <<ran, g_tasks>>
    /\ at' = at + 1
    /\ UNCHANGED <<now, file, pc, req, tick, added, loaded>>

RunTask ==
    /\ pc[Daemon] = "run" /\ at <= Len(g_tasks[Daemon])
    /\ LET t == g_tasks[Daemon][at]
       IN  IF Due(t)
           THEN /\ ran' = [ran EXCEPT ![t.id] = tick]
                /\ g_tasks' = [g_tasks EXCEPT ![Daemon][at].next_run =
                                   calculate_next_run(t.expression, tick)]
           ELSE UNCHANGED <<ran, g_tasks>>
    /\ at' = at + 1
    /\ UNCHANGED <<now, file, pc, req, tick, added, loaded>>

RunEnd ==
    /\ pc[Daemon] = "run" /\ at > Len(g_tasks[Daemon])
    /\ at' = 0
    /\ pc' = [pc EXCEPT ![Daemon] = "save"]
    /\ UNCHANGED <<now, file, g_tasks, req, tick, ran, added, loaded>>

\* cron_shutdown at the end of cmd_daemon.
DaemonStop ==
    /\ pc[Daemon] = "idle"
    /\ pc' = [pc EXCEPT ![Daemon] = "end"]
    /\ UNCHANGED <<now, file, g_tasks, req, at, tick, ran, added, loaded>>

Clock == /\ now < MaxTime
         /\ now' = now + 1
         /\ UNCHANGED <<file, g_tasks, pc, req, at, tick, ran, added, loaded>>

Crash(p) ==
    /\ MayCrash /\ pc[p] /= "down"
    /\ pc' = [pc EXCEPT ![p] = "down"]
    /\ g_tasks' = [g_tasks EXCEPT ![p] = <<>>]
    /\ req' = [req EXCEPT ![p] = NoRequest]
    /\ at' = IF p = Daemon THEN 0 ELSE at
    /\ added' = [id \in Ids |-> added[id] /\ pc[p] \notin {"saveWrite", "endWrite"}]
    /\ Forget(p)
    /\ UNCHANGED <<now, file, ran>>

CronNext == \/ DaemonStart \/ RunBegin \/ RunTask \/ RunEnd \/ DaemonStop
            \/ \E p \in Clis : \/ CliStart(p) \/ cron_add_task(p)
                               \/ cron_remove_task(p) \/ CliNothing(p)
            \/ \E p \in Procs : \/ SaveOpen(p) \/ SaveWrite(p) \/ EndWrite(p)
                                \/ SaveFails(p) \/ SaveCut(p) \/ Crash(p)
            \/ Clock

CronSpec == CronInit /\ [][CronNext]_cronVars
-----------------------------------------------------------------------------
\* The table, the file and the processes; no task is put off by more than its
\* longest interval.
CronTypeOK ==
    /\ now \in 0..MaxTime
    /\ file \in Seq(Tasks)
    /\ \A p \in Procs : g_tasks[p] \in Seq(Tasks) /\ Len(g_tasks[p]) <= MaxTasks
    /\ pc \in [Procs -> {"down", "idle", "run", "op", "save", "saveWrite", "end",
                         "endWrite"}]
    /\ req \in [Procs -> Requests]
    /\ at \in 0..MaxTasks + 1 /\ tick \in 0..MaxTime /\ loaded \in 0..MaxTime
    /\ ran \in [Ids -> -1..MaxTime] /\ added \in [Ids -> BOOLEAN]

\* No table ever holds two tasks with one id, through additions, removals,
\* saves, loads and restarts: remove and the duplicate test go by id.
UniqueIds ==
    \A p \in Procs : Cardinality(IdsOf(g_tasks[p])) = Len(g_tasks[p])

\* When cron_run_pending has gone through the table no enabled task is due
\* any more, whatever time passed while its pushes waited for a slot.
DueAreServed ==
    pc[Daemon] = "save" =>
        \A i \in DOMAIN g_tasks[Daemon] :
            g_tasks[Daemon][i].enabled => g_tasks[Daemon][i].next_run > tick

\* From time r to time n is a minute, or another interval of the schedule.
Spaced(e, r, n) == IF e \in Short THEN n - r >= Minute
                   ELSE n \div Interval(e) > r \div Interval(e)

PushedAgain(id) == ran[id] >= 0 /\ ran'[id] > ran[id]

\* A task is pushed at most once in an interval of its schedule, and a task
\* with a short expression at most once a minute, however often the table is
\* saved and loaded in between (a task that is removed and added again counts
\* as a new one).  Only a daemon that is killed between the push and the save,
\* or whose saves fail, and that is up again within the same second, repeats
\* it: the time it loads is then not yet past.
RunsAreSpaced ==
    [][\A id \in Ids :
         (PushedAgain(id) /\ ~((MayCrash \/ SaveMayFail) /\ loaded = ran[id])) =>
             Spaced(g_tasks[Daemon][at].expression, ran[id], ran'[id])
      ]_cronVars

Quiet == \A p \in Procs : pc[p] \notin {"saveWrite", "endWrite"}

\* A task that was added is in cron.db until it is removed ("persist to disk",
\* COMPLETION_PLAN.md), through the saves of other commands and of the daemon,
\* restarts, kills outside a save and saves that cannot open the file.
AddedIsPersisted ==
    Quiet => \A id \in Ids : added[id] => id \in IdsOf(file)

\* ... and it is there as it was given, with its whole command and enabled; but
\* not if the command holds the column separator.
AddedIsFaithful ==
    Quiet => \A i \in DOMAIN file :
                 added[file[i].id] /\ file[i].command \notin Piped =>
                     file[i].whole /\ file[i].enabled

\* The table is what the commands have made it: one task per id, the tasks that
\* are due served, and each one as it was added.
CronFaithful == UniqueIds /\ DueAreServed /\ AddedIsFaithful
=============================================================================
