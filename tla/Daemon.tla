------------------------------- MODULE Daemon -------------------------------
(***************************************************************************)
(* The daemon command of src/src/main.c (cmd_daemon): the main thread      *)
(* starts the worker pool, the gateway's accept thread (gateway_run) and   *)
(* the Telegram poller, ticks cron, and on SIGTERM or SIGINT takes         *)
(* everything down again.  It composes the pool of JobWorkerPool with the  *)
(* threads that feed it: the clients are the gateway's detached handler    *)
(* threads, the feeders are the main thread (cron) and the poller.         *)
(***************************************************************************)
EXTENDS JobWorkerPool

CONSTANTS Main, Poller,
          HasWorkspace,      \* paths.workspace_dir is set
          MaxDue,            \* bound: the cron jobs due in one tick
          CloseWakesAccept   \* whether close() ends an accept() that another
                             \* thread is blocked in (BSD: yes, Linux: no)

ASSUME DaemonAssumption == /\ Feeders = {Main, Poller} /\ Main /= Poller
                           /\ MaxDue \in Nat /\ HasWorkspace \in BOOLEAN
                           /\ CloseWakesAccept \in BOOLEAN

VARIABLES main,         \* where the main thread is in cmd_daemon
          due,          \* the jobs cron_run_pending has yet to push
          g_daemon_shutdown, g_gateway_shutdown, g_gateway_listen_fd,
          closed,       \* the listening socket has been closed
          gateway,      \* where the accept thread is in gateway_run
          handler,      \* handler[c]: the handler thread c exists
          polling,      \* the Telegram poller exists
          pidFile,      \* doctorclaw.pid exists
          cacheFreed    \* jobcache_destroy has returned

mainVars == <<main, due, g_daemon_shutdown, pidFile, cacheFreed, polling>>
gatewayVars == <<g_gateway_shutdown, g_gateway_listen_fd, closed, gateway,
                 handler>>
daemonVars == <<mainVars, gatewayVars>>
allVars == <<vars, daemonVars>>

DaemonInit ==
    /\ PoolInit
    /\ main = "startPool" /\ due = 0
    /\ g_daemon_shutdown = FALSE /\ pidFile = FALSE /\ cacheFreed = FALSE
    /\ g_gateway_shutdown = FALSE /\ g_gateway_listen_fd = FALSE
    /\ closed = FALSE /\ gateway = "none" /\ polling = FALSE
    /\ handler = [c \in Clients |-> FALSE]
-----------------------------------------------------------------------------
(* The start of cmd_daemon. *)
MainStartPool ==
    /\ main = "startPool"
    /\ StartBegin \/ StartWorker \/ StartScaler
    /\ main' = CASE owner' = "started" -> "startGateway"
                 [] owner' = "failed" -> "abort"
                 [] OTHER -> "startPool"
    /\ UNCHANGED <<gatewayVars, due, g_daemon_shutdown, pidFile, cacheFreed,
                   polling>>

\* If the thread cannot be created the daemon prints a warning and goes on.
MainStartGateway ==
    /\ main = "startGateway"
    /\ \/ gateway' = "bind"
       \/ CreateMayFail /\ UNCHANGED gateway
    /\ main' = "startPoller"
    /\ UNCHANGED <<vars, due, g_daemon_shutdown, pidFile, cacheFreed, polling,
                   g_gateway_shutdown, g_gateway_listen_fd, closed, handler>>

\* channel_start_listeners, which may fail; not called without a workspace
\* directory.
MainStartPoller ==
    /\ main = "startPoller"
    /\ polling' \in {FALSE, HasWorkspace}
    /\ main' = "install"
    /\ UNCHANGED <<vars, gatewayVars, due, g_daemon_shutdown, pidFile,
                   cacheFreed>>

\* cron_init and the two signal handlers.
MainInstall ==
    /\ main = "install"
    /\ main' = "writePid"
    /\ UNCHANGED <<vars, gatewayVars, due, g_daemon_shutdown, pidFile,
                   cacheFreed, polling>>

\* A pid file that cannot be written is done without.
MainWritePid ==
    /\ main = "writePid"
    /\ pidFile' \in BOOLEAN
    /\ main' = "loop"
    /\ UNCHANGED <<vars, gatewayVars, due, g_daemon_shutdown, cacheFreed,
                   polling>>

\* `doctorclaw stop` (cmd_stop) finds the daemon by its pid file; Ctrl+C can
\* come as soon as the handlers are installed.
Signalled ==
    /\ ~g_daemon_shutdown
    /\ pidFile \/ main \in {"writePid", "loop", "cron", "sleep"}
    /\ g_daemon_shutdown' = TRUE
    /\ UNCHANGED <<vars, gatewayVars, main, due, pidFile, cacheFreed, polling>>
-----------------------------------------------------------------------------
(* The main loop: cron_run_pending, then ten seconds of sleep. *)
MainLoop ==
    /\ main = "loop"
    /\ IF g_daemon_shutdown THEN main' = "flag" /\ UNCHANGED due
                            ELSE main' = "cron" /\ due' \in 0..MaxDue
    /\ UNCHANGED <<vars, gatewayVars, g_daemon_shutdown, pidFile, cacheFreed,
                   polling>>

\* Each due task is pushed; the push may wait for a free slot.
MainCron ==
    /\ main = "cron"
    /\ op[Main] = "idle"
    /\ IF due > 0 THEN /\ FeederSubmit(Main)
                       /\ due' = due - 1
                       /\ UNCHANGED main
                  ELSE main' = "sleep" /\ UNCHANGED <<vars, due>>
    /\ UNCHANGED <<gatewayVars, g_daemon_shutdown, pidFile, cacheFreed,
                   polling>>

MainSleep ==
    /\ main = "sleep"
    /\ main' = "loop"
    /\ UNCHANGED <<vars, gatewayVars, due, g_daemon_shutdown, pidFile,
                   cacheFreed, polling>>
-----------------------------------------------------------------------------
(* The shutdown.  gateway_request_shutdown sets the flag, then closes the  *)
(* listening socket if there is one.                                       *)
MainSetFlag ==
    /\ main = "flag"
    /\ g_gateway_shutdown' = TRUE
    /\ main' = "close"
    /\ UNCHANGED <<vars, due, g_daemon_shutdown, pidFile, cacheFreed, polling,
                   g_gateway_listen_fd, closed, gateway, handler>>

\* Mistake: the socket is left to the accept thread.
MainCloseNothing ==
    /\ main = "close"
    /\ main' = "joinGateway"
    /\ UNCHANGED <<vars, gatewayVars, due, g_daemon_shutdown, pidFile,
                   cacheFreed, polling>>

MainClose ==
    /\ main = "close"
    /\ closed' = (closed \/ g_gateway_listen_fd)
    /\ g_gateway_listen_fd' = FALSE
    /\ main' = "joinGateway"
    /\ UNCHANGED <<vars, due, g_daemon_shutdown, pidFile, cacheFreed, polling,
                   g_gateway_shutdown, gateway, handler>>

\* Mistake: the accept thread is not joined.
MainJoinsNothing ==
    /\ main = "joinGateway"
    /\ pidFile' = FALSE
    /\ main' = "stopPool"
    /\ UNCHANGED <<vars, gatewayVars, due, g_daemon_shutdown, cacheFreed,
                   polling>>

\* Mistake: the pid file is left behind.
MainKeepsPid ==
    /\ main = "joinGateway"
    /\ gateway = "exited"
    /\ main' = "stopPool"
    /\ UNCHANGED <<vars, gatewayVars, due, g_daemon_shutdown, pidFile,
                   cacheFreed, polling>>

\* pthread_join, then unlink(pid_path).  Joining a gateway_thread that was
\* never created is undefined: it may return, or bring the daemon down.
MainJoinGateway ==
    /\ main = "joinGateway"
    /\ \/ /\ gateway \in {"exited", "none"}
          /\ pidFile' = FALSE
          /\ main' = "stopPool"
       \/ /\ gateway = "none"
          /\ main' = "crashed"
          /\ UNCHANGED pidFile
    /\ UNCHANGED <<vars, gatewayVars, due, g_daemon_shutdown, cacheFreed,
                   polling>>

\* cron_set_jobcache(NULL), jobworker_pool_stop, jobworker_pool_destroy; the
\* last two also undo a start that failed.
MainStopPool ==
    /\ main \in {"stopPool", "abort"}
    /\ StopBegin \/ StopJoinScaler \/ StopJoinWorkers \/ Destroy
    /\ main' = CASE owner' = "destroyed" -> "freeCache"
                 [] owner' = "crashed" -> "crashed"
                 [] OTHER -> main
    /\ UNCHANGED <<gatewayVars, due, g_daemon_shutdown, pidFile, cacheFreed,
                   polling>>

MainFreeCache ==
    /\ main = "freeCache"
    /\ cacheFreed' = TRUE
    /\ main' = "leave"
    /\ UNCHANGED <<vars, gatewayVars, due, g_daemon_shutdown, pidFile, polling>>

\* The rest of the shutdown; returning from main ends every thread.
MainExit ==
    /\ main = "leave"
    /\ main' = "exited"
    /\ UNCHANGED <<vars, gatewayVars, due, g_daemon_shutdown, pidFile,
                   cacheFreed, polling>>
-----------------------------------------------------------------------------
Up == main \notin {"exited", "crashed"}

(* gateway_run: socket, bind and listen may fail and end the thread. *)
GatewayBind ==
    /\ gateway = "bind"
    /\ \/ gateway' = "exited" /\ UNCHANGED g_gateway_listen_fd
       \/ gateway' = "test" /\ g_gateway_listen_fd' = TRUE
    /\ UNCHANGED <<vars, mainVars, g_gateway_shutdown, closed, handler>>

GatewayTest ==
    /\ gateway = "test"
    /\ IF g_gateway_shutdown
       THEN gateway' = "exited" /\ g_gateway_listen_fd' = FALSE
       ELSE gateway' = "call" /\ UNCHANGED g_gateway_listen_fd
    /\ UNCHANGED <<vars, mainVars, g_gateway_shutdown, closed, handler>>

\* accept() on the closed socket fails at once, and as it was closed by the
\* shutdown the loop ends; otherwise the thread blocks.
GatewayCallAccept ==
    /\ gateway = "call"
    /\ IF closed THEN gateway' = "exited" /\ g_gateway_listen_fd' = FALSE
                 ELSE gateway' = "accept" /\ UNCHANGED g_gateway_listen_fd
    /\ UNCHANGED <<vars, mainVars, g_gateway_shutdown, closed, handler>>

\* A connection arrives (a blocked accept still gets it after the close,
\* unless the close has woken it): create a handler, or drop it if there is
\* no memory or no thread for it.
GatewayAccept ==
    /\ gateway = "accept"
    /\ ~(closed /\ CloseWakesAccept)
    /\ gateway' = "test"
    /\ \/ \E c \in Clients : ~handler[c] /\ handler' = [handler EXCEPT ![c] = TRUE]
       \/ UNCHANGED handler
    /\ UNCHANGED <<vars, mainVars, g_gateway_shutdown, g_gateway_listen_fd,
                   closed>>

GatewayAcceptFails ==
    /\ gateway = "accept"
    /\ closed /\ CloseWakesAccept
    /\ gateway' = "exited"
    /\ g_gateway_listen_fd' = FALSE
    /\ UNCHANGED <<vars, mainVars, g_gateway_shutdown, closed, handler>>

\* gateway_worker: a chat or webhook request is pushed as a job and answered
\* when the job is done; any other request is answered without the cache.
HandlerPush(c) ==
    /\ handler[c]
    /\ ClientSubmit(c)
    /\ UNCHANGED daemonVars

HandlerReply(c) ==
    /\ handler[c]
    /\ \/ ClientReply(c)
       \/ ~serving[c] /\ UNCHANGED vars
    /\ handler' = [handler EXCEPT ![c] = FALSE]
    /\ UNCHANGED <<mainVars, g_gateway_shutdown, g_gateway_listen_fd, closed,
                   gateway>>

\* telegram_poll_thread_fn; nothing ever resets g_listeners_running.
PollerPush ==
    /\ polling
    /\ FeederSubmit(Poller)
    /\ UNCHANGED daemonVars

\* Threads inside the cache, the workers and the scaler; what a thread does
\* in a cache that was freed is undefined and not followed.
PoolThread == /\ \/ Scaler
                 \/ \E w \in Workers : Worker(w)
                 \/ ~cacheFreed /\ \E t \in Threads : InCache(t)
              /\ UNCHANGED daemonVars

MainStep == \/ MainStartPool \/ MainStartGateway \/ MainStartPoller
            \/ MainInstall \/ MainWritePid
            \/ MainLoop \/ MainCron \/ MainSleep
            \/ MainSetFlag \/ MainClose \/ MainJoinGateway
            \/ MainStopPool \/ MainFreeCache \/ MainExit

GatewayStep == GatewayBind \/ GatewayTest \/ GatewayCallAccept \/ GatewayAcceptFails

DaemonNext == /\ Up
              /\ \/ MainStep
                 \/ Signalled
                 \/ GatewayStep \/ GatewayAccept
                 \/ \E c \in Clients : HandlerPush(c) \/ HandlerReply(c)
                 \/ PollerPush
                 \/ PoolThread

DaemonSpec == DaemonInit /\ [][DaemonNext]_allVars

InCacheFair(t) == InCache(t) /\ ~SpuriousWakeup(t)
Expire(w) == PopExpire(w) /\ UNCHANGED <<poolVars, clientVars>>

(***************************************************************************)
(* Every thread keeps being scheduled.  The deadline of a worker's pop is  *)
(* computed once, before its loop, so that wakeups cannot put it off: a    *)
(* worker that keeps coming back to the wait is told in the end that its   *)
(* time is up (strong fairness).  Nothing else is promised: no connection  *)
(* and no signal has to arrive, nobody is woken for no reason, the job a   *)
(* worker runs may never return, and the mutex and the condition variable  *)
(* may always favour other producers.                                      *)
(***************************************************************************)
FairDaemonSpec ==
    /\ DaemonSpec
    /\ WF_allVars(Up /\ MainStep)
    /\ WF_allVars(Up /\ GatewayStep)
    /\ WF_allVars(Up /\ Scaler /\ UNCHANGED daemonVars)
    /\ \A w \in Workers :
          /\ WF_allVars(Up /\ (WorkerTest(w) \/ WorkerPopped(w)) /\ UNCHANGED daemonVars)
          /\ SF_allVars(Up /\ ~cacheFreed /\ Expire(w) /\ UNCHANGED daemonVars)
    /\ \A t \in Threads :
          WF_allVars(Up /\ ~cacheFreed /\ InCacheFair(t) /\ UNCHANGED daemonVars)
-----------------------------------------------------------------------------
\* The daemon's flags and the places of its threads.
DaemonTypeOK ==
    /\ PoolTypeOK
    /\ main \in {"startPool", "abort", "startGateway", "startPoller", "install",
                 "writePid", "loop", "cron", "sleep", "flag", "close",
                 "joinGateway", "stopPool", "freeCache", "leave", "exited",
                 "crashed"}
    /\ due \in 0..MaxDue
    /\ gateway \in {"none", "bind", "test", "call", "accept", "exited"}
    /\ handler \in [Clients -> BOOLEAN]
    /\ {g_daemon_shutdown, g_gateway_shutdown, g_gateway_listen_fd, closed,
        polling, pidFile, cacheFreed} \subseteq BOOLEAN

\* While the pool is being stopped nobody accepts connections any more: the
\* accept thread is joined before the first worker is.
GatewayEndsBeforePool ==
    owner \in {"joinScaler", "joinWorkers", "stopped", "destroyed"} =>
        gateway \in {"none", "exited"}

\* The pid file that `doctorclaw stop` goes by is written after the signal
\* handlers are installed and removed before a worker is stopped.  It outlives
\* its process in one case only, that of a daemon that ran without an accept
\* thread and broke down in joining it (main.c:466).
PidFileMeansServing ==
    pidFile => /\ main \in {"loop", "cron", "sleep", "flag", "close",
                            "joinGateway", "crashed"}
               /\ owner = "started" /\ running /\ ~cacheFreed
               /\ main = "crashed" => g_daemon_shutdown /\ gateway = "none"

\* A worker is in a job that never returns: a cron job is a system() without a
\* limit (jobworker.c:129).
JobHangs == \E w \in Workers : [](wstate[w] = "dispatch")

\* Slots come free again and again, and another producer has each of them
\* before the main thread that waits in its push.
PushOvertaken == [](op[Main] /= "idle") /\ []<>(count < Capacity)

\* A daemon that was told to stop does stop, however many jobs are queued,
\* running or waiting for a slot ("It will shut down gracefully.", cmd_stop):
\* all that can hold it up is a job that never returns, which it waits for, and
\* a push of its own that is overtaken for ever.
ShutdownCompletes ==
    g_daemon_shutdown ~> (main \in {"exited", "crashed"} \/ JobHangs \/ PushOvertaken)

=============================================================================
