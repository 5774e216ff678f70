---------------------------- MODULE DaemonProofs ----------------------------
(***************************************************************************)
(* Proofs about Daemon: the daemon's composition keeps what the worker     *)
(* pool guarantees, and cmd_daemon takes its parts down in the right       *)
(* order, for every number of workers and handler threads.                 *)
(***************************************************************************)
EXTENDS Daemon, JobWorkerPoolProofs

\* To the pool, a step of the daemon is a step of one of its threads or
\* callers, or nothing.
LEMMA DaemonIsMove == [DaemonNext]_allVars => [PoolMove]_vars
<1> USE PoolAssumption, DaemonAssumption
<1>1. MainStep => [PoolMove]_vars
  <2>1. MainStartPool \/ MainStopPool => Owner
    BY DEF MainStartPool, MainStopPool, Owner
  <2>2. MainCron => [PoolMove]_vars
    BY DEF MainCron, PoolMove
  <2>3. \/ MainStartGateway \/ MainStartPoller \/ MainInstall \/ MainWritePid
        \/ MainLoop \/ MainSleep \/ MainSetFlag \/ MainClose \/ MainJoinGateway
        \/ MainFreeCache \/ MainExit
        => UNCHANGED vars
    BY DEF MainStartGateway, MainStartPoller, MainInstall, MainWritePid,
           MainLoop, MainSleep, MainSetFlag, MainClose, MainJoinGateway,
           MainFreeCache, MainExit
  <2> QED
    BY <2>1, <2>2, <2>3 DEF MainStep, PoolMove
<1>2. Signalled \/ GatewayStep \/ GatewayAccept \/ UNCHANGED allVars
        => UNCHANGED vars
  BY DEF Signalled, GatewayStep, GatewayBind, GatewayTest, GatewayCallAccept,
         GatewayAcceptFails, GatewayAccept, allVars
<1>3. ASSUME NEW c \in Clients, HandlerPush(c) \/ HandlerReply(c)
      PROVE  [PoolMove]_vars
  BY <1>3 DEF HandlerPush, HandlerReply, PoolMove
<1>4. PollerPush \/ PoolThread => PoolMove
  BY DEF PollerPush, PoolThread, PoolMove
<1> QED
  BY <1>1, <1>2, <1>3, <1>4 DEF DaemonNext

LEMMA DaemonKeepsPool ==
    JobsInv /\ LifeInv /\ [DaemonNext]_allVars => JobsInv' /\ LifeInv'
BY DaemonIsMove, JobsStep, LifeStep DEF JobsInv

\* What the pool guarantees survives the daemon's composition: with handler
\* threads that come and go, cron and the poller pushing, and the shutdown
\* running, no job is run twice, none is forgotten, none outlives its
\* handler's context, and no thread is left in a freed pool.
THEOREM PoolHoldsInDaemon ==
    DaemonSpec => [](/\ ContextOutlivesJob /\ RunOnce
                     /\ NoForgottenRequest /\ FreedIsUnused)
<1>1. DaemonInit => JobsInv /\ LifeInv
  BY JobsInit, LifeInit DEF DaemonInit
<1>2. JobsInv /\ LifeInv => /\ ContextOutlivesJob /\ RunOnce
                            /\ NoForgottenRequest /\ FreedIsUnused
  BY JobsCorrect DEF LifeInv, FreedIsUnused
<1> QED
  BY <1>1, <1>2, DaemonKeepsPool, PTL DEF DaemonSpec

(***************************************************************************)
(* Type correctness of the daemon's own state.                             *)
(***************************************************************************)
LEMMA DaemonTypeStep ==
    DaemonTypeOK /\ [DaemonNext]_allVars => DaemonTypeOK'
<1> SUFFICES ASSUME DaemonTypeOK, [DaemonNext]_allVars PROVE DaemonTypeOK'
  OBVIOUS
<1> USE DaemonAssumption
<1>0. PoolTypeOK'
  BY DaemonIsMove, PoolTypeStep DEF DaemonTypeOK
<1>1. CASE MainStep
  <2>1. CASE \/ MainStartPool \/ MainStartGateway \/ MainInstall \/ MainSleep
             \/ MainSetFlag \/ MainJoinGateway \/ MainStopPool
             \/ MainFreeCache \/ MainExit
    BY <1>0, <2>1
    DEF DaemonTypeOK, gatewayVars, MainStartPool, MainStartGateway, MainInstall,
        MainSleep, MainSetFlag, MainJoinGateway, MainStopPool, MainFreeCache,
        MainExit
  <2>2. CASE MainStartPoller
    BY <1>0, <2>2 DEF DaemonTypeOK, gatewayVars, MainStartPoller
  <2>3. CASE MainWritePid
    BY <1>0, <2>3 DEF DaemonTypeOK, gatewayVars, MainWritePid
  <2>4. CASE MainLoop
    BY <1>0, <2>4 DEF DaemonTypeOK, gatewayVars, MainLoop
  <2>5. CASE MainCron
    <3>1. due' \in 0..MaxDue
      BY <2>5, SMT DEF DaemonTypeOK, MainCron
    <3> QED
      BY <1>0, <2>5, <3>1 DEF DaemonTypeOK, gatewayVars, MainCron
  <2>6. CASE MainClose
    BY <1>0, <2>6 DEF DaemonTypeOK, MainClose
  <2> QED
    BY <1>1, <2>1, <2>2, <2>3, <2>4, <2>5, <2>6 DEF MainStep
<1>2. CASE Signalled
  BY <1>0, <1>2 DEF DaemonTypeOK, gatewayVars, Signalled
<1>3. CASE GatewayStep
  BY <1>0, <1>3 DEF DaemonTypeOK, mainVars, GatewayStep, GatewayBind,
                    GatewayTest, GatewayCallAccept, GatewayAcceptFails
<1>4. CASE GatewayAccept
  BY <1>0, <1>4 DEF DaemonTypeOK, mainVars, GatewayAccept
<1>5. ASSUME NEW c \in Clients, HandlerReply(c) PROVE DaemonTypeOK'
  BY <1>0, <1>5 DEF DaemonTypeOK, mainVars, HandlerReply
<1>6. ASSUME UNCHANGED daemonVars PROVE DaemonTypeOK'
  BY <1>0, <1>6 DEF DaemonTypeOK, daemonVars, mainVars, gatewayVars
<1> QED
  BY <1>1, <1>2, <1>3, <1>4, <1>5, <1>6
  DEF DaemonNext, allVars, HandlerPush, PollerPush, PoolThread

LEMMA DaemonTypeInit == DaemonInit => DaemonTypeOK
<1> SUFFICES ASSUME DaemonInit PROVE DaemonTypeOK
  OBVIOUS
<1>1. PoolTypeOK
  BY PoolTypeInit DEF DaemonInit
<1>2. handler \in [Clients -> BOOLEAN]
  BY Zenon DEF DaemonInit
<1>3. due \in 0..MaxDue
  BY DaemonAssumption, SMT DEF DaemonInit
<1> QED
  BY <1>1, <1>2, <1>3 DEF DaemonInit, DaemonTypeOK

\* No order of start, failure, signal and shutdown takes a thread of the
\* daemon, or a field of the pool and the cache it composes, out of its range.
THEOREM DaemonTypeCorrect == DaemonSpec => []DaemonTypeOK
<1>1. QED
  BY DaemonTypeInit, DaemonTypeStep, PTL DEF DaemonSpec

(***************************************************************************)
(* The order of the shutdown.  What cmd_daemon has started, and not yet    *)
(* ended, at each place of the main thread.                                *)
(***************************************************************************)
Serving == {"startGateway", "startPoller", "install", "writePid", "loop",
            "cron", "sleep", "flag", "close", "joinGateway"}

PlaceInv ==
    /\ main = "startPool" => owner \in {"created", "starting", "startScaler"}
    /\ main \in Serving => owner = "started"
    /\ main \in {"startPool", "abort"} => gateway = "none"
    /\ main = "stopPool" => gateway \in {"none", "exited"}
    /\ cacheFreed => main \in {"leave", "exited"}
    /\ GatewayEndsBeforePool
    /\ pidFile => /\ main \in {"loop", "cron", "sleep", "flag", "close",
                               "joinGateway", "crashed"}
                  /\ owner = "started"
                  /\ main = "crashed" => g_daemon_shutdown /\ gateway = "none"
    /\ main \in {"flag", "close", "joinGateway"} => g_daemon_shutdown

LEMMA PlaceStep ==
    DaemonTypeOK /\ PlaceInv /\ [DaemonNext]_allVars => PlaceInv'
<1> SUFFICES ASSUME DaemonTypeOK, PlaceInv, [DaemonNext]_allVars PROVE PlaceInv'
  OBVIOUS
<1> USE DEF PlaceInv, Serving, GatewayEndsBeforePool
<1>1. CASE MainStartPool
  <2>1. /\ main = "startPool" /\ UNCHANGED <<gateway, pidFile, cacheFreed, g_daemon_shutdown>>
        /\ owner' \in {"starting", "startScaler", "started", "failed"}
    BY <1>1 DEF MainStartPool, gatewayVars, StartBegin, StartWorker, StartScaler
  <2>2. main' = CASE owner' = "started" -> "startGateway"
                  [] owner' = "failed" -> "abort"
                  [] OTHER -> "startPool"
    BY <1>1 DEF MainStartPool
  <2> QED
    BY <2>1, <2>2
<1>2. CASE MainStopPool
  <2>1. /\ main \in {"stopPool", "abort"}
        /\ UNCHANGED <<gateway, pidFile, cacheFreed, g_daemon_shutdown>>
        /\ owner' \in {"joinScaler", "joinWorkers", "stopped", "destroyed",
                       "crashed"}
    BY <1>2 DEF MainStopPool, gatewayVars, StopBegin, StopJoinScaler,
                StopJoinWorkers, Destroy
  <2>2. main' = CASE owner' = "destroyed" -> "freeCache"
                  [] owner' = "crashed" -> "crashed"
                  [] OTHER -> main
    BY <1>2 DEF MainStopPool
  <2> QED
    BY <2>1, <2>2
<1>3. CASE \/ MainStartGateway \/ MainStartPoller \/ MainInstall
           \/ MainWritePid \/ MainLoop \/ MainSleep
  <2>1. UNCHANGED <<owner, cacheFreed, g_daemon_shutdown>>
    BY <1>3 DEF MainStartGateway, MainStartPoller, MainInstall, MainWritePid,
                MainLoop, MainSleep, vars, poolVars
  <2>2. CASE MainStartGateway
    BY <2>1, <2>2 DEF MainStartGateway
  <2>3. CASE MainStartPoller \/ MainInstall \/ MainSleep
    <3>1. /\ UNCHANGED <<gateway, pidFile>> /\ main \in Serving
          /\ main' \in {"install", "writePid", "loop"}
      BY <2>3 DEF MainStartPoller, MainInstall, MainSleep, gatewayVars
    <3>2. pidFile => main' = "loop"
      BY <2>3 DEF MainStartPoller, MainInstall, MainSleep
    <3> QED
      BY <2>1, <3>1, <3>2
  <2>4. CASE MainWritePid
    BY <2>1, <2>4 DEF MainWritePid, gatewayVars
  <2>5. CASE MainLoop
    BY <2>1, <2>5 DEF MainLoop, gatewayVars
  <2> QED
    BY <1>3, <2>2, <2>3, <2>4, <2>5
<1>4. CASE MainCron
  BY <1>4 DEF MainCron, FeederSubmit, vars, poolVars, gatewayVars
<1>5. CASE \/ MainSetFlag \/ MainClose \/ MainJoinGateway
           \/ MainFreeCache \/ MainExit
  BY <1>5 DEF MainSetFlag, MainClose, MainJoinGateway, MainFreeCache, MainExit,
              vars, poolVars, gatewayVars
<1>6. CASE Up /\ (GatewayStep \/ GatewayAccept)
  BY <1>6 DEF Up, GatewayStep, GatewayBind, GatewayTest, GatewayCallAccept,
              GatewayAcceptFails, GatewayAccept, vars, poolVars, mainVars
<1>7. ASSUME UNCHANGED <<main, owner, gateway, cacheFreed, pidFile>>,
             g_daemon_shutdown' = g_daemon_shutdown \/ g_daemon_shutdown' = TRUE
      PROVE  PlaceInv'
  BY <1>7
<1>8. CASE \/ Signalled \/ PollerPush \/ PoolThread \/ UNCHANGED allVars
           \/ \E c \in Clients : HandlerPush(c) \/ HandlerReply(c)
  BY <1>7, <1>8
  DEF Signalled, PollerPush, PoolThread, HandlerPush, HandlerReply, ClientSubmit,
      ClientReply, FeederSubmit, InCache, Scaler, ScalerTest, ScalerRead,
      ScalerGrow, Worker, WorkerTest, WorkerPopped, WorkerFinish, allVars, vars,
      poolVars, daemonVars, mainVars, gatewayVars
<1> QED
  BY <1>1, <1>2, <1>3, <1>4, <1>5, <1>6, <1>8 DEF DaemonNext, MainStep

LEMMA DaemonPlaces == DaemonSpec => [](PlaceInv /\ LifeInv)
<1>1. DaemonInit => PlaceInv /\ LifeInv /\ JobsInv
  BY LifeInit, JobsInit
  DEF DaemonInit, PoolInit, PlaceInv, Serving, GatewayEndsBeforePool
<1> QED
  BY <1>1, PlaceStep, DaemonTypeCorrect, DaemonKeepsPool, PTL DEF DaemonSpec

\* From the moment jobworker_pool_stop begins, no thread is in gateway_run:
\* whatever failed at the start and whenever the signal came.
THEOREM AcceptThreadEndsFirst == DaemonSpec => []GatewayEndsBeforePool
<1>1. PlaceInv => GatewayEndsBeforePool
  BY DEF PlaceInv
<1> QED
  BY <1>1, DaemonPlaces, PTL

\* While doctorclaw.pid exists, its process has its signal handlers installed,
\* its pool is running and its cache is allocated; a process that is gone has left
\* it only where it was told to stop and had no accept thread to join.
THEOREM PidFileIsTrue == DaemonSpec => []PidFileMeansServing
<1>1. PlaceInv /\ LifeInv => PidFileMeansServing
  BY DEF PlaceInv, LifeInv, PidFileMeansServing
<1> QED
  BY <1>1, DaemonPlaces, PTL
=============================================================================
