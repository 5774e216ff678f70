---------------------------- MODULE JobWorkerPool ----------------------------
(***************************************************************************)
(* The worker pool of src/src/jobcache/jobworker.c around the shared job   *)
(* cache: worker threads, the scaler thread, the owner that starts, stops  *)
(* and destroys the pool, and the two kinds of caller that feed it.  A     *)
(* client (a gateway handler) pushes a job whose response_ctx is on its    *)
(* own stack and sleeps until the callback has set done; a feeder (cron)   *)
(* pushes jobs that have no callback.  A job is named by who pushed it.    *)
(***************************************************************************)
EXTENDS JobCache

CONSTANTS Workers, Clients, Feeders,
          MinWorkers, MaxWorkers,   \* of jobworker_pool_create
          ScaleUpThreshold,         \* pool->scale_up_threshold
          CreateMayFail             \* whether pthread_create and malloc may fail

ASSUME PoolAssumption ==
    /\ Threads = Workers \cup Clients \cup Feeders
    /\ Workers \cap (Clients \cup Feeders) = {} /\ Clients \cap Feeders = {}
    /\ Jobs = Clients \cup Feeders /\ NoJob \notin Jobs
    /\ MinWorkers \in Nat \ {0} /\ MaxWorkers \in Nat
    /\ MinWorkers <= MaxWorkers /\ MaxWorkers <= Cardinality(Workers)
    /\ ScaleUpThreshold \in Nat
    /\ CreateMayFail \in BOOLEAN

VARIABLES running, num_workers,   \* struct jobworker_pool
          wstate,   \* wstate[w]: where worker thread w is in worker_thread_fn
          scaler,   \* where the scaler thread is in scaler_thread_fn
          depth,    \* the scaler's local copy of jobcache_depth
          owner,    \* where the owner is in start, stop, destroy
          serving,  \* serving[c]: client c is inside its request handler
          done      \* done[c]: sync_ctx.done of client c

poolVars == <<running, num_workers, wstate, scaler, depth, owner>>
clientVars == <<serving, done>>
vars == <<cacheVars, poolVars, clientVars>>

PoolInit == /\ Init
            /\ running = FALSE /\ num_workers = 0
            /\ wstate = [w \in Workers |-> "none"]
            /\ scaler = "none" /\ depth = 0 /\ owner = "created"
            /\ serving = [c \in Clients |-> FALSE]
            /\ done = [c \in Clients |-> FALSE]

Alive == {w \in Workers : wstate[w] \notin {"none", "exited"}}
-----------------------------------------------------------------------------
(***************************************************************************)
(* jobworker_pool_start: set running, create the minimum of workers (each  *)
(* runs at once), then the scaler.  A failing pthread_create ends the loop *)
(* early; if the scaler cannot be created, running is reset and start      *)
(* returns -1.  Without memory for worker_threads it returns -1 too, and   *)
(* running stays set.                                                      *)
(***************************************************************************)
StartBegin ==
    /\ owner = "created"
    /\ ~running
    /\ running' = TRUE
    /\ owner' \in {"starting"} \cup IF CreateMayFail THEN {"failed"} ELSE {}
    /\ UNCHANGED <<cacheVars, clientVars, num_workers, wstate, scaler, depth>>

CreateWorker == \E w \in Workers : /\ wstate[w] = "none"
                                   /\ wstate' = [wstate EXCEPT ![w] = "test"]
                                   /\ num_workers' = num_workers + 1

StartWorker ==
    /\ owner = "starting"
    /\ \/ /\ num_workers < MinWorkers
          /\ CreateWorker
          /\ UNCHANGED owner
       \/ /\ num_workers = MinWorkers \/ CreateMayFail
          /\ owner' = "startScaler"
          /\ UNCHANGED <<wstate, num_workers>>
    /\ UNCHANGED <<cacheVars, clientVars, running, scaler, depth>>

StartScaler ==
    /\ owner = "startScaler"
    /\ \/ /\ scaler' = "test"
          /\ owner' = "started"
          /\ UNCHANGED running
       \/ /\ CreateMayFail
          /\ running' = FALSE
          /\ owner' = "failed"
          /\ UNCHANGED scaler
    /\ UNCHANGED <<cacheVars, clientVars, num_workers, wstate, depth>>

(***************************************************************************)
(* jobworker_pool_stop: returns at once if the pool does not run; else     *)
(* resets running and joins the scaler and then every worker.  To join a   *)
(* scaler that was never created is undefined: it returns, or the process  *)
(* crashes.                                                                *)
(***************************************************************************)
StopBegin ==
    /\ owner \in {"started", "failed"}
    /\ IF running THEN running' = FALSE /\ owner' = "joinScaler"
                  ELSE owner' = "stopped" /\ UNCHANGED running
    /\ UNCHANGED <<cacheVars, clientVars, num_workers, wstate, scaler, depth>>

\* Mistake: the scaler is not joined.
StopForgetsScaler ==
    /\ owner = "joinScaler"
    /\ owner' = "joinWorkers"
    /\ UNCHANGED <<cacheVars, clientVars, running, num_workers, wstate, scaler,
                   depth>>

StopJoinScaler ==
    /\ owner = "joinScaler"
    /\ \/ scaler \in {"exited", "none"} /\ owner' = "joinWorkers"
       \/ scaler = "none" /\ owner' = "crashed"
    /\ UNCHANGED <<cacheVars, clientVars, running, num_workers, wstate, scaler,
                   depth>>

StopJoinWorkers ==
    /\ owner = "joinWorkers"
    /\ Alive = {}
    /\ num_workers' = 0
    /\ owner' = "stopped"
    /\ UNCHANGED <<cacheVars, clientVars, running, wstate, scaler, depth>>

\* jobworker_pool_destroy after the stop it begins with: the pool is freed.
Destroy ==
    /\ owner = "stopped"
    /\ owner' = "destroyed"
    /\ UNCHANGED <<cacheVars, clientVars, running, num_workers, wstate, scaler,
                   depth>>
-----------------------------------------------------------------------------
(* worker_thread_fn *)
WorkerTest(w) ==
    /\ wstate[w] = "test"
    /\ \/ /\ running
          /\ PopCall(w, "timed")
          /\ wstate' = [wstate EXCEPT ![w] = "popping"]
       \/ /\ ~running
          /\ wstate' = [wstate EXCEPT ![w] = "exited"]
          /\ UNCHANGED cacheVars
    /\ UNCHANGED <<clientVars, running, num_workers, scaler, depth, owner>>

\* Mistake: running is looked at whatever the pop returned.
WorkerDropsJob(w) ==
    /\ wstate[w] = "popping"
    /\ op[w] = "idle"
    /\ wstate' = [wstate EXCEPT ![w] = IF ~running THEN "exited"
                                       ELSE IF job[w] /= NoJob THEN "dispatch"
                                       ELSE "test"]
    /\ UNCHANGED <<cacheVars, clientVars, running, num_workers, scaler, depth,
                   owner>>

\* Mistake: a pop that times out ends the worker.
WorkerGivesUp(w) ==
    /\ wstate[w] = "popping"
    /\ op[w] = "idle"
    /\ wstate' = [wstate EXCEPT ![w] = IF job[w] /= NoJob THEN "dispatch"
                                       ELSE "exited"]
    /\ UNCHANGED <<cacheVars, clientVars, running, num_workers, scaler, depth,
                   owner>>

\* jobcache_pop has returned: on -1 look at running under the pool's mutex,
\* on 0 resolve the configuration and run the job.
WorkerPopped(w) ==
    /\ wstate[w] = "popping"
    /\ op[w] = "idle"
    /\ wstate' = [wstate EXCEPT ![w] = IF job[w] /= NoJob THEN "dispatch"
                                       ELSE IF running THEN "test"
                                       ELSE "exited"]
    /\ UNCHANGED <<cacheVars, clientVars, running, num_workers, scaler, depth,
                   owner>>

\* The job is done: call its response_cb, if it has one.
WorkerFinish(w) ==
    /\ wstate[w] = "dispatch"
    /\ wstate' = [wstate EXCEPT ![w] = "test"]
    /\ done' = [c \in Clients |-> done[c] \/ c = job[w]]
    /\ UNCHANGED <<cacheVars, serving, running, num_workers, scaler, depth,
                   owner>>

(* scaler_thread_fn: running is tested before and after the sleep, and the *)
(* depth is read before the pool's mutex is taken.                         *)
ScalerTest ==
    /\ scaler \in {"test", "slept"}
    /\ scaler' = IF ~running THEN "exited"
                 ELSE IF scaler = "test" THEN "slept" ELSE "read"
    /\ UNCHANGED <<cacheVars, clientVars, running, num_workers, wstate, depth,
                   owner>>

ScalerRead ==
    /\ scaler = "read"
    /\ scaler' = "grow"
    /\ depth' = count
    /\ UNCHANGED <<cacheVars, clientVars, running, num_workers, wstate, owner>>

ScalerGrow ==
    /\ scaler = "grow"
    /\ scaler' = "test"
    /\ depth' = 0
    /\ \/ /\ depth >= ScaleUpThreshold /\ num_workers < MaxWorkers
          /\ CreateWorker
       \/ /\ depth < ScaleUpThreshold \/ num_workers >= MaxWorkers \/ CreateMayFail
          /\ UNCHANGED <<wstate, num_workers>>
    /\ UNCHANGED <<cacheVars, clientVars, running, owner>>
-----------------------------------------------------------------------------
(* The callers: handle_request of gateway.c and cron_run_pending of cron.c. *)
ClientSubmit(c) ==
    /\ ~serving[c]
    /\ PushCall(c, c)
    /\ serving' = [serving EXCEPT ![c] = TRUE]
    /\ done' = [done EXCEPT ![c] = FALSE]
    /\ UNCHANGED poolVars

\* Mistake: the handler waits once, without testing done again.
ClientReplyEarly(c) ==
    /\ serving[c]
    /\ op[c] = "idle"
    /\ serving' = [serving EXCEPT ![c] = FALSE]
    /\ UNCHANGED <<cacheVars, poolVars, done>>

\* The push has returned and done is set: answer and leave the handler, which
\* ends the life of the sync context.
ClientReply(c) ==
    /\ serving[c]
    /\ op[c] = "idle"
    /\ done[c]
    /\ serving' = [serving EXCEPT ![c] = FALSE]
    /\ UNCHANGED <<cacheVars, poolVars, done>>

FeederSubmit(f) ==
    /\ PushCall(f, f)
    /\ UNCHANGED <<poolVars, clientVars>>

\* A step of any thread inside the cache.
InCache(t) == CacheStep(t) /\ UNCHANGED <<poolVars, clientVars>>

Owner == \/ StartBegin \/ StartWorker \/ StartScaler
         \/ StopBegin \/ StopJoinScaler \/ StopJoinWorkers \/ Destroy
Worker(w) == WorkerTest(w) \/ WorkerPopped(w) \/ WorkerFinish(w)
Scaler == ScalerTest \/ ScalerRead \/ ScalerGrow

\* The gateway and cron run from the pool's start on; cron is disconnected
\* (cron_set_jobcache(NULL)) before the stop, a handler may still push.
PoolNext == \/ Owner
            \/ Scaler
            \/ \E w \in Workers : Worker(w)
            \/ \E c \in Clients : \/ /\ owner \in {"started", "joinScaler",
                                                    "joinWorkers", "stopped"}
                                     /\ ClientSubmit(c)
                                  \/ ClientReply(c)
            \/ \E f \in Feeders : owner = "started" /\ FeederSubmit(f)
            \/ \E t \in Threads : InCache(t)

PoolSpec == PoolInit /\ [][PoolNext]_vars

-----------------------------------------------------------------------------
\* The pool's fields, its threads and its callers are where they can be.
PoolTypeOK ==
    /\ TypeOK
    /\ running \in BOOLEAN /\ num_workers \in 0..MaxWorkers
    /\ wstate \in [Workers -> {"none", "test", "popping", "dispatch", "exited"}]
    /\ scaler \in {"none", "test", "slept", "read", "grow", "exited"}
    /\ depth \in 0..Capacity
    /\ owner \in {"created", "starting", "startScaler", "started", "failed",
                  "joinScaler", "joinWorkers", "stopped", "destroyed", "crashed"}
    /\ serving \in [Clients -> BOOLEAN] /\ done \in [Clients -> BOOLEAN]

Queued(j) == \E i \in 1..count : Contents[i] = j
InHand(j) == {w \in Workers : wstate[w] = "dispatch" /\ job[w] = j}
              \cup {w \in Workers : wstate[w] = "popping" /\ op[w] = "idle"
                                    /\ job[w] = j}

\* The response_ctx of a job lives on the stack of the handler that pushed it
\* (gateway.c): as long as the job is queued or in a worker's hands, its
\* client is still in the handler and its callback has not run.
ContextOutlivesJob ==
    \A c \in Clients : Queued(c) \/ InHand(c) /= {} => serving[c] /\ ~done[c]

\* No job is run by two workers and none is run while it is still queued.
RunOnce ==
    \A c \in Clients : /\ Cardinality(InHand(c)) <= 1
                       /\ Queued(c) => InHand(c) = {}

\* A client that sleeps on its sync context has a job that is queued or in a
\* worker's hands: between the push, the pop and the callback no request is
\* forgotten.
NoForgottenRequest ==
    \A c \in Clients : serving[c] /\ op[c] = "idle" /\ ~done[c] =>
        Queued(c) \/ InHand(c) /= {}

\* Once jobworker_pool_destroy has freed the pool, no thread that was given a
\* pointer to it is left ("Stop all workers and scaler.", jobworker.h), be it a
\* worker that the scaler added while the pool was being stopped.  Only a
\* start that failed for want of the scaler leaves its workers behind: stop
\* sees that running is reset and returns.
FreedIsUnused ==
    owner = "destroyed" /\ scaler /= "none" => Alive = {} /\ scaler = "exited"

\* An accepted job is answered in the end, unless the pool is stopped first or
\* every worker is in a job that never returns (jobworker.c:129).
AcceptedIsAnswered ==
    \A c \in Clients :
        Queued(c) ~> \/ done[c] \/ ~running
                     \/ [](Alive /= {} /\ \A w \in Alive : wstate[w] = "dispatch")

=============================================================================
