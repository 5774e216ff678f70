------------------------ MODULE JobWorkerPoolProofs ------------------------
(***************************************************************************)
(* Proofs about JobWorkerPool for every number of workers, clients and     *)
(* feeders, every capacity and every scaling policy.  The steps are proved *)
(* for PoolMove, which leaves out the guards of PoolNext on when a caller  *)
(* may push, so that the daemon's composition can use them too.            *)
(***************************************************************************)
EXTENDS JobWorkerPool, JobCacheProofs

PoolMove == \/ Owner
            \/ Scaler
            \/ \E w \in Workers : Worker(w)
            \/ \E c \in Clients : ClientSubmit(c) \/ ClientReply(c)
            \/ \E f \in Feeders : FeederSubmit(f)
            \/ \E t \in Threads : InCache(t)

LEMMA NextIsMove == [PoolNext]_vars => [PoolMove]_vars
BY DEF PoolNext, PoolMove

\* What the pool's threads do to the cache are calls of the cache.
LEMMA MoveIsCacheStep == [PoolMove]_vars => [Next]_cacheVars
<1> USE PoolAssumption
<1>1. Owner \/ Scaler \/ UNCHANGED vars => UNCHANGED cacheVars
  BY DEF Owner, Scaler, StartBegin, StartWorker, StartScaler, StopBegin,
         StopJoinScaler, StopJoinWorkers, Destroy, ScalerTest, ScalerRead,
         ScalerGrow, vars
<1>2. ASSUME NEW w \in Workers, Worker(w) PROVE [Next]_cacheVars
  BY <1>2 DEF Worker, WorkerTest, WorkerPopped, WorkerFinish, Next, Modes
<1>3. ASSUME NEW c \in Clients, ClientSubmit(c) \/ ClientReply(c)
      PROVE  [Next]_cacheVars
  BY <1>3 DEF ClientSubmit, ClientReply, Next
<1>4. ASSUME NEW f \in Feeders, FeederSubmit(f) PROVE [Next]_cacheVars
  BY <1>4 DEF FeederSubmit, Next
<1>5. ASSUME NEW t \in Threads, InCache(t) PROVE [Next]_cacheVars
  BY <1>5 DEF InCache, Next
<1> QED
  BY <1>1, <1>2, <1>3, <1>4, <1>5 DEF PoolMove

(***************************************************************************)
(* Type correctness.                                                       *)
(***************************************************************************)
LEMMA PoolTypeStep == PoolTypeOK /\ [PoolMove]_vars => PoolTypeOK'
<1> SUFFICES ASSUME PoolTypeOK, [PoolMove]_vars PROVE PoolTypeOK'
  OBVIOUS
<1> USE PoolAssumption, CapacityAssumption
<1>0. TypeOK'
  BY MoveIsCacheStep, TypeStep DEF PoolTypeOK
<1>1. CASE Owner
  <2>1. CASE StartWorker
    BY <1>0, <2>1, SMT DEF PoolTypeOK, StartWorker, CreateWorker, clientVars
  <2>2. CASE StartBegin \/ StartScaler \/ StopBegin
    BY <1>0, <2>2 DEF PoolTypeOK, StartBegin, StartScaler, StopBegin, clientVars
  <2>3. CASE StopJoinScaler \/ StopJoinWorkers \/ Destroy
    BY <1>0, <2>3
    DEF PoolTypeOK, StopJoinScaler, StopJoinWorkers, Destroy, clientVars
  <2> QED
    BY <1>1, <2>1, <2>2, <2>3 DEF Owner
<1>2. CASE Scaler
  <2>1. CASE ScalerTest
    BY <1>0, <2>1 DEF PoolTypeOK, ScalerTest, clientVars
  <2>2. CASE ScalerRead
    BY <1>0, <2>2 DEF PoolTypeOK, ScalerRead, clientVars, TypeOK
  <2>3. CASE ScalerGrow
    BY <1>0, <2>3, SMT DEF PoolTypeOK, ScalerGrow, CreateWorker, clientVars
  <2> QED
    BY <1>2, <2>1, <2>2, <2>3 DEF Scaler
<1>3. ASSUME NEW w \in Workers, Worker(w) PROVE PoolTypeOK'
  BY <1>0, <1>3
  DEF PoolTypeOK, Worker, WorkerTest, WorkerPopped, WorkerFinish, clientVars
<1>4. ASSUME NEW c \in Clients, ClientSubmit(c) \/ ClientReply(c)
      PROVE  PoolTypeOK'
  BY <1>0, <1>4 DEF PoolTypeOK, ClientSubmit, ClientReply, poolVars
<1>5. ASSUME \/ \E f \in Feeders : FeederSubmit(f)
             \/ \E t \in Threads : InCache(t)
             \/ UNCHANGED vars
      PROVE  PoolTypeOK'
  BY <1>0, <1>5
  DEF PoolTypeOK, FeederSubmit, InCache, vars, poolVars, clientVars
<1> QED
  BY <1>1, <1>2, <1>3, <1>4, <1>5 DEF PoolMove

LEMMA PoolTypeInit == PoolInit => PoolTypeOK
<1> SUFFICES ASSUME PoolInit PROVE PoolTypeOK
  OBVIOUS
<1>1. serving \in [Clients -> BOOLEAN] /\ done \in [Clients -> BOOLEAN]
  BY Zenon DEF PoolInit
<1>2. /\ TypeOK /\ running \in BOOLEAN
      /\ wstate \in [Workers -> {"none", "test", "popping", "dispatch", "exited"}]
  BY TypeInit, Zenon DEF PoolInit
<1>3. num_workers \in 0..MaxWorkers /\ depth \in 0..Capacity
  BY PoolAssumption, CapacityAssumption, SMT DEF PoolInit
<1> QED
  BY <1>1, <1>2, <1>3 DEF PoolInit, PoolTypeOK

(***************************************************************************)
(* The life of the pool: jobworker_pool_stop finds running set whenever    *)
(* there is a scaler, and joins it before it counts the workers to join.   *)
(***************************************************************************)
LifeInv ==
    /\ owner \in {"created", "starting", "startScaler", "failed"} =>
           scaler = "none"
    /\ owner \in {"starting", "startScaler", "started"} => running
    /\ owner \in {"joinScaler", "joinWorkers", "stopped", "destroyed"} =>
           ~running
    /\ owner \in {"joinWorkers", "stopped", "destroyed"} =>
           scaler \in {"none", "exited"}
    /\ owner \in {"stopped", "destroyed"} /\ scaler /= "none" => Alive = {}

LEMMA LifeStep == PoolTypeOK /\ LifeInv /\ [PoolMove]_vars => LifeInv'
<1> SUFFICES ASSUME PoolTypeOK, LifeInv, [PoolMove]_vars PROVE LifeInv'
  OBVIOUS
<1>1. CASE Owner
  <2>1. CASE StartBegin
    BY <2>1 DEF LifeInv, StartBegin, PoolTypeOK
  <2>2. CASE StartWorker
    BY <2>2 DEF LifeInv, StartWorker, PoolTypeOK
  <2>3. CASE StartScaler
    BY <2>3 DEF LifeInv, StartScaler, PoolTypeOK
  <2>4. CASE StopBegin
    BY <2>4 DEF LifeInv, StopBegin, PoolTypeOK
  <2>5. CASE StopJoinScaler
    BY <2>5 DEF LifeInv, StopJoinScaler, PoolTypeOK
  <2>6. CASE StopJoinWorkers
    BY <2>6 DEF LifeInv, StopJoinWorkers, Alive
  <2>7. CASE Destroy
    BY <2>7 DEF LifeInv, Destroy, Alive
  <2> QED
    BY <1>1, <2>1, <2>2, <2>3, <2>4, <2>5, <2>6, <2>7 DEF Owner
<1>2. CASE Scaler
  BY <1>2 DEF LifeInv, Scaler, ScalerTest, ScalerRead, ScalerGrow, PoolTypeOK,
              Alive
<1>3. ASSUME NEW w \in Workers, Worker(w) PROVE LifeInv'
  <2>1. Alive = {} => FALSE
    BY <1>3 DEF Alive, Worker, WorkerTest, WorkerPopped, WorkerFinish
  <2> QED
    BY <1>3, <2>1
    DEF LifeInv, Worker, WorkerTest, WorkerPopped, WorkerFinish
<1>4. CASE UNCHANGED poolVars
  BY <1>4 DEF LifeInv, poolVars, Alive
<1> QED
  BY <1>1, <1>2, <1>3, <1>4
  DEF PoolMove, vars, ClientSubmit, ClientReply, FeederSubmit, InCache

LEMMA LifeInit == PoolInit => LifeInv
BY DEF PoolInit, LifeInv

\* jobworker_pool_destroy frees a pool that nobody uses any more: the scaler
\* has ended and so has every worker it added, up to the last moment, while
\* the pool was being stopped.
THEOREM DestroyIsSafe == PoolSpec => []FreedIsUnused
<1>1. PoolTypeOK /\ LifeInv /\ [PoolNext]_vars => PoolTypeOK' /\ LifeInv'
  BY PoolTypeStep, LifeStep, NextIsMove
<1>2. LifeInv => FreedIsUnused
  BY DEF LifeInv, FreedIsUnused
<1> QED
  BY <1>1, <1>2, PoolTypeInit, LifeInit, PTL DEF PoolSpec

(***************************************************************************)
(* The life of a job: at any time it is being pushed, or queued in one     *)
(* slot, or held by one worker, or answered.                               *)
(***************************************************************************)
\* Clients and feeders only push, each the job named after it.
CallersPush ==
    \A t \in Clients \cup Feeders : /\ op[t] \in {"idle", "push", "pushWait"}
                                    /\ op[t] /= "idle" => job[t] = t

\* Workers only pop, and are in worker_thread_fn's jobcache_pop when they do.
WorkersPop ==
    \A w \in Workers : /\ op[w] \in {"idle", "pop", "popWait", "expired"}
                       /\ op[w] /= "idle" => wstate[w] = "popping"

QueuedOnce(j) ==
    \A i, k \in 1..count : Contents[i] = j /\ Contents[k] = j => i = k

Holds(w, j) == /\ wstate[w] \in {"popping", "dispatch"}
               /\ op[w] = "idle"
               /\ job[w] = j
Held(j) == \E w \in Workers : Holds(w, j)

JobInv(c) ==
    /\ QueuedOnce(c)
    /\ \A w, v \in Workers : Holds(w, c) /\ Holds(v, c) => w = v
    /\ ~(Queued(c) /\ Held(c))
    /\ Queued(c) \/ Held(c) <=> serving[c] /\ ~done[c] /\ op[c] = "idle"
    /\ op[c] /= "idle" => serving[c] /\ ~done[c]

JobsInv == /\ PoolTypeOK /\ RingInv
           /\ CallersPush /\ WorkersPop
           /\ \A c \in Clients : JobInv(c)

LEMMA SameRing == UNCHANGED ring => Contents' = Contents
BY DEF ring, Contents, Wrap

\* What a push and a pop do to the set of queued jobs.
LEMMA StoreQueues ==
    ASSUME TypeOK, TypeOK', RingInv, NEW t \in Threads, PushStore(t), NEW j
    PROVE  /\ Queued(j)' <=> Queued(j) \/ j = job[t]
           /\ QueuedOnce(j) /\ ~(Queued(j) /\ j = job[t]) => QueuedOnce(j)'
<1> USE CapacityAssumption
<1>1. Contents' = Append(Contents, job[t])
  BY StoreAppends DEF PushStore
<1>2. /\ count' = count + 1 /\ count \in Nat
      /\ \A i \in 1..count : Contents'[i] = Contents[i]
      /\ Contents'[count + 1] = job[t]
  <2>1. job[t] \in Jobs \cup {NoJob}
    BY DEF TypeOK
  <2> QED
    BY <1>1, <2>1, ContentsType, AppendProperties DEF PushStore, TypeOK
<1>3. Queued(j)' <=> \E i \in 1..(count + 1) : Contents'[i] = j
  BY <1>2 DEF Queued
<1>4. QueuedOnce(j)' <=>
        \A i, k \in 1..(count + 1) : Contents'[i] = j /\ Contents'[k] = j => i = k
  BY <1>2 DEF QueuedOnce
<1>5. \A i \in 1..(count + 1) : i \in 1..count \/ i = count + 1
  BY <1>2, SMT
<1>6. \A i \in 1..count : i \in 1..(count + 1)
  BY <1>2, SMT
<1>7. count + 1 \in 1..(count + 1)
  BY <1>2, SMT
<1>8. Queued(j)' <=> Queued(j) \/ j = job[t]
  BY <1>2, <1>3, <1>5, <1>6, <1>7 DEF Queued
<1>9. ASSUME QueuedOnce(j), ~(Queued(j) /\ j = job[t]) PROVE QueuedOnce(j)'
  BY <1>2, <1>4, <1>5, <1>9 DEF Queued, QueuedOnce
<1> QED
  BY <1>8, <1>9

LEMMA TakeDequeues ==
    ASSUME TypeOK, TypeOK', NEW t \in Threads, PopTake(t), NEW j
    PROVE  /\ j /= slots[head] => (Queued(j)' <=> Queued(j))
           /\ j = slots[head] => Queued(j) /\ (QueuedOnce(j) => ~Queued(j)')
           /\ QueuedOnce(j) => QueuedOnce(j)'
<1> USE CapacityAssumption
<1>1. /\ Contents /= <<>> /\ slots[head] = Head(Contents)
      /\ Contents' = Tail(Contents)
  BY TakeIsTail DEF PopTake
<1>2. /\ count' = count - 1 /\ count \in Nat /\ count > 0
      /\ Contents[1] = slots[head]
      /\ \A i \in 1..(count - 1) : Contents'[i] = Contents[i + 1]
  BY <1>1, ContentsType, HeadTailProperties DEF PopTake, TypeOK
<1>3. Queued(j)' <=> \E i \in 1..(count - 1) : Contents[i + 1] = j
  BY <1>2 DEF Queued
<1>4. QueuedOnce(j)' <=>
        \A i, k \in 1..(count - 1) :
            Contents[i + 1] = j /\ Contents[k + 1] = j => i = k
  BY <1>2 DEF QueuedOnce
<1>5. \A i \in 1..(count - 1) : i + 1 \in 1..count /\ i + 1 /= 1
  BY <1>2, SMT
<1>6. \A i \in 1..count : i = 1 \/ (i - 1 \in 1..(count - 1) /\ (i - 1) + 1 = i)
  BY <1>2, SMT
<1>7. 1 \in 1..count
  BY <1>2, SMT
<1>8. ASSUME j /= slots[head] PROVE Queued(j)' <=> Queued(j)
  BY <1>2, <1>3, <1>5, <1>6, <1>8 DEF Queued
<1>9. ASSUME j = slots[head]
      PROVE  Queued(j) /\ (QueuedOnce(j) => ~Queued(j)')
  BY <1>2, <1>3, <1>5, <1>7, <1>9 DEF Queued, QueuedOnce
<1>10. ASSUME QueuedOnce(j) PROVE QueuedOnce(j)'
  <2> SUFFICES ASSUME NEW i \in 1..(count - 1), NEW k \in 1..(count - 1),
                      Contents[i + 1] = j, Contents[k + 1] = j
               PROVE  i = k
    BY <1>4
  <2>1. i + 1 = k + 1
    BY <1>5, <1>10 DEF QueuedOnce
  <2> QED
    BY <1>2, <2>1, SMT
<1> QED
  BY <1>8, <1>9, <1>10

LEMMA CallsStep ==
    PoolTypeOK /\ CallersPush /\ WorkersPop /\ [PoolMove]_vars =>
        CallersPush' /\ WorkersPop'
<1> SUFFICES ASSUME PoolTypeOK, CallersPush, WorkersPop, [PoolMove]_vars
             PROVE  CallersPush' /\ WorkersPop'
  OBVIOUS
<1> USE PoolAssumption DEF PoolTypeOK, TypeOK, CallersPush, WorkersPop
<1>1. ASSUME UNCHANGED <<op, job>>,
             \A w \in Workers : wstate[w] = "popping" => wstate'[w] = "popping"
      PROVE  CallersPush' /\ WorkersPop'
  BY <1>1
<1>2. CASE Owner \/ Scaler
  <2>1. UNCHANGED <<op, job>>
    BY <1>2 DEF Owner, Scaler, StartBegin, StartWorker, StartScaler, StopBegin,
         StopJoinScaler, StopJoinWorkers, Destroy, ScalerTest, ScalerRead,
         ScalerGrow, cacheVars
  <2>2. wstate' = wstate \/ CreateWorker
    BY <1>2 DEF Owner, Scaler, StartBegin, StartWorker, StartScaler, StopBegin,
         StopJoinScaler, StopJoinWorkers, Destroy, ScalerTest, ScalerRead,
         ScalerGrow
  <2>3. \A w \in Workers : wstate[w] = "popping" => wstate'[w] = "popping"
    BY <2>2 DEF CreateWorker
  <2> QED
    BY <1>1, <2>1, <2>3
<1>3. ASSUME NEW w \in Workers, WorkerTest(w) PROVE CallersPush' /\ WorkersPop'
  BY <1>3 DEF WorkerTest, PopCall, cacheVars
<1>4. ASSUME NEW w \in Workers, WorkerPopped(w) \/ WorkerFinish(w)
      PROVE CallersPush' /\ WorkersPop'
  BY <1>4 DEF WorkerPopped, WorkerFinish, cacheVars
<1>5. ASSUME NEW c \in Clients, ClientSubmit(c) PROVE CallersPush' /\ WorkersPop'
  BY <1>5 DEF ClientSubmit, PushCall, poolVars
<1>6. ASSUME NEW f \in Feeders, FeederSubmit(f) PROVE CallersPush' /\ WorkersPop'
  BY <1>6 DEF FeederSubmit, PushCall, poolVars
<1>7. ASSUME NEW t \in Threads, InCache(t) PROVE CallersPush' /\ WorkersPop'
  <2>0. UNCHANGED wstate
    BY <1>7 DEF InCache, poolVars
  <2>1. CASE \/ PushFull(t) \/ PopEmpty(t) \/ PopNothing(t) \/ PopExpire(t)
             \/ SpuriousWakeup(t)
    BY <2>0, <2>1 DEF PushFull, PopEmpty, PopNothing, PopExpire, SpuriousWakeup
  <2>2. CASE PushStore(t)
    BY <2>0, <2>2 DEF PushStore, SignalAndReturn, At
  <2>3. CASE PopTake(t)
    BY <2>0, <2>3 DEF PopTake, SignalAndReturn, At
  <2> QED
    BY <1>7, <2>1, <2>2, <2>3 DEF InCache, CacheStep
<1>8. CASE UNCHANGED vars \/ \E c \in Clients : ClientReply(c)
  BY <1>8 DEF vars, cacheVars, poolVars, ClientReply
<1> QED
  BY <1>2, <1>3, <1>4, <1>5, <1>6, <1>7, <1>8 DEF PoolMove, Worker

LEMMA JobStep ==
    JobsInv /\ [PoolMove]_vars => \A c \in Clients : JobInv(c)'
<1> SUFFICES ASSUME JobsInv, [PoolMove]_vars, NEW c \in Clients
             PROVE  JobInv(c)'
  OBVIOUS
<1> USE PoolAssumption
<1>0. /\ PoolTypeOK /\ TypeOK /\ RingInv /\ CallersPush /\ WorkersPop
      /\ JobInv(c) /\ TypeOK'
  BY MoveIsCacheStep, TypeStep DEF JobsInv, PoolTypeOK
\* The steps that leave the ring alone and change nothing about c.
<1>a. ASSUME UNCHANGED ring, \A w \in Workers : Holds(w, c)' <=> Holds(w, c),
             UNCHANGED <<serving[c], done[c]>>,
             op'[c] = "idle" <=> op[c] = "idle"
      PROVE  JobInv(c)'
  <2>1. (Queued(c)' <=> Queued(c)) /\ (QueuedOnce(c)' <=> QueuedOnce(c))
    BY <1>a, SameRing DEF Queued, QueuedOnce, ring
  <2>2. Held(c)' <=> Held(c)
    BY <1>a DEF Held
  <2> QED
    BY <1>0, <1>a, <2>1, <2>2 DEF JobInv
<1>1. CASE Owner \/ Scaler
  <2>1. UNCHANGED <<op, job, ring, serving, done>>
    BY <1>1 DEF Owner, Scaler, StartBegin, StartWorker, StartScaler, StopBegin,
         StopJoinScaler, StopJoinWorkers, Destroy, ScalerTest, ScalerRead,
         ScalerGrow, cacheVars, clientVars, ring
  <2>2. wstate' = wstate \/ CreateWorker
    BY <1>1 DEF Owner, Scaler, StartBegin, StartWorker, StartScaler, StopBegin,
         StopJoinScaler, StopJoinWorkers, Destroy, ScalerTest, ScalerRead,
         ScalerGrow
  <2>3. \A w \in Workers : Holds(w, c)' <=> Holds(w, c)
    BY <1>0, <2>1, <2>2 DEF CreateWorker, Holds, PoolTypeOK
  <2> QED
    BY <1>a, <2>1, <2>3
<1>2. ASSUME NEW w \in Workers, WorkerTest(w) PROVE JobInv(c)'
  <2>1. \A v \in Workers : Holds(v, c)' <=> Holds(v, c)
    BY <1>0, <1>2
    DEF WorkerTest, PopCall, Holds, PoolTypeOK, TypeOK, cacheVars, WorkersPop
  <2>2. UNCHANGED <<ring, serving[c], done[c], op[c]>>
    BY <1>0, <1>2 DEF WorkerTest, PopCall, cacheVars, ring, clientVars, TypeOK
  <2> QED
    BY <1>a, <2>1, <2>2
<1>3. ASSUME NEW w \in Workers, WorkerPopped(w) PROVE JobInv(c)'
  <2>1. \A v \in Workers : Holds(v, c)' <=> Holds(v, c)
    BY <1>0, <1>3 DEF WorkerPopped, Holds, PoolTypeOK, cacheVars
  <2>2. UNCHANGED <<ring, serving[c], done[c], op[c]>>
    BY <1>3 DEF WorkerPopped, cacheVars, ring, clientVars
  <2> QED
    BY <1>a, <2>1, <2>2
<1>4. ASSUME NEW w \in Workers, WorkerFinish(w) PROVE JobInv(c)'
  <2>1. UNCHANGED <<ring, op, job, serving>> /\ op[w] = "idle"
    BY <1>0, <1>4 DEF WorkerFinish, cacheVars, ring, WorkersPop, PoolTypeOK, TypeOK
  <2>2. CASE job[w] /= c
    <3>1. \A v \in Workers : Holds(v, c)' <=> Holds(v, c)
      BY <1>0, <1>4, <2>1, <2>2 DEF WorkerFinish, Holds, PoolTypeOK
    <3>2. done'[c] = done[c]
      BY <1>0, <1>4, <2>2 DEF WorkerFinish, PoolTypeOK
    <3> QED
      BY <1>a, <2>1, <3>1, <3>2
  <2>3. CASE job[w] = c
    <3>1. Holds(w, c) /\ ~Queued(c)
      BY <1>0, <1>4, <2>1, <2>3 DEF WorkerFinish, Holds, JobInv, Held
    <3>2. \A v \in Workers : ~Holds(v, c)'
      BY <1>0, <1>4, <2>1, <3>1 DEF WorkerFinish, Holds, PoolTypeOK, JobInv
    <3>3. done'[c]
      BY <1>4, <2>3 DEF WorkerFinish
    <3>4. ~Queued(c)' /\ QueuedOnce(c)'
      BY <1>0, <2>1, <3>1, SameRing DEF JobInv, Queued, QueuedOnce, ring
    <3>5. op'[c] = "idle"
      BY <1>0, <2>1, <3>1 DEF JobInv, Held
    <3> QED
      BY <3>2, <3>3, <3>4, <3>5 DEF JobInv, Held
  <2> QED
    BY <2>2, <2>3
<1>5. ASSUME NEW d \in Clients, ClientSubmit(d) PROVE JobInv(c)'
  <2>1. UNCHANGED <<ring, wstate>>
    BY <1>5 DEF ClientSubmit, PushCall, poolVars, ring
  <2>2. \A v \in Workers : Holds(v, c)' <=> Holds(v, c)
    BY <1>0, <1>5, <2>1 DEF ClientSubmit, PushCall, Holds, TypeOK
  <2>3. CASE d /= c
    <3>1. UNCHANGED <<serving[c], done[c], op[c]>>
      BY <1>0, <1>5, <2>3 DEF ClientSubmit, PushCall, TypeOK, PoolTypeOK
    <3> QED
      BY <1>a, <2>1, <2>2, <3>1
  <2>4. CASE d = c
    <3>1. ~Queued(c) /\ ~Held(c) /\ QueuedOnce(c)
      BY <1>0, <1>5, <2>4 DEF ClientSubmit, JobInv
    <3>2. ~Queued(c)' /\ ~Held(c)' /\ QueuedOnce(c)'
      BY <2>1, <2>2, <3>1, SameRing DEF Queued, QueuedOnce, Held, ring
    <3>3. serving'[c] /\ ~done'[c] /\ op'[c] /= "idle"
      BY <1>0, <1>5, <2>4 DEF ClientSubmit, PushCall, TypeOK, PoolTypeOK
    <3> QED
      BY <3>2, <3>3 DEF JobInv, Held
  <2> QED
    BY <2>3, <2>4
<1>6. ASSUME NEW d \in Clients, ClientReply(d) PROVE JobInv(c)'
  <2>1. UNCHANGED <<ring, wstate, op, job, done>>
    BY <1>6 DEF ClientReply, cacheVars, poolVars, ring
  <2>2. \A v \in Workers : Holds(v, c)' <=> Holds(v, c)
    BY <2>1 DEF Holds
  <2>3. CASE d /= c
    <3>1. serving'[c] = serving[c]
      BY <1>0, <1>6, <2>3 DEF ClientReply, PoolTypeOK
    <3> QED
      BY <1>a, <2>1, <2>2, <3>1
  <2>4. CASE d = c
    <3>1. ~Queued(c) /\ ~Held(c) /\ QueuedOnce(c) /\ op[c] = "idle" /\ done[c]
      BY <1>0, <1>6, <2>4 DEF ClientReply, JobInv
    <3>2. ~Queued(c)' /\ ~Held(c)' /\ QueuedOnce(c)'
      BY <2>1, <2>2, <3>1, SameRing DEF Queued, QueuedOnce, Held, ring
    <3> QED
      BY <2>1, <3>1, <3>2 DEF JobInv, Held
  <2> QED
    BY <2>3, <2>4
<1>7. ASSUME NEW f \in Feeders, FeederSubmit(f) PROVE JobInv(c)'
  <2>1. UNCHANGED <<ring, wstate, serving, done>> /\ op'[c] = op[c]
    BY <1>0, <1>7
    DEF FeederSubmit, PushCall, poolVars, clientVars, ring, TypeOK
  <2>2. \A v \in Workers : Holds(v, c)' <=> Holds(v, c)
    BY <1>0, <1>7, <2>1 DEF FeederSubmit, PushCall, Holds, TypeOK
  <2> QED
    BY <1>a, <2>1, <2>2
<1>8. ASSUME NEW t \in Threads, InCache(t) PROVE JobInv(c)'
  <2>0. UNCHANGED <<wstate, serving, done>> /\ CacheStep(t)
    BY <1>8 DEF InCache, poolVars, clientVars
  <2>1. CASE PushFull(t) \/ PopEmpty(t) \/ PopExpire(t) \/ SpuriousWakeup(t)
    <3>1. UNCHANGED ring /\ (op'[c] = "idle" <=> op[c] = "idle")
      BY <1>0, <2>1
      DEF PushFull, PopEmpty, PopExpire, SpuriousWakeup, ring, TypeOK
    <3>2. \A v \in Workers : Holds(v, c)' <=> Holds(v, c)
      BY <1>0, <2>0, <2>1
      DEF PushFull, PopEmpty, PopExpire, SpuriousWakeup, Holds, TypeOK
    <3> QED
      BY <1>a, <2>0, <3>1, <3>2
  <2>2. CASE PopNothing(t)
    <3>1. t \in Workers /\ op[t] /= "idle"
      BY <1>0, <2>2 DEF PopNothing, CallersPush
    <3>2. UNCHANGED ring /\ op'[c] = op[c]
      BY <1>0, <2>2, <3>1 DEF PopNothing, ring, TypeOK
    <3>3. \A v \in Workers : Holds(v, c)' <=> Holds(v, c)
      BY <1>0, <2>0, <2>2, <3>1 DEF PopNothing, Holds, TypeOK
    <3> QED
      BY <1>a, <2>0, <3>2, <3>3
  <2>3. CASE PushStore(t)
    <3>1. t \in Clients \cup Feeders /\ job[t] = t /\ op[t] = "push"
      BY <1>0, <2>3 DEF PushStore, CallersPush, WorkersPop
    <3>2. /\ Queued(c)' <=> Queued(c) \/ c = t
          /\ QueuedOnce(c) /\ ~(Queued(c) /\ c = t) => QueuedOnce(c)'
      BY <1>0, <2>3, <3>1, StoreQueues
    <3>3. \A v \in Workers : Holds(v, c)' <=> Holds(v, c)
      BY <1>0, <2>0, <2>3, <3>1
      DEF PushStore, SignalAndReturn, At, Holds, TypeOK
    <3>4. Held(c)' <=> Held(c)
      BY <3>3 DEF Held
    <3>5. CASE c = t
      <4>1. op'[c] = "idle"
        BY <1>0, <2>3, <3>5 DEF PushStore, SignalAndReturn, At, TypeOK
      <4> QED
        BY <1>0, <2>0, <3>1, <3>2, <3>3, <3>4, <3>5, <4>1 DEF JobInv
    <3>6. CASE c /= t
      <4>1. op'[c] = op[c]
        BY <1>0, <2>3, <3>6
        DEF PushStore, SignalAndReturn, At, TypeOK, CallersPush
      <4> QED
        BY <1>0, <2>0, <3>2, <3>3, <3>4, <3>6, <4>1 DEF JobInv
    <3> QED
      BY <3>5, <3>6
  <2>4. CASE PopTake(t)
    <3>1. t \in Workers /\ op[t] = "pop" /\ wstate[t] = "popping"
      BY <1>0, <2>4 DEF PopTake, CallersPush, WorkersPop
    <3>2. /\ c /= slots[head] => (Queued(c)' <=> Queued(c))
          /\ c = slots[head] => Queued(c) /\ (QueuedOnce(c) => ~Queued(c)')
          /\ QueuedOnce(c) => QueuedOnce(c)'
      BY <1>0, <2>4, TakeDequeues
    <3>3. /\ op'[c] = "idle" <=> op[c] = "idle"
          /\ op'[t] = "idle" /\ job'[t] = slots[head]
          /\ \A v \in Workers \ {t} : op'[v] = op[v] /\ job'[v] = job[v]
      BY <1>0, <2>4, <3>1
      DEF PopTake, SignalAndReturn, At, TypeOK, WorkersPop
    <3>4. \A v \in Workers \ {t} : Holds(v, c)' <=> Holds(v, c)
      BY <2>0, <3>3 DEF Holds
    <3>5. ~Holds(t, c) /\ (Holds(t, c)' <=> c = slots[head])
      BY <2>0, <3>1, <3>3 DEF Holds
    <3>6. CASE c = slots[head]
      <4>1. Queued(c) /\ ~Queued(c)' /\ QueuedOnce(c)' /\ ~Held(c)
        BY <1>0, <3>2, <3>6 DEF JobInv
      <4>2. \A v \in Workers : Holds(v, c)' <=> v = t
        BY <3>4, <3>5, <3>6, <4>1 DEF Held
      <4>3. Held(c)'
        BY <3>1, <4>2 DEF Held
      <4>4. serving'[c] /\ ~done'[c] /\ op'[c] = "idle"
        BY <1>0, <2>0, <3>3, <4>1 DEF JobInv
      <4> QED
        BY <4>1, <4>2, <4>3, <4>4 DEF JobInv
    <3>7. CASE c /= slots[head]
      <4>1. Held(c)' <=> Held(c)
        BY <3>4, <3>5, <3>7 DEF Held
      <4> QED
        BY <1>0, <2>0, <3>2, <3>3, <3>4, <3>5, <3>7, <4>1 DEF JobInv
    <3> QED
      BY <3>6, <3>7
  <2> QED
    BY <2>0, <2>1, <2>2, <2>3, <2>4 DEF CacheStep
<1>9. CASE UNCHANGED vars
  <2>1. UNCHANGED <<ring, wstate, op, job, serving, done>>
    BY <1>9 DEF vars, cacheVars, poolVars, clientVars, ring
  <2>2. \A v \in Workers : Holds(v, c)' <=> Holds(v, c)
    BY <2>1 DEF Holds
  <2> QED
    BY <1>a, <2>1, <2>2
<1> QED
  BY <1>1, <1>2, <1>3, <1>4, <1>5, <1>6, <1>7, <1>8, <1>9 DEF PoolMove, Worker

LEMMA JobsStep == JobsInv /\ [PoolMove]_vars => JobsInv'
BY PoolTypeStep, MoveIsCacheStep, RingStep, CallsStep, JobStep
DEF JobsInv, PoolTypeOK

LEMMA JobsInit == PoolInit => JobsInv
<1> SUFFICES ASSUME PoolInit PROVE JobsInv
  OBVIOUS
<1>1. PoolTypeOK /\ RingInv
  BY PoolTypeInit, CapacityAssumption, WrapLemma, SMT DEF PoolInit, Init, RingInv
<1>2. CallersPush /\ WorkersPop
  BY PoolAssumption DEF PoolInit, Init, CallersPush, WorkersPop
<1>3. ASSUME NEW c \in Clients PROVE JobInv(c)
  <2>1. ~Queued(c) /\ QueuedOnce(c)
    BY DEF PoolInit, Init, Queued, QueuedOnce
  <2>2. \A w \in Workers : ~Holds(w, c)
    BY DEF PoolInit, Holds
  <2>3. ~serving[c] /\ op[c] = "idle"
    BY PoolAssumption DEF PoolInit, Init
  <2> QED
    BY <2>1, <2>2, <2>3 DEF JobInv, Held
<1> QED
  BY <1>1, <1>2, <1>3 DEF JobsInv

\* What the invariant says in the terms of the pool's properties.
LEMMA HandIsHolding ==
    ASSUME WorkersPop, NEW j PROVE InHand(j) = {w \in Workers : Holds(w, j)}
BY DEF WorkersPop, InHand, Holds

LEMMA JobsCorrect ==
    JobsInv => ContextOutlivesJob /\ RunOnce /\ NoForgottenRequest
<1> SUFFICES ASSUME JobsInv
             PROVE  ContextOutlivesJob /\ RunOnce /\ NoForgottenRequest
  OBVIOUS
<1>1. ASSUME NEW c \in Clients
      PROVE  JobInv(c) /\ (InHand(c) /= {} <=> Held(c))
  BY HandIsHolding DEF JobsInv, Held
<1>2. ContextOutlivesJob
  BY <1>1 DEF ContextOutlivesJob, JobInv
<1>3. NoForgottenRequest
  BY <1>1 DEF NoForgottenRequest, JobInv
<1>4. ASSUME NEW c \in Clients PROVE Cardinality(InHand(c)) <= 1
  <2>1. CASE InHand(c) = {}
    BY <2>1, FS_EmptySet, SMT
  <2>2. CASE InHand(c) /= {}
    <3>1. PICK w \in Workers : Holds(w, c)
      BY <1>1, <2>2 DEF Held
    <3>2. InHand(c) = {w}
      BY <1>1, <3>1, HandIsHolding DEF JobsInv, JobInv
    <3> QED
      BY <3>2, FS_Singleton, SMT
  <2> QED
    BY <2>1, <2>2
<1>5. RunOnce
  BY <1>1, <1>4 DEF RunOnce, JobInv
<1> QED
  BY <1>2, <1>3, <1>5

LEMMA PoolCorrect == PoolSpec => []JobsInv
<1>1. JobsInv /\ [PoolNext]_vars => JobsInv'
  BY JobsStep, NextIsMove
<1> QED
  BY <1>1, JobsInit, PTL DEF PoolSpec

\* The sync context on a handler's stack outlives every use a worker makes of
\* it: a queued or running job's client is still in its handler, and its
\* callback has not run.
THEOREM ContextIsAlive == PoolSpec => []ContextOutlivesJob
<1>1. QED
  BY PoolCorrect, JobsCorrect, PTL

\* However the workers and the scaler interleave, a job is in the hands of at
\* most one worker, and of none while it is queued.
THEOREM JobsRunOnce == PoolSpec => []RunOnce
<1>1. QED
  BY PoolCorrect, JobsCorrect, PTL

\* No request is lost between the push, the pop and the callback, also while
\* the pool is being stopped: a client that sleeps has its job in the queue or
\* in a worker's hands.
THEOREM RequestsAreKept == PoolSpec => []NoForgottenRequest
<1>1. QED
  BY PoolCorrect, JobsCorrect, PTL
=============================================================================
