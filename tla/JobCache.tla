------------------------------ MODULE JobCache ------------------------------
(***************************************************************************)
(* The shared job cache, src/src/jobcache/jobcache.c: a ring of job slots  *)
(* guarded by one mutex, with a condition variable for "not empty" and one *)
(* for "not full".  Every access to the ring is made with the mutex held,  *)
(* so a critical section (up to a pthread_cond_wait or to the unlock) is   *)
(* one step.  A thread that waits on a condition variable is woken by a    *)
(* signal, by nothing at all (POSIX allows spurious wakeups) or, in a      *)
(* timed wait, by its deadline; it then takes the mutex again, so that     *)
(* other threads may act between the wakeup and its next step.             *)
(***************************************************************************)
EXTENDS Naturals, Sequences, FiniteSets

CONSTANTS Threads,    \* the threads that call into the cache
          Jobs,       \* the jobs (type, payload and callback) they may push
          Capacity,   \* max_size of jobcache_create
          NoJob       \* the contents of a job_t nothing was written to

ASSUME CapacityAssumption == Capacity \in Nat \ {0}
ASSUME ThreadsAssumption == IsFiniteSet(Threads)

VARIABLES slots, head, tail, count,   \* struct jobcache
          op,     \* op[t]: where t is inside jobcache_push or jobcache_pop
          mode,   \* mode[t]: the timeout_ms of t's pop: < 0, > 0 or = 0
          job     \* job[t]: the job t pushes, or the job its last pop filled

ring == <<slots, head, tail, count>>
cacheVars == <<slots, head, tail, count, op, mode, job>>

(***************************************************************************)
(* "push" and "pop" are the calls at the point where they (re)test the     *)
(* loop condition with the mutex held; "pushWait" and "popWait" are inside *)
(* pthread_cond_wait; "expired" is a timed wait whose deadline has passed  *)
(* and that has yet to take the mutex back.                                *)
(***************************************************************************)
Ops == {"idle", "push", "pushWait", "pop", "popWait", "expired"}
Modes == {"block", "timed", "poll"}

\* The ring's indices run round the array.
Wrap(i) == i % Capacity

At(o) == {t \in Threads : op[t] = o}

Init == /\ slots = [i \in 0..Capacity-1 |-> NoJob]
        /\ head = 0 /\ tail = 0 /\ count = 0
        /\ op = [t \in Threads |-> "idle"]
        /\ mode = [t \in Threads |-> "poll"]
        /\ job = [t \in Threads |-> NoJob]
-----------------------------------------------------------------------------
\* pthread_cond_signal wakes one thread waiting at w, if there is one, and
\* puts it back at r; the signalling thread t leaves its call.
SignalAndReturn(t, w, r) ==
    \/ /\ At(w) = {}
       /\ op' = [op EXCEPT ![t] = "idle"]
    \/ \E u \in At(w) : op' = [op EXCEPT ![t] = "idle", ![u] = r]

(***************************************************************************)
(* Plausible mistakes in the two critical sections, one for each property  *)
(* below; no specification uses them.                                      *)
(***************************************************************************)
\* tail is advanced without the wrap.
PushStoreUnwrapped(t) ==
    /\ op[t] = "push"
    /\ count < Capacity
    /\ slots' = [slots EXCEPT ![tail] = job[t]]
    /\ tail' = tail + 1
    /\ count' = count + 1
    /\ SignalAndReturn(t, "popWait", "pop")
    /\ UNCHANGED <<head, mode, job>>

\* The push signals only if the cache was empty.
PushStoreRarelySignals(t) ==
    /\ op[t] = "push"
    /\ count < Capacity
    /\ slots' = [slots EXCEPT ![tail] = job[t]]
    /\ tail' = Wrap(tail + 1)
    /\ count' = count + 1
    /\ IF count = 0 THEN SignalAndReturn(t, "popWait", "pop")
                    ELSE op' = [op EXCEPT ![t] = "idle"]
    /\ UNCHANGED <<head, mode, job>>

\* The pop signals only if the cache was full.
PopTakeRarelySignals(t) ==
    /\ op[t] = "pop"
    /\ count > 0
    /\ job' = [job EXCEPT ![t] = slots[head]]
    /\ head' = Wrap(head + 1)
    /\ count' = count - 1
    /\ IF count = Capacity THEN SignalAndReturn(t, "pushWait", "push")
                           ELSE op' = [op EXCEPT ![t] = "idle"]
    /\ UNCHANGED <<slots, tail, mode>>

\* head is advanced before the copy instead of after it.
PopTakeNext(t) ==
    /\ op[t] = "pop"
    /\ count > 0
    /\ job' = [job EXCEPT ![t] = slots[Wrap(head + 1)]]
    /\ head' = Wrap(head + 1)
    /\ count' = count - 1
    /\ SignalAndReturn(t, "pushWait", "push")
    /\ UNCHANGED <<slots, tail, mode>>

\* head is not advanced.
PopTakeKeepsHead(t) ==
    /\ op[t] = "pop"
    /\ count > 0
    /\ job' = [job EXCEPT ![t] = slots[head]]
    /\ count' = count - 1
    /\ SignalAndReturn(t, "pushWait", "push")
    /\ UNCHANGED <<slots, head, tail, mode>>

\* count is not decremented.
PopTakeKeepsCount(t) ==
    /\ op[t] = "pop"
    /\ count > 0
    /\ job' = [job EXCEPT ![t] = slots[head]]
    /\ head' = Wrap(head + 1)
    /\ SignalAndReturn(t, "pushWait", "push")
    /\ UNCHANGED <<slots, tail, count, mode>>
-----------------------------------------------------------------------------
PushCall(t, j) ==
    /\ op[t] = "idle"
    /\ op' = [op EXCEPT ![t] = "push"]
    /\ job' = [job EXCEPT ![t] = j]
    /\ UNCHANGED <<slots, head, tail, count, mode>>

PushFull(t) ==
    /\ op[t] = "push"
    /\ count >= Capacity
    /\ op' = [op EXCEPT ![t] = "pushWait"]
    /\ UNCHANGED <<slots, head, tail, count, mode, job>>

PushStore(t) ==
    /\ op[t] = "push"
    /\ count < Capacity
    /\ slots' = [slots EXCEPT ![tail] = job[t]]
    /\ tail' = Wrap(tail + 1)
    /\ count' = count + 1
    /\ SignalAndReturn(t, "popWait", "pop")
    /\ UNCHANGED <<head, mode, job>>

PopCall(t, m) ==
    /\ op[t] = "idle"
    /\ op' = [op EXCEPT ![t] = "pop"]
    /\ mode' = [mode EXCEPT ![t] = m]
    /\ UNCHANGED <<slots, head, tail, count, job>>

PopEmpty(t) ==
    /\ op[t] = "pop"
    /\ count = 0
    /\ mode[t] /= "poll"
    /\ op' = [op EXCEPT ![t] = "popWait"]
    /\ UNCHANGED <<slots, head, tail, count, mode, job>>

\* return -1: nothing there (timeout_ms = 0), or the deadline has passed.  The
\* second does not look at count again.
PopNothing(t) ==
    /\ \/ op[t] = "pop" /\ count = 0 /\ mode[t] = "poll"
       \/ op[t] = "expired"
    /\ op' = [op EXCEPT ![t] = "idle"]
    /\ job' = [job EXCEPT ![t] = NoJob]
    /\ UNCHANGED <<slots, head, tail, count, mode>>

PopTake(t) ==
    /\ op[t] = "pop"
    /\ count > 0
    /\ job' = [job EXCEPT ![t] = slots[head]]
    /\ head' = Wrap(head + 1)
    /\ count' = count - 1
    /\ SignalAndReturn(t, "pushWait", "push")
    /\ UNCHANGED <<slots, tail, mode>>

PopExpire(t) ==
    /\ op[t] = "popWait"
    /\ mode[t] = "timed"
    /\ op' = [op EXCEPT ![t] = "expired"]
    /\ UNCHANGED <<slots, head, tail, count, mode, job>>

SpuriousWakeup(t) ==
    /\ \/ op[t] = "pushWait" /\ op' = [op EXCEPT ![t] = "push"]
       \/ op[t] = "popWait" /\ op' = [op EXCEPT ![t] = "pop"]
    /\ UNCHANGED <<slots, head, tail, count, mode, job>>

\* What a thread inside a call does next.
CacheStep(t) == \/ PushFull(t) \/ PushStore(t)
                \/ PopEmpty(t) \/ PopNothing(t) \/ PopTake(t)
                \/ PopExpire(t) \/ SpuriousWakeup(t)

Next == \E t \in Threads : \/ \E j \in Jobs : PushCall(t, j)
                           \/ \E m \in Modes : PopCall(t, m)
                           \/ CacheStep(t)

Spec == Init /\ [][Next]_cacheVars
-----------------------------------------------------------------------------
\* The ring's fields and each thread's place in its call are within their ranges.
TypeOK == /\ slots \in [0..Capacity-1 -> Jobs \cup {NoJob}]
          /\ head \in 0..Capacity-1
          /\ tail \in 0..Capacity-1
          /\ count \in 0..Capacity
          /\ op \in [Threads -> Ops]
          /\ mode \in [Threads -> Modes]
          /\ job \in [Threads -> Jobs \cup {NoJob}]

\* The slots from head on hold count jobs and tail is the slot after them:
\* what keeps a push from overwriting a job that was not popped yet.
RingInv == tail = Wrap(head + count)

\* A job that is in the queue is never left behind a sleeping consumer: as
\* long as a thread waits in jobcache_pop, every queued job has a thread that
\* is already awake and on its way to take one (one pthread_cond_signal per
\* push is enough, timeouts and stolen jobs included).
NoLostJobSignal ==
    At("popWait") /= {} => count <= Cardinality(At("pop"))

\* The same for producers: as long as a thread waits in jobcache_push, every
\* free slot has a pusher that is awake.
NoLostSlotSignal ==
    At("pushWait") /= {} => Capacity - count <= Cardinality(At("push"))

\* What the ring stands for: the queued jobs, oldest first.
Contents == [i \in 1..count |-> slots[Wrap(head + i - 1)]]

Requests == [t \in Threads |->
                CASE op[t] = "idle" -> "idle"
                  [] op[t] \in {"push", "pushWait"} -> "offer"
                  [] OTHER -> "ask"]

\* The ring implements the bounded FIFO queue of JobQueue: every accepted job
\* is handed out once, in order, and no thread's copy is overwritten by
\* another call.
Queue == INSTANCE JobQueue WITH queue <- Contents, request <- Requests,
                                hand <- job
ImplementsQueue == Queue!QSpec
=============================================================================
