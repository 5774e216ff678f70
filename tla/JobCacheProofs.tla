--------------------------- MODULE JobCacheProofs ---------------------------
(***************************************************************************)
(* Proofs about JobCache for every set of threads, every set of jobs and   *)
(* every capacity.                                                         *)
(***************************************************************************)
EXTENDS JobCache, FiniteSetTheorems, SequenceTheorems, TLAPS

(***************************************************************************)
(* The index arithmetic of the ring.                                       *)
(***************************************************************************)
\* Below twice the capacity, the wrap-around of an index is one subtraction.
LEMMA WrapLemma ==
    \A x \in Nat : x < Capacity + Capacity =>
        Wrap(x) = IF x < Capacity THEN x ELSE x - Capacity
<1> SUFFICES ASSUME NEW x \in Nat, x < Capacity + Capacity
             PROVE  Wrap(x) = IF x < Capacity THEN x ELSE x - Capacity
  OBVIOUS
<1>1. /\ x % Capacity \in 0..Capacity-1
      /\ x = Capacity * (x \div Capacity) + (x % Capacity)
  BY CapacityAssumption, SMT
<1>2. x \div Capacity \in {0, 1}
  BY CapacityAssumption, <1>1, SMT
<1> QED
  BY CapacityAssumption, <1>1, <1>2, SMT DEF Wrap

(***************************************************************************)
(* Type correctness and the shape of the ring.                             *)
(***************************************************************************)
LEMMA SignalType ==
    ASSUME TypeOK, NEW t \in Threads, NEW w \in Ops, NEW r \in Ops,
           SignalAndReturn(t, w, r)
    PROVE  op' \in [Threads -> Ops]
BY DEF TypeOK, SignalAndReturn, At, Ops

LEMMA TypeStep == TypeOK /\ [Next]_cacheVars => TypeOK'
<1> SUFFICES ASSUME TypeOK, [Next]_cacheVars PROVE TypeOK'
  OBVIOUS
<1> USE CapacityAssumption
<1>1. ASSUME NEW t \in Threads, NEW j \in Jobs, PushCall(t, j) PROVE TypeOK'
  BY <1>1 DEF TypeOK, PushCall, Ops
<1>2. ASSUME NEW t \in Threads, PushFull(t) PROVE TypeOK'
  BY <1>2 DEF TypeOK, PushFull, Ops
<1>3. ASSUME NEW t \in Threads, PushStore(t) PROVE TypeOK'
  <2>1. op' \in [Threads -> Ops]
    BY <1>3, SignalType DEF PushStore, Ops
  <2>2. tail' \in 0..Capacity-1
    BY <1>3, WrapLemma, SMT DEF TypeOK, PushStore
  <2> QED
    BY <1>3, <2>1, <2>2 DEF TypeOK, PushStore
<1>4. ASSUME NEW t \in Threads, NEW m \in Modes, PopCall(t, m) PROVE TypeOK'
  BY <1>4 DEF TypeOK, PopCall, Ops
<1>5. ASSUME NEW t \in Threads, PopEmpty(t) PROVE TypeOK'
  BY <1>5 DEF TypeOK, PopEmpty, Ops
<1>6. ASSUME NEW t \in Threads, PopNothing(t) PROVE TypeOK'
  BY <1>6 DEF TypeOK, PopNothing, Ops
<1>7. ASSUME NEW t \in Threads, PopTake(t) PROVE TypeOK'
  <2>1. op' \in [Threads -> Ops]
    BY <1>7, SignalType DEF PopTake, Ops
  <2>2. head' \in 0..Capacity-1
    BY <1>7, WrapLemma, SMT DEF TypeOK, PopTake
  <2>3. job' \in [Threads -> Jobs \cup {NoJob}]
    BY <1>7 DEF TypeOK, PopTake
  <2> QED
    BY <1>7, <2>1, <2>2, <2>3 DEF TypeOK, PopTake
<1>8. ASSUME NEW t \in Threads, PopExpire(t) PROVE TypeOK'
  BY <1>8 DEF TypeOK, PopExpire, Ops
<1>9. ASSUME NEW t \in Threads, SpuriousWakeup(t) PROVE TypeOK'
  BY <1>9 DEF TypeOK, SpuriousWakeup, Ops
<1>10. CASE UNCHANGED cacheVars
  BY <1>10 DEF TypeOK, cacheVars
<1> QED
  BY <1>1, <1>2, <1>3, <1>4, <1>5, <1>6, <1>7, <1>8, <1>9, <1>10
  DEF Next, CacheStep

LEMMA TypeInit == Init => TypeOK
BY CapacityAssumption DEF Init, TypeOK, Ops, Modes

\* No sequence of calls, waits, timeouts and wakeups takes an index of the
\* ring out of the allocated slots or the count beyond the capacity.
THEOREM TypeCorrect == Spec => []TypeOK
<1>1. QED
  BY TypeInit, TypeStep, PTL DEF Spec

LEMMA RingStep == TypeOK /\ RingInv /\ [Next]_cacheVars => RingInv'
<1> SUFFICES ASSUME TypeOK, RingInv, [Next]_cacheVars PROVE RingInv'
  OBVIOUS
<1> USE CapacityAssumption
<1>1. ASSUME NEW t \in Threads, PushStore(t) PROVE RingInv'
  <2>1. /\ head' = head /\ count' = count + 1 /\ count < Capacity
        /\ tail' = Wrap(tail + 1)
    BY <1>1 DEF PushStore
  <2> QED
    BY <2>1, WrapLemma, SMT DEF RingInv, TypeOK
<1>2. ASSUME NEW t \in Threads, PopTake(t) PROVE RingInv'
  <2>1. /\ tail' = tail /\ count' = count - 1 /\ count > 0
        /\ head' = Wrap(head + 1)
    BY <1>2 DEF PopTake
  <2> QED
    BY <2>1, WrapLemma, SMT DEF RingInv, TypeOK
<1>3. ASSUME UNCHANGED ring PROVE RingInv'
  BY <1>3 DEF ring, RingInv, Wrap
<1> QED
  BY <1>1, <1>2, <1>3
  DEF Next, CacheStep, PushCall, PushFull, PopCall, PopEmpty, PopNothing,
      PopExpire, SpuriousWakeup, ring, cacheVars

\* tail always is the slot after the count jobs that start at head, so a push
\* never lands on a job that was not popped yet.
THEOREM RingCorrect == Spec => []RingInv
<1>1. Init => RingInv
  BY CapacityAssumption, WrapLemma, SMT DEF Init, RingInv
<1> QED
  BY <1>1, RingStep, TypeCorrect, PTL DEF Spec

(***************************************************************************)
(* The ring implements the FIFO queue.                                     *)
(***************************************************************************)
LEMMA ContentsType ==
    ASSUME TypeOK
    PROVE  /\ Contents \in Seq(Jobs \cup {NoJob})
           /\ Len(Contents) = count
           /\ DOMAIN Contents = 1..count
<1>1. \A i \in 1..count : slots[Wrap(head + i - 1)] \in Jobs \cup {NoJob}
  BY CapacityAssumption, WrapLemma, SMT DEF TypeOK
<1>2. count \in Nat
  BY CapacityAssumption DEF TypeOK
<1> QED
  BY <1>1, <1>2, IsASeq DEF Contents

\* Storing at tail appends to the contents.
LEMMA StoreAppends ==
    ASSUME TypeOK, TypeOK', RingInv, NEW x, count < Capacity,
           slots' = [slots EXCEPT ![tail] = x],
           head' = head, count' = count + 1
    PROVE  Contents' = Append(Contents, x)
<1> DEFINE S == Jobs \cup {NoJob}
<1> USE CapacityAssumption
<1>1. x \in S
  BY DEF TypeOK
<1>2. /\ Append(Contents, x) \in Seq(S)
      /\ Len(Append(Contents, x)) = count + 1
      /\ \A i \in 1..count : Append(Contents, x)[i] = Contents[i]
      /\ Append(Contents, x)[count + 1] = x
  BY <1>1, ContentsType, AppendProperties
<1>3. /\ Contents' \in Seq(S)
      /\ Len(Contents') = count + 1
  <2>1. (Contents \in Seq(S) /\ Len(Contents) = count)'
    BY ContentsType, PTL
  <2> QED
    BY <2>1
<1>4. ASSUME NEW i \in 1..count PROVE Contents'[i] = Contents[i]
  <2>1. Wrap(head + i - 1) /= tail /\ Wrap(head + i - 1) \in 0..Capacity-1
    BY WrapLemma, SMT DEF TypeOK, RingInv
  <2>2. slots'[Wrap(head + i - 1)] = slots[Wrap(head + i - 1)]
    BY <2>1 DEF TypeOK
  <2>3. i \in 1..count' /\ i \in 1..count
    BY SMT DEF TypeOK
  <2> QED
    BY <2>2, <2>3 DEF Contents, Wrap
<1>5. Contents'[count + 1] = x
  <2>1. Wrap(head + (count + 1) - 1) = tail
    BY WrapLemma, SMT DEF TypeOK, RingInv
  <2>2. count + 1 \in 1..count'
    BY SMT DEF TypeOK
  <2>3. Contents'[count + 1] = slots'[Wrap(head + (count + 1) - 1)]
    BY <2>2 DEF Contents, Wrap
  <2> QED
    BY <2>1, <2>3 DEF TypeOK
<1>6. \A i \in 1..(count + 1) : Contents'[i] = Append(Contents, x)[i]
  BY <1>2, <1>4, <1>5, SMT DEF TypeOK
<1> QED
  BY <1>2, <1>3, <1>6, SeqEqual

\* Advancing head takes the first element off the contents.
LEMMA TakeIsTail ==
    ASSUME TypeOK, TypeOK', count > 0, slots' = slots,
           head' = Wrap(head + 1), count' = count - 1
    PROVE  /\ Contents /= <<>>
           /\ slots[head] = Head(Contents)
           /\ Contents' = Tail(Contents)
<1> DEFINE S == Jobs \cup {NoJob}
<1> USE CapacityAssumption
<1>1. Contents /= <<>> /\ Contents[1] = slots[head]
  <2>1. Wrap(head + 1 - 1) = head /\ 1 \in 1..count
    BY WrapLemma, SMT DEF TypeOK
  <2> QED
    BY <2>1, ContentsType, EmptySeq, SMT DEF Contents
<1>2. /\ Head(Contents) = Contents[1]
      /\ Tail(Contents) \in Seq(S)
      /\ Len(Tail(Contents)) = count - 1
      /\ \A i \in 1..(count - 1) : Tail(Contents)[i] = Contents[i + 1]
  BY <1>1, ContentsType, HeadTailProperties
<1>3. /\ Contents' \in Seq(S)
      /\ Len(Contents') = count - 1
  <2>1. (Contents \in Seq(S) /\ Len(Contents) = count)'
    BY ContentsType, PTL
  <2> QED
    BY <2>1
<1>4. ASSUME NEW i \in 1..(count - 1) PROVE Contents'[i] = Contents[i + 1]
  <2>1. Wrap(head' + i - 1) = Wrap(head + (i + 1) - 1)
    BY WrapLemma, SMT DEF TypeOK
  <2>2. i \in 1..count' /\ i + 1 \in 1..count
    BY SMT DEF TypeOK
  <2>3. Contents'[i] = slots'[Wrap(head' + i - 1)]
    BY <2>2 DEF Contents, Wrap
  <2>4. Contents[i + 1] = slots[Wrap(head + (i + 1) - 1)]
    BY <2>2 DEF Contents
  <2> QED
    BY <2>1, <2>3, <2>4
<1> QED
  BY <1>1, <1>2, <1>3, <1>4, SeqEqual

LEMMA StepRefines ==
    TypeOK /\ RingInv /\ [Next]_cacheVars => [Queue!QNext]_(Queue!qvars)
<1> SUFFICES ASSUME TypeOK, RingInv, [Next]_cacheVars
             PROVE  [Queue!QNext]_(Queue!qvars)
  OBVIOUS
<1>0. TypeOK'
  BY TypeStep
<1>a. ASSUME UNCHANGED ring PROVE Contents' = Contents
  BY <1>a DEF ring, Contents, Wrap
<1>1. ASSUME NEW t \in Threads, NEW j \in Jobs, PushCall(t, j)
      PROVE  Queue!Offer(t, j)
  <2>1. /\ Requests[t] = "idle"
        /\ Requests' = [Requests EXCEPT ![t] = "offer"]
    BY <1>1 DEF PushCall, TypeOK, Requests
  <2> QED
    BY <1>1, <1>a, <2>1 DEF PushCall, Queue!Offer, ring
<1>2. ASSUME NEW t \in Threads,
             PushFull(t) \/ PopEmpty(t) \/ PopExpire(t) \/ SpuriousWakeup(t)
      PROVE  UNCHANGED Queue!qvars
  <2>1. Requests' = Requests
    BY <1>2 DEF PushFull, PopEmpty, PopExpire, SpuriousWakeup, TypeOK, Requests
  <2> QED
    BY <1>2, <1>a, <2>1
    DEF PushFull, PopEmpty, PopExpire, SpuriousWakeup, Queue!qvars, ring
<1>3. ASSUME NEW t \in Threads, PushStore(t) PROVE Queue!Accept(t)
  <2>1. Contents' = Append(Contents, job[t])
    BY <1>0, <1>3, StoreAppends DEF PushStore
  <2>2. /\ Requests[t] = "offer"
        /\ Requests' = [Requests EXCEPT ![t] = "idle"]
    BY <1>3 DEF PushStore, SignalAndReturn, At, TypeOK, Requests
  <2> QED
    BY <1>3, <2>1, <2>2, ContentsType DEF PushStore, Queue!Accept
<1>4. ASSUME NEW t \in Threads, NEW m \in Modes, PopCall(t, m)
      PROVE  Queue!Ask(t)
  <2>1. /\ Requests[t] = "idle"
        /\ Requests' = [Requests EXCEPT ![t] = "ask"]
    BY <1>4 DEF PopCall, TypeOK, Requests
  <2> QED
    BY <1>4, <1>a, <2>1 DEF PopCall, Queue!Ask, ring
<1>5. ASSUME NEW t \in Threads, PopNothing(t) PROVE Queue!Refuse(t)
  <2>1. /\ Requests[t] = "ask"
        /\ Requests' = [Requests EXCEPT ![t] = "idle"]
    BY <1>5 DEF PopNothing, TypeOK, Requests
  <2> QED
    BY <1>5, <1>a, <2>1 DEF PopNothing, Queue!Refuse, ring
<1>6. ASSUME NEW t \in Threads, PopTake(t) PROVE Queue!Give(t)
  <2>1. /\ Contents /= <<>>
        /\ slots[head] = Head(Contents)
        /\ Contents' = Tail(Contents)
    BY <1>0, <1>6, TakeIsTail DEF PopTake
  <2>2. /\ Requests[t] = "ask"
        /\ Requests' = [Requests EXCEPT ![t] = "idle"]
    BY <1>6 DEF PopTake, SignalAndReturn, At, TypeOK, Requests
  <2> QED
    BY <1>6, <2>1, <2>2 DEF PopTake, Queue!Give
<1>7. ASSUME UNCHANGED cacheVars PROVE UNCHANGED Queue!qvars
  BY <1>7, <1>a DEF cacheVars, ring, Queue!qvars, Requests
<1> QED
  BY <1>1, <1>2, <1>3, <1>4, <1>5, <1>6, <1>7
  DEF Next, CacheStep, Queue!QNext

\* jobcache.c is a bounded FIFO queue: whatever the interleaving of pushes,
\* pops, timeouts and wakeups, each accepted job is handed out exactly once
\* and in the order of acceptance, and a pop that reports nothing takes
\* nothing.
THEOREM CacheImplementsQueue == Spec => ImplementsQueue
<1>1. Init => Queue!QInit
  <2> SUFFICES ASSUME Init PROVE Queue!QInit
    OBVIOUS
  <2>1. Contents = <<>>
    BY TypeInit, ContentsType, EmptySeq DEF Init
  <2> QED
    BY <2>1 DEF Init, Queue!QInit, Requests
<1> QED
  BY <1>1, StepRefines, TypeCorrect, RingCorrect, PTL
  DEF Spec, ImplementsQueue, Queue!QSpec

(***************************************************************************)
(* No wakeup is lost.                                                      *)
(***************************************************************************)
LEMMA AtFinite ==
    \A o : IsFiniteSet(At(o)) /\ Cardinality(At(o)) \in Nat
<1> SUFFICES ASSUME NEW o
             PROVE  IsFiniteSet(At(o)) /\ Cardinality(At(o)) \in Nat
  OBVIOUS
<1>1. IsFiniteSet(At(o))
  BY ThreadsAssumption, FS_Subset DEF At
<1> QED
  BY <1>1, FS_CardinalityType

LEMMA JobSignalStep ==
    TypeOK /\ NoLostJobSignal /\ [Next]_cacheVars => NoLostJobSignal'
<1> SUFFICES ASSUME TypeOK, NoLostJobSignal, [Next]_cacheVars, At("popWait")' /= {}
             PROVE  count' <= Cardinality(At("pop")')
  BY DEF NoLostJobSignal
<1> DEFINE P == At("pop")
           W == At("popWait")
<1> USE CapacityAssumption
<1>0. /\ IsFiniteSet(P) /\ Cardinality(P) \in Nat
      /\ IsFiniteSet(P') /\ Cardinality(P') \in Nat
      /\ count \in Nat
  <2>1. IsFiniteSet(P')
    BY ThreadsAssumption, FS_Subset DEF At
  <2> QED
    BY <2>1, AtFinite, FS_CardinalityType DEF TypeOK
\* The steps that take nobody out of At("pop") and leave the count alone.
<1>a. ASSUME W /= {}, P \subseteq P', count' = count
      PROVE  count' <= Cardinality(P')
  <2>1. Cardinality(P) <= Cardinality(P')
    BY <1>0, <1>a, FS_Subset
  <2> QED
    BY <1>0, <1>a, <2>1, SMT DEF NoLostJobSignal
<1>1. ASSUME NEW t \in Threads, PushStore(t) PROVE count' <= Cardinality(P')
  <2>1. PICK u \in W : op' = [op EXCEPT ![t] = "idle", ![u] = "pop"]
    <3>1. CASE W = {}
      BY <1>1, <3>1 DEF PushStore, SignalAndReturn, At, TypeOK
    <3> QED
      BY <1>1, <3>1 DEF PushStore, SignalAndReturn
  <2>2. u \notin P /\ P' = P \cup {u}
    BY <1>1, <2>1 DEF PushStore, At, TypeOK
  <2>3. Cardinality(P') = Cardinality(P) + 1
    BY <1>0, <2>2, FS_AddElement
  <2> QED
    BY <1>0, <1>1, <2>1, <2>3, SMT DEF PushStore, NoLostJobSignal
<1>2. ASSUME NEW t \in Threads, PopTake(t) PROVE count' <= Cardinality(P')
  <2>1. t \in P /\ P' = P \ {t} /\ W' = W
    BY <1>2 DEF PopTake, SignalAndReturn, At, TypeOK
  <2>2. Cardinality(P') = Cardinality(P) - 1
    BY <1>0, <2>1, FS_RemoveElement
  <2> QED
    BY <1>0, <1>2, <2>1, <2>2, SMT DEF PopTake, NoLostJobSignal
<1>3. ASSUME NEW t \in Threads, PopEmpty(t) PROVE count' <= Cardinality(P')
  BY <1>0, <1>3, SMT DEF PopEmpty
<1>4. ASSUME NEW t \in Threads, PopNothing(t) PROVE count' <= Cardinality(P')
  <2>1. CASE op[t] = "pop"
    BY <1>0, <1>4, <2>1, SMT DEF PopNothing
  <2>2. CASE op[t] = "expired"
    <3>1. W' = W /\ P' = P /\ count' = count
      BY <1>4, <2>2 DEF PopNothing, At, TypeOK
    <3> QED
      BY <1>a, <3>1
  <2> QED
    BY <1>4, <2>1, <2>2 DEF PopNothing
<1>5. ASSUME NEW t \in Threads, NEW j \in Jobs, PushCall(t, j)
      PROVE  count' <= Cardinality(P')
  <2>1. W /= {} /\ P \subseteq P' /\ count' = count
    BY <1>5 DEF PushCall, At, TypeOK
  <2> QED
    BY <1>a, <2>1
<1>6. ASSUME NEW t \in Threads, NEW m \in Modes, PopCall(t, m)
      PROVE  count' <= Cardinality(P')
  <2>1. W /= {} /\ P \subseteq P' /\ count' = count
    BY <1>6 DEF PopCall, At, TypeOK
  <2> QED
    BY <1>a, <2>1
<1>7. ASSUME NEW t \in Threads, PushFull(t) \/ PopExpire(t) \/ SpuriousWakeup(t)
      PROVE  count' <= Cardinality(P')
  <2>1. W /= {} /\ P \subseteq P' /\ count' = count
    BY <1>7 DEF PushFull, PopExpire, SpuriousWakeup, At, TypeOK
  <2> QED
    BY <1>a, <2>1
<1>8. ASSUME UNCHANGED cacheVars PROVE count' <= Cardinality(P')
  <2>1. W /= {} /\ P \subseteq P' /\ count' = count
    BY <1>8 DEF cacheVars, At
  <2> QED
    BY <1>a, <2>1
<1> QED
  BY <1>1, <1>2, <1>3, <1>4, <1>5, <1>6, <1>7, <1>8 DEF Next, CacheStep

\* While a consumer sleeps, every queued job has a consumer that is awake: one
\* signal per push suffices although timeouts, spurious wakeups and threads
\* that arrive in between may consume what a signal was meant for.
THEOREM JobSignalsSuffice == Spec => []NoLostJobSignal
<1>1. Init => NoLostJobSignal
  BY DEF Init, NoLostJobSignal, At
<1> QED
  BY <1>1, JobSignalStep, TypeCorrect, PTL DEF Spec

LEMMA SlotSignalStep ==
    TypeOK /\ NoLostSlotSignal /\ [Next]_cacheVars => NoLostSlotSignal'
<1> SUFFICES ASSUME TypeOK, NoLostSlotSignal, [Next]_cacheVars,
                    At("pushWait")' /= {}
             PROVE  Capacity - count' <= Cardinality(At("push")')
  BY DEF NoLostSlotSignal
<1> DEFINE P == At("push")
           W == At("pushWait")
           Goal == Capacity - count' <= Cardinality(P')
<1> USE CapacityAssumption
<1>0. /\ IsFiniteSet(P) /\ Cardinality(P) \in Nat
      /\ IsFiniteSet(P') /\ Cardinality(P') \in Nat
      /\ count \in Nat
  <2>1. IsFiniteSet(P')
    BY ThreadsAssumption, FS_Subset DEF At
  <2> QED
    BY <2>1, AtFinite, FS_CardinalityType DEF TypeOK
\* The steps that take nobody out of At("push") and leave the count alone.
<1>a. ASSUME W /= {}, P \subseteq P', count' = count PROVE Goal
  <2>1. Cardinality(P) <= Cardinality(P')
    BY <1>0, <1>a, FS_Subset
  <2> QED
    BY <1>0, <1>a, <2>1, SMT DEF NoLostSlotSignal
<1>1. ASSUME NEW t \in Threads, PopTake(t) PROVE Goal
  <2>1. PICK u \in W : op' = [op EXCEPT ![t] = "idle", ![u] = "push"]
    <3>1. CASE W = {}
      BY <1>1, <3>1 DEF PopTake, SignalAndReturn, At, TypeOK
    <3> QED
      BY <1>1, <3>1 DEF PopTake, SignalAndReturn
  <2>2. u \notin P /\ P' = P \cup {u}
    BY <1>1, <2>1 DEF PopTake, At, TypeOK
  <2>3. Cardinality(P') = Cardinality(P) + 1
    BY <1>0, <2>2, FS_AddElement
  <2> QED
    BY <1>0, <1>1, <2>1, <2>3, SMT DEF PopTake, NoLostSlotSignal
<1>2. ASSUME NEW t \in Threads, PushStore(t) PROVE Goal
  <2>1. t \in P /\ P' = P \ {t} /\ W' = W
    BY <1>2 DEF PushStore, SignalAndReturn, At, TypeOK
  <2>2. Cardinality(P') = Cardinality(P) - 1
    BY <1>0, <2>1, FS_RemoveElement
  <2> QED
    BY <1>0, <1>2, <2>1, <2>2, SMT DEF PushStore, NoLostSlotSignal
<1>3. ASSUME NEW t \in Threads, PushFull(t) PROVE Goal
  BY <1>0, <1>3, SMT DEF PushFull, TypeOK
<1>4. ASSUME NEW t \in Threads, NEW j \in Jobs, PushCall(t, j) PROVE Goal
  <2>1. W /= {} /\ P \subseteq P' /\ count' = count
    BY <1>4 DEF PushCall, At, TypeOK
  <2> QED
    BY <1>a, <2>1
<1>5. ASSUME NEW t \in Threads, NEW m \in Modes, PopCall(t, m) PROVE Goal
  <2>1. W /= {} /\ P \subseteq P' /\ count' = count
    BY <1>5 DEF PopCall, At, TypeOK
  <2> QED
    BY <1>a, <2>1
<1>6. ASSUME NEW t \in Threads,
             \/ PopEmpty(t) \/ PopNothing(t)
             \/ PopExpire(t) \/ SpuriousWakeup(t)
      PROVE  Goal
  <2>1. W /= {} /\ P \subseteq P' /\ count' = count
    BY <1>6 DEF PopEmpty, PopNothing, PopExpire, SpuriousWakeup, At, TypeOK
  <2> QED
    BY <1>a, <2>1
<1>7. ASSUME UNCHANGED cacheVars PROVE Goal
  <2>1. W /= {} /\ P \subseteq P' /\ count' = count
    BY <1>7 DEF cacheVars, At
  <2> QED
    BY <1>a, <2>1
<1> QED
  BY <1>1, <1>2, <1>3, <1>4, <1>5, <1>6, <1>7 DEF Next, CacheStep

\* While a producer sleeps on a full cache, every slot that became free has a
\* producer that is awake.
THEOREM SlotSignalsSuffice == Spec => []NoLostSlotSignal
<1>1. Init => NoLostSlotSignal
  BY DEF Init, NoLostSlotSignal, At
<1> QED
  BY <1>1, SlotSignalStep, TypeCorrect, PTL DEF Spec
=============================================================================
