---------------------------- MODULE GatewayProofs ----------------------------
(***************************************************************************)
(* Proofs about Gateway and the monitors its handlers share, for every     *)
(* number of handlers and addresses, every hash function and every limit.  *)
(***************************************************************************)
EXTENDS Gateway, FiniteSetTheorems, SequenceTheorems, TLAPS

(***************************************************************************)
(* Where a handler is and what it has in its hands.                        *)
(***************************************************************************)
Places == {"idle", "connect", "probe", "reset", "check", "count", "counted",
           "reject", "serve", "wait", "websocket"}
Verdicts == {"", "ok", "reject", "traversal", "limited", "injection", "other"}

LocalsInv ==
    /\ now \in 0..MaxTime /\ received \in 0..MaxRequests
    /\ pc \in [Handlers -> Places]
    /\ req \in [Handlers -> Requests \cup {NoRequest}]
    /\ t \in [Handlers -> Nat] /\ read \in [Handlers -> Nat]
    /\ verdict \in [Handlers -> Verdicts]
    /\ g_rejects \in [Counters -> Nat]
    /\ \A h \in Handlers :
          /\ pc[h] /= "idle" => req[h] \in Requests
          /\ pc[h] \in {"count", "counted"} => verdict[h] \in Counters
          /\ pc[h] = "reject" => verdict[h] \notin {"", "ok"}

LEMMA BoundsNat == MaxTime \in Nat /\ MaxRequests \in Nat
BY GatewayAssumption

LEMMA LocalsInit == GatewayInit => LocalsInv
<1> SUFFICES ASSUME GatewayInit PROVE LocalsInv
  OBVIOUS
<1>1. now \in 0..MaxTime /\ received \in 0..MaxRequests
  <2>1. now = 0 /\ received = 0
    BY DEF GatewayInit
  <2> QED
    BY <2>1, BoundsNat
<1>2. /\ pc \in [Handlers -> Places]
      /\ req \in [Handlers -> Requests \cup {NoRequest}]
      /\ t \in [Handlers -> Nat] /\ read \in [Handlers -> Nat]
      /\ verdict \in [Handlers -> Verdicts]
      /\ g_rejects \in [Counters -> Nat]
  BY DEF GatewayInit, security_monitor_init, Places, Verdicts
<1> QED
  BY <1>1, <1>2 DEF GatewayInit, LocalsInv

LEMMA LocalsStep == LocalsInv /\ [GatewayNext]_gatewayVars => LocalsInv'
<1> SUFFICES ASSUME LocalsInv, [GatewayNext]_gatewayVars PROVE LocalsInv'
  OBVIOUS
<1> USE BoundsNat DEF LocalsInv, Places, Verdicts, Goto, Counters
<1>0. /\ now \in 0..MaxTime /\ received \in 0..MaxRequests
      /\ now < MaxTime /\ now' = now + 1 => now' \in 0..MaxTime
      /\ received < MaxRequests /\ received' = received + 1 =>
            received' \in 0..MaxRequests
      /\ now \in Nat /\ \A n \in Nat : n + 1 \in Nat
  <2> HIDE DEF LocalsInv
  <2>1. now \in 0..MaxTime /\ received \in 0..MaxRequests
    BY DEF LocalsInv
  <2> QED
    BY <2>1
<1>1. CASE Tick
  <2>1. now' \in 0..MaxTime
    BY <1>0, <1>1 DEF Tick
  <2> QED
    BY <1>1, <2>1 DEF Tick, localVars, secmonVars
<1>2. ASSUME NEW h \in Handlers, Receive(h) PROVE LocalsInv'
  <2>1. received' \in 0..MaxRequests
    BY <1>0, <1>2 DEF Receive
  <2>2. t' \in [Handlers -> Nat]
    BY <1>0, <1>2 DEF Receive
  <2> QED
    BY <1>2, <2>1, <2>2 DEF Receive, secmonVars
<1>3. ASSUME NEW h \in Handlers, Connect(h) PROVE LocalsInv'
  BY <1>3 DEF Connect, secmonVars
<1>4. ASSUME NEW h \in Handlers, Probe(h) PROVE LocalsInv'
  BY <1>4 DEF Probe, secmonVars
<1>5. ASSUME NEW h \in Handlers, ResetBucket(h) PROVE LocalsInv'
  BY <1>5 DEF ResetBucket, secmonVars
<1>6. ASSUME NEW h \in Handlers, CheckForm(h) PROVE LocalsInv'
  BY <1>6 DEF CheckForm, Says, secmonVars
<1>7. ASSUME NEW h \in Handlers, CheckLimited(h) PROVE LocalsInv'
  BY <1>7 DEF CheckLimited, Says
<1>8. ASSUME NEW h \in Handlers, CheckBody(h) PROVE LocalsInv'
  BY <1>8 DEF CheckBody, Says
<1>9. ASSUME NEW h \in Handlers, CountRead(h) PROVE LocalsInv'
  BY <1>9 DEF CountRead, secmonVars
<1>10. ASSUME NEW h \in Handlers, CountWrite(h) PROVE LocalsInv'
  <2>1. g_rejects' \in [Counters -> Nat]
    BY <1>0, <1>10 DEF CountWrite
  <2> QED
    BY <1>10, <2>1 DEF CountWrite
<1>11. ASSUME NEW h \in Handlers,
              Reject(h) \/ Answered(h) \/ WebsocketEnds(h)
       PROVE LocalsInv'
  BY <1>11 DEF Reject, Answered, WebsocketEnds, Done, secmonVars
<1>12. ASSUME NEW h \in Handlers, Serve(h) PROVE LocalsInv'
  <2>1. CASE req[h].kind \in {"job", "injection"}
    BY <1>12, <2>1 DEF Serve, secmonVars
  <2>2. CASE req[h].kind \notin {"job", "injection"}
    <3>1. Done(h) /\ UNCHANGED <<now, received, g_rejects>>
      BY <1>12, <2>2 DEF Serve, secmonVars
    <3> QED
      BY <3>1 DEF Done
  <2> QED
    BY <2>1, <2>2
<1>13. CASE UNCHANGED gatewayVars
  BY <1>13 DEF gatewayVars, localVars, secmonVars
<1> QED
  BY <1>1, <1>2, <1>3, <1>4, <1>5, <1>6, <1>7, <1>8, <1>9, <1>10, <1>11, <1>12,
     <1>13
  DEF GatewayNext, Handle

(***************************************************************************)
(* The monitors' state.                                                    *)
(***************************************************************************)
LEMMA RequestType == \A r \in Requests : r.ip \in Ips /\ r.kind \in Kinds
BY GatewayAssumption

LEMMA ModRange == \A x \in Nat : x % EventMax \in 0..EventMax - 1
BY MonitorAssumption, SMT

LEMMA SlotRange ==
    ASSUME MonitorTypeOK, NEW k \in Nat PROVE Slot(k) \in 0..EventMax - 1
<1>1. g_event_head + k \in Nat
  BY MonitorAssumption, SMT DEF MonitorTypeOK
<1> QED
  BY <1>1, ModRange DEF Slot

LEMMA PushType ==
    ASSUME MonitorTypeOK, NEW type \in EventTypes, NEW ip \in Ips,
           push_event(type, ip)
    PROVE  /\ g_events' \in [0..EventMax - 1 -> Events \cup {Empty}]
           /\ g_event_head' \in 0..EventMax - 1
           /\ g_event_count' \in 0..EventMax
<1>1. [type |-> type, ip |-> ip] \in Events
  BY DEF Events
<1>2. g_events' \in [0..EventMax - 1 -> Events \cup {Empty}]
  BY <1>1 DEF MonitorTypeOK, push_event
<1>3. g_event_head' \in 0..EventMax - 1
  BY SlotRange DEF MonitorTypeOK, push_event
<1>4. g_event_count' \in 0..EventMax
  <2>1. /\ g_event_count \in 0..EventMax
        /\ g_event_count' = IF g_event_count >= EventMax THEN g_event_count
                            ELSE g_event_count + 1
    BY DEF MonitorTypeOK, push_event
  <2> QED
    BY <2>1, MonitorAssumption, SMT
<1> QED
  BY <1>2, <1>3, <1>4

\* The table of connection counts stays a table, and never loses a row.
BucketsGrow == /\ g_conn_buckets' \in Seq(Bucket)
               /\ Len(g_conn_buckets') \in Len(g_conn_buckets)..ConnMax

LEMMA NewType ==
    ASSUME MonitorTypeOK, NEW ip \in Ips, NEW s \in Nat, record_new(ip, s)
    PROVE  BucketsGrow
<1>1. NewBucket(ip, s) \in Bucket
  BY DEF NewBucket, Bucket
<1>2. CASE Len(g_conn_buckets) < ConnMax
  <2>1. g_conn_buckets' = Append(g_conn_buckets, NewBucket(ip, s))
    BY <1>2 DEF record_new
  <2>2. /\ g_conn_buckets' \in Seq(Bucket)
        /\ Len(g_conn_buckets') = Len(g_conn_buckets) + 1
    BY <1>1, <2>1, AppendProperties DEF MonitorTypeOK
  <2>3. Len(g_conn_buckets) \in Nat
    BY LenProperties DEF MonitorTypeOK
  <2> QED
    BY <1>2, <2>2, <2>3, MonitorAssumption, SMT DEF BucketsGrow
<1>3. CASE ~(Len(g_conn_buckets) < ConnMax)
  <2>1. g_conn_buckets' = [g_conn_buckets EXCEPT ![Oldest] = NewBucket(ip, s)]
    BY <1>3 DEF record_new
  <2>2. /\ g_conn_buckets' \in Seq(Bucket)
        /\ Len(g_conn_buckets') = Len(g_conn_buckets)
    <3>1. CASE Oldest \in 1..Len(g_conn_buckets)
      BY <1>1, <2>1, <3>1, ExceptSeq DEF MonitorTypeOK
    <3>2. CASE Oldest \notin 1..Len(g_conn_buckets)
      <4>1. g_conn_buckets' = g_conn_buckets
        BY <2>1, <3>2, LenProperties DEF MonitorTypeOK
      <4> QED
        BY <4>1 DEF MonitorTypeOK
    <3> QED
      BY <3>1, <3>2
  <2>3. Len(g_conn_buckets) \in Nat
    BY LenProperties DEF MonitorTypeOK
  <2> QED
    BY <2>2, <2>3, MonitorAssumption, SMT DEF BucketsGrow, MonitorTypeOK
<1> QED
  BY <1>2, <1>3

\* A row is replaced by a row.
LEMMA UpdateType ==
    ASSUME MonitorTypeOK, NEW i \in DOMAIN g_conn_buckets, NEW b \in Bucket,
           g_conn_buckets' = [g_conn_buckets EXCEPT ![i] = b]
    PROVE  BucketsGrow /\ Len(g_conn_buckets') = Len(g_conn_buckets)
<1>1. i \in 1..Len(g_conn_buckets) /\ Len(g_conn_buckets) \in Nat
  BY LenProperties DEF MonitorTypeOK
<1>2. /\ g_conn_buckets' \in Seq(Bucket)
      /\ Len(g_conn_buckets') = Len(g_conn_buckets)
  BY <1>1, ExceptSeq DEF MonitorTypeOK
<1> QED
  BY <1>1, <1>2, MonitorAssumption, SMT DEF BucketsGrow, MonitorTypeOK

LEMMA TouchedType ==
    ASSUME MonitorTypeOK, NEW i \in DOMAIN g_conn_buckets, NEW s \in Nat
    PROVE  /\ Touched(i, s) \in Bucket
           /\ Touched(i, s).ip = g_conn_buckets[i].ip
           /\ Touched(i, s).last_seen_sec = s
           /\ Touched(i, s).count =
                IF g_conn_buckets[i].last_seen_sec + ConnWindow < s THEN 1
                ELSE g_conn_buckets[i].count + 1
<1>1. g_conn_buckets[i] \in Bucket
  BY ElementOfSeq, LenProperties DEF MonitorTypeOK
<1> QED
  <2> DEFINE b == g_conn_buckets[i]
             n == IF b.last_seen_sec + ConnWindow < s THEN 1 ELSE b.count + 1
  <2>1. b.ip \in Ips /\ b.last_seen_sec \in Nat /\ b.count \in Nat
    BY <1>1 DEF Bucket
  <2>2. n \in Nat
    BY <2>1, SMT
  <2>3. Touched(i, s) = [ip |-> b.ip, last_seen_sec |-> s, count |-> n]
    <3>1. Touched(i, s) = [b EXCEPT !.last_seen_sec = s, !.count = n]
      BY DEF Touched
    <3> HIDE DEF n
    <3> QED
      BY <1>1, <3>1 DEF Bucket
  <2> HIDE DEF n
  <2>4. [ip |-> b.ip, last_seen_sec |-> s, count |-> n] \in Bucket
    BY <2>1, <2>2 DEF Bucket
  <2> QED
    BY <2>3, <2>4 DEF n

MonitorInv ==
    /\ MonitorTypeOK
    /\ slot \in [Handlers -> 0..ConnMax]
    /\ \A h \in Handlers :
          pc[h] \in {"probe", "reset"} => slot[h] \in 1..Len(g_conn_buckets)

LEMMA MonitorInit == GatewayInit => MonitorInv
<1> SUFFICES ASSUME GatewayInit PROVE MonitorInv
  OBVIOUS
<1> USE MonitorAssumption
<1>1. g_events \in [0..EventMax - 1 -> Events \cup {Empty}]
  BY DEF GatewayInit, runtime_monitor_init
<1>2. g_event_head = 0 /\ g_event_count = 0 /\ g_conn_buckets = <<>>
  BY DEF GatewayInit, runtime_monitor_init
<1>3. g_conn_buckets \in Seq(Bucket) /\ Len(g_conn_buckets) = 0
  BY <1>2, EmptySeq
<1>4. slot \in [Handlers -> 0..ConnMax]
  <2>1. 0 \in 0..ConnMax
    BY SMT
  <2> QED
    BY <2>1 DEF GatewayInit
<1>5. MonitorTypeOK
  BY <1>1, <1>2, <1>3, SMT DEF MonitorTypeOK
<1> QED
  BY <1>4, <1>5 DEF GatewayInit, MonitorInv

LEMMA MonitorStep ==
    LocalsInv /\ MonitorInv /\ [GatewayNext]_gatewayVars => MonitorInv'
<1> SUFFICES ASSUME LocalsInv, MonitorInv, [GatewayNext]_gatewayVars
             PROVE  MonitorInv'
  OBVIOUS
<1>0. MonitorTypeOK /\ \A h \in Handlers : pc[h] /= "idle" => req[h].ip \in Ips
  BY RequestType DEF LocalsInv, MonitorInv
\* The steps that leave the table alone, or only make it longer.
<1>a. ASSUME MonitorTypeOK', Len(g_conn_buckets') >= Len(g_conn_buckets),
             slot' = slot,
             \A h \in Handlers : pc'[h] \in {"probe", "reset"} =>
                pc[h] \in {"probe", "reset"}
      PROVE  MonitorInv'
  <2>1. Len(g_conn_buckets) \in Nat /\ Len(g_conn_buckets') \in Nat
    BY <1>0, <1>a, LenProperties DEF MonitorTypeOK
  <2>2. 1..Len(g_conn_buckets) \subseteq 1..Len(g_conn_buckets')
    BY <1>a, <2>1, SMT
  <2> QED
    BY <1>a, <2>2 DEF MonitorInv
<1>b. ASSUME UNCHANGED <<monitorVars, slot>>,
             \A h \in Handlers : pc'[h] \in {"probe", "reset"} =>
                pc[h] \in {"probe", "reset"}
      PROVE  MonitorInv'
  BY <1>b DEF MonitorInv, MonitorTypeOK, monitorVars, Events, EventTypes, Bucket
<1>1. ASSUME NEW h \in Handlers,
             \/ Receive(h) \/ CheckForm(h) \/ CheckLimited(h) \/ CheckBody(h)
             \/ CountRead(h) \/ CountWrite(h) \/ Answered(h) \/ WebsocketEnds(h)
      PROVE  MonitorInv'
  <2>1. UNCHANGED <<monitorVars, slot>>
    BY <1>1 DEF Receive, CheckForm, CheckLimited, CheckBody, CountRead,
                CountWrite, Answered, WebsocketEnds, Done
  <2>2. \E p \in Places \ {"probe", "reset"} : pc' = [pc EXCEPT ![h] = p]
    BY <1>1 DEF Receive, CheckForm, CheckLimited, CheckBody, CountRead,
                CountWrite, Answered, WebsocketEnds, Done, Goto, Says, Places
  <2> QED
    BY <1>b, <2>1, <2>2 DEF LocalsInv
<1>2. ASSUME NEW h \in Handlers, Serve(h) PROVE MonitorInv'
  <2>1. UNCHANGED <<monitorVars, slot>>
    BY <1>2 DEF Serve, Done
  <2>2. \E p \in {"wait", "idle"} : pc' = [pc EXCEPT ![h] = p]
    BY <1>2 DEF Serve, Done, Goto
  <2> QED
    BY <1>b, <2>1, <2>2 DEF LocalsInv
<1>3. ASSUME NEW h \in Handlers, Connect(h) PROVE MonitorInv'
  <2> DEFINE ip == req[h].ip
             s == t[h]
  <2>1. /\ ip \in Ips /\ s \in Nat /\ UNCHANGED ringVars
        /\ Len(g_conn_buckets) \in Nat
    BY <1>0, <1>3, LenProperties DEF Connect, LocalsInv, MonitorTypeOK
  <2>2. ASSUME BucketsGrow PROVE MonitorTypeOK'
    BY <1>0, <2>1, <2>2, SMT DEF MonitorTypeOK, BucketsGrow, ringVars
  <2>3. CASE record_new(ip, s) /\ Goto(h, "check") /\ UNCHANGED slot
    <3>1. BucketsGrow
      BY <1>0, <2>1, <2>3, NewType
    <3>2. Len(g_conn_buckets') >= Len(g_conn_buckets)
      BY <2>1, <3>1, SMT DEF BucketsGrow
    <3> QED
      BY <1>a, <2>2, <2>3, <3>1, <3>2 DEF Goto, LocalsInv
  <2>4. ASSUME NEW i \in BucketsOf(ip), record_known(i, s),
               IF Touched(i, s).count >= ProbeThreshold
               THEN Goto(h, "probe") /\ slot' = [slot EXCEPT ![h] = i]
               ELSE Goto(h, "check") /\ UNCHANGED slot
        PROVE  MonitorInv'
    <3>1. i \in DOMAIN g_conn_buckets /\ i \in 1..Len(g_conn_buckets)
      BY <1>0, LenProperties DEF BucketsOf, MonitorTypeOK
    <3>2. BucketsGrow /\ Len(g_conn_buckets') = Len(g_conn_buckets)
      BY <1>0, <2>1, <2>4, <3>1, TouchedType, UpdateType DEF record_known
    <3>3. CASE Goto(h, "check") /\ UNCHANGED slot
      <4>1. Len(g_conn_buckets') >= Len(g_conn_buckets)
        BY <2>1, <3>2, SMT
      <4> QED
        BY <1>a, <2>2, <3>2, <3>3, <4>1 DEF Goto, LocalsInv
    <3>4. CASE Goto(h, "probe") /\ slot' = [slot EXCEPT ![h] = i]
      <4>1. i \in 0..ConnMax
        BY <2>1, <3>1, <1>0, MonitorAssumption, SMT DEF MonitorTypeOK
      <4> QED
        BY <2>2, <3>1, <3>2, <3>4, <4>1 DEF MonitorInv, Goto, LocalsInv
    <3> QED
      BY <2>4, <3>3, <3>4
  <2> QED
    BY <1>3, <2>3, <2>4 DEF Connect
<1>4. ASSUME NEW h \in Handlers, Probe(h) PROVE MonitorInv'
  <2>1. /\ req[h].ip \in Ips /\ push_event("probe", req[h].ip)
        /\ UNCHANGED <<g_conn_buckets, slot>>
        /\ pc[h] = "probe" /\ pc' = [pc EXCEPT ![h] = "reset"]
    BY <1>0, <1>4 DEF Probe, Goto
  <2>2. MonitorTypeOK'
    BY <1>0, <2>1, PushType DEF MonitorTypeOK, EventTypes
  <2> QED
    BY <2>1, <2>2 DEF MonitorInv, LocalsInv
<1>5. ASSUME NEW h \in Handlers, Reject(h) PROVE MonitorInv'
  <2>1. /\ req[h].ip \in Ips /\ push_event(EventOf(verdict[h]), req[h].ip)
        /\ UNCHANGED <<g_conn_buckets, slot>>
        /\ pc' = [pc EXCEPT ![h] = "idle"]
    BY <1>0, <1>5 DEF Reject, Done, Goto
  <2>2. EventOf(verdict[h]) \in EventTypes
    BY <1>5 DEF Reject, EventOf, EventTypes, LocalsInv, Verdicts
  <2>3. MonitorTypeOK'
    BY <1>0, <2>1, <2>2, PushType DEF MonitorTypeOK
  <2> QED
    BY <2>1, <2>3 DEF MonitorInv, LocalsInv
<1>6. ASSUME NEW h \in Handlers, ResetBucket(h) PROVE MonitorInv'
  <2> DEFINE i == slot[h]
             b == [g_conn_buckets[i] EXCEPT !.count = 0]
  <2>1. /\ i \in 1..Len(g_conn_buckets) /\ UNCHANGED ringVars
        /\ slot' = [slot EXCEPT ![h] = 0] /\ pc' = [pc EXCEPT ![h] = "check"]
        /\ g_conn_buckets' = [g_conn_buckets EXCEPT ![i] = b]
    BY <1>6 DEF ResetBucket, Goto, reset_count, MonitorInv
  <2>2. i \in DOMAIN g_conn_buckets /\ b \in Bucket
    <3>1. i \in DOMAIN g_conn_buckets /\ g_conn_buckets[i] \in Bucket
      BY <1>0, <2>1, LenProperties, ElementOfSeq DEF MonitorTypeOK
    <3> QED
      BY <3>1 DEF Bucket
  <2>3. BucketsGrow /\ Len(g_conn_buckets') = Len(g_conn_buckets)
    BY <1>0, <2>1, <2>2, UpdateType
  <2>4. MonitorTypeOK'
    BY <1>0, <2>1, <2>3 DEF MonitorTypeOK, BucketsGrow, ringVars
  <2>5. 0 \in 0..ConnMax
    BY MonitorAssumption, SMT
  <2> QED
    BY <2>1, <2>3, <2>4, <2>5 DEF MonitorInv, LocalsInv
<1>7. CASE Tick \/ UNCHANGED gatewayVars
  BY <1>b, <1>7 DEF Tick, gatewayVars, localVars
<1> QED
  BY <1>1, <1>2, <1>3, <1>4, <1>5, <1>6, <1>7 DEF GatewayNext, Handle

(***************************************************************************)
(* The ring of events is the window that its header promises.              *)
(***************************************************************************)
\* The index of an event in the ring.
Index(x) == x % EventMax

LEMMA ModSmall ==
    \A x \in Nat : x < EventMax + EventMax =>
        Index(x) = IF x < EventMax THEN x ELSE x - EventMax
<1> SUFFICES ASSUME NEW x \in Nat, x < EventMax + EventMax
             PROVE  Index(x) = IF x < EventMax THEN x ELSE x - EventMax
  OBVIOUS
<1> USE MonitorAssumption
<1>1. /\ x % EventMax \in 0..EventMax - 1
      /\ x = EventMax * (x \div EventMax) + (x % EventMax)
  BY SMT
<1>2. x \div EventMax \in {0, 1}
  BY <1>1, SMT
<1> QED
  BY <1>1, <1>2, SMT DEF Index

LEMMA SlotValue ==
    ASSUME NEW h \in 0..EventMax - 1, NEW k \in 0..EventMax
    PROVE  Index(h + k) = IF h + k < EventMax THEN h + k ELSE h + k - EventMax
<1>1. h + k \in Nat /\ h + k < EventMax + EventMax
  BY MonitorAssumption, SMT
<1> QED
  BY <1>1, ModSmall, MonitorAssumption

Kept == Events \cup {Empty}

LEMMA RecentType ==
    ASSUME MonitorTypeOK
    PROVE  /\ Recent \in Seq(Kept) /\ Len(Recent) = g_event_count
           /\ DOMAIN Recent = 1..g_event_count
           /\ g_event_count \in Nat
<1>0. g_event_count \in Nat
  BY MonitorAssumption DEF MonitorTypeOK
<1>1. \A k \in 1..g_event_count : g_events[Slot(k - 1)] \in Kept
  <2> SUFFICES ASSUME NEW k \in 1..g_event_count
               PROVE  g_events[Slot(k - 1)] \in Kept
    OBVIOUS
  <2>1. k - 1 \in Nat
    BY <1>0, SMT
  <2> QED
    BY <2>1, SlotRange DEF MonitorTypeOK, Kept
<1> QED
  BY <1>0, <1>1, IsASeq DEF Recent

LEMMA PushIsNote ==
    ASSUME MonitorTypeOK, MonitorTypeOK', NEW type \in EventTypes, NEW ip \in Ips,
           push_event(type, ip)
    PROVE  /\ Len(Recent') > 0
           /\ Recent'[Len(Recent')] = [type |-> type, ip |-> ip]
           /\ Recent' = IF Len(Recent) < EventMax
                        THEN Append(Recent, [type |-> type, ip |-> ip])
                        ELSE Append(Tail(Recent), [type |-> type, ip |-> ip])
<1> DEFINE e == [type |-> type, ip |-> ip]
           w == Slot(g_event_count)
<1> USE MonitorAssumption
<1>0. e \in Kept
  BY DEF Kept, Events
<1>1. /\ Recent \in Seq(Kept) /\ Len(Recent) = g_event_count
      /\ Recent' \in Seq(Kept) /\ Len(Recent') = g_event_count'
      /\ DOMAIN Recent' = 1..g_event_count'
  <2>1. (/\ Recent \in Seq(Kept) /\ Len(Recent) = g_event_count
         /\ DOMAIN Recent = 1..g_event_count)'
    BY RecentType, PTL
  <2> QED
    BY <2>1, RecentType DEF Kept, Events, EventTypes
<1>2. /\ g_events' = [g_events EXCEPT ![w] = e]
      /\ g_events \in [0..EventMax - 1 -> Kept]
      /\ g_event_head' = IF g_event_count >= EventMax THEN Slot(1) ELSE g_event_head
      /\ g_event_count' = IF g_event_count >= EventMax THEN g_event_count
                                                       ELSE g_event_count + 1
      /\ g_event_head \in 0..EventMax - 1 /\ g_event_count \in 0..EventMax
      /\ g_event_head' \in 0..EventMax - 1 /\ g_event_count' \in 0..EventMax
  BY DEF MonitorTypeOK, push_event, Kept
<1>a. g_event_head \in 0..EventMax - 1 /\ g_event_count \in 0..EventMax
  BY <1>2
<1>3. \A k \in 1..g_event_count' :
         Recent'[k] = g_events'[Index(g_event_head' + (k - 1))]
  BY DEF Recent, Slot, Index
<1>4. \A k \in 1..g_event_count :
         Recent[k] = g_events[Index(g_event_head + (k - 1))]
  BY DEF Recent, Slot, Index
<1>b. /\ w = Index(g_event_head + g_event_count)
      /\ Slot(1) = Index(g_event_head + 1)
  BY DEF Slot, Index
<1> HIDE DEF e, w
<1>5. CASE g_event_count < EventMax
  <2>1. /\ Append(Recent, e) \in Seq(Kept)
        /\ Len(Append(Recent, e)) = g_event_count + 1
        /\ \A k \in 1..g_event_count : Append(Recent, e)[k] = Recent[k]
        /\ Append(Recent, e)[g_event_count + 1] = e
    BY <1>0, <1>1, AppendProperties
  <2>2. g_event_head' = g_event_head /\ g_event_count' = g_event_count + 1
    BY <1>2, <1>5, SMT
  <2>3. ASSUME NEW k \in 1..g_event_count PROVE Recent'[k] = Recent[k]
    <3>1. /\ Index(g_event_head + (k - 1)) /= w
          /\ Index(g_event_head + (k - 1)) \in 0..EventMax - 1
      <4>1. k - 1 \in 0..EventMax /\ g_event_count \in 0..EventMax
        BY <1>a, SMT
      <4>2. Index(g_event_head + (k - 1)) =
              IF g_event_head + (k - 1) < EventMax THEN g_event_head + (k - 1)
              ELSE g_event_head + (k - 1) - EventMax
        BY <1>a, <4>1, SlotValue
      <4>3. w = IF g_event_head + g_event_count < EventMax
                THEN g_event_head + g_event_count
                ELSE g_event_head + g_event_count - EventMax
        BY <1>a, <1>b, SlotValue
      <4> QED
        BY <1>a, <1>5, <4>2, <4>3, SMT
    <3>2. k \in 1..g_event_count'
      BY <1>2, <2>2, SMT
    <3> QED
      BY <1>2, <1>3, <1>4, <2>2, <3>1, <3>2
  <2>4. Recent'[g_event_count + 1] = e
    <3>1. /\ Index(g_event_head + ((g_event_count + 1) - 1)) = w
          /\ w \in 0..EventMax - 1 /\ g_event_count + 1 \in 1..g_event_count'
      BY <1>a, <1>b, <1>5, <2>2, SlotValue, SMT
    <3>2. Recent'[g_event_count + 1] =
             g_events'[Index(g_event_head + ((g_event_count + 1) - 1))]
      BY <1>3, <2>2, <3>1
    <3> QED
      BY <1>2, <3>1, <3>2
  <2>5. \A k \in 1..(g_event_count + 1) : Recent'[k] = Append(Recent, e)[k]
    BY <1>2, <2>1, <2>3, <2>4, SMT
  <2>6. Recent' = Append(Recent, e)
    BY <1>1, <2>1, <2>2, <2>5, SeqEqual
  <2> QED
    BY <1>1, <1>2, <1>5, <2>2, <2>4, <2>6, SMT DEF e
<1>6. CASE g_event_count = EventMax
  <2>1. /\ Tail(Recent) \in Seq(Kept) /\ Len(Tail(Recent)) = EventMax - 1
        /\ \A k \in 1..(EventMax - 1) : Tail(Recent)[k] = Recent[k + 1]
    <3>1. Recent /= <<>>
      BY <1>1, <1>6, EmptySeq, SMT
    <3> QED
      BY <1>1, <1>6, <3>1, HeadTailProperties
  <2>2. /\ Append(Tail(Recent), e) \in Seq(Kept)
        /\ Len(Append(Tail(Recent), e)) = EventMax
        /\ \A k \in 1..(EventMax - 1) : Append(Tail(Recent), e)[k] = Recent[k + 1]
        /\ Append(Tail(Recent), e)[EventMax] = e
    <3>1. /\ Append(Tail(Recent), e) \in Seq(Kept)
          /\ Len(Append(Tail(Recent), e)) = (EventMax - 1) + 1
          /\ \A k \in 1..(EventMax - 1) :
                Append(Tail(Recent), e)[k] = Tail(Recent)[k]
          /\ Append(Tail(Recent), e)[(EventMax - 1) + 1] = e
      BY <1>0, <2>1, AppendProperties
    <3>2. (EventMax - 1) + 1 = EventMax
      BY SMT
    <3> QED
      BY <2>1, <3>1, <3>2
  <2>3. g_event_head' = Slot(1) /\ g_event_count' = EventMax
    BY <1>2, <1>6, SMT
  <2>4. w = g_event_head
    BY <1>a, <1>b, <1>6, SlotValue, SMT
  <2>5. ASSUME NEW k \in 1..(EventMax - 1) PROVE Recent'[k] = Recent[k + 1]
    <3>1. /\ Index(g_event_head' + (k - 1)) =
                Index(g_event_head + ((k + 1) - 1))
          /\ Index(g_event_head + ((k + 1) - 1)) /= g_event_head
          /\ Index(g_event_head + ((k + 1) - 1)) \in 0..EventMax - 1
      <4>1. k - 1 \in 0..EventMax /\ (k + 1) - 1 \in 0..EventMax /\ 1 \in 0..EventMax
        BY SMT
      <4>2. g_event_head' \in 0..EventMax - 1
        BY <1>2
      <4>3. g_event_head' = IF g_event_head + 1 < EventMax THEN g_event_head + 1
                            ELSE g_event_head + 1 - EventMax
        BY <1>a, <2>3, <4>1, <1>b, SlotValue
      <4>4. Index(g_event_head' + (k - 1)) =
              IF g_event_head' + (k - 1) < EventMax THEN g_event_head' + (k - 1)
              ELSE g_event_head' + (k - 1) - EventMax
        BY <4>1, <4>2, SlotValue
      <4>5. Index(g_event_head + ((k + 1) - 1)) =
              IF g_event_head + ((k + 1) - 1) < EventMax
              THEN g_event_head + ((k + 1) - 1)
              ELSE g_event_head + ((k + 1) - 1) - EventMax
        BY <1>a, <4>1, SlotValue
      <4> QED
        BY <1>a, <4>3, <4>4, <4>5, SMT
    <3>2. k \in 1..g_event_count' /\ k + 1 \in 1..g_event_count
      BY <1>6, <2>3, SMT
    <3>3. Recent'[k] = g_events'[Index(g_event_head' + (k - 1))]
      BY <1>3, <3>2
    <3>4. Recent[k + 1] = g_events[Index(g_event_head + ((k + 1) - 1))]
      BY <1>4, <3>2
    <3> QED
      BY <1>2, <2>4, <3>1, <3>3, <3>4
  <2>6. Recent'[EventMax] = e
    <3>1. /\ Index(g_event_head' + (EventMax - 1)) = g_event_head
          /\ EventMax \in 1..g_event_count'
      <4>1. EventMax - 1 \in 0..EventMax /\ 1 \in 0..EventMax
        BY SMT
      <4>2. g_event_head' \in 0..EventMax - 1
        BY <1>2
      <4>3. g_event_head' = IF g_event_head + 1 < EventMax THEN g_event_head + 1
                            ELSE g_event_head + 1 - EventMax
        BY <1>a, <2>3, <4>1, <1>b, SlotValue
      <4>4. Index(g_event_head' + (EventMax - 1)) =
              IF g_event_head' + (EventMax - 1) < EventMax
              THEN g_event_head' + (EventMax - 1)
              ELSE g_event_head' + (EventMax - 1) - EventMax
        BY <4>1, <4>2, SlotValue
      <4> QED
        BY <1>a, <2>3, <4>3, <4>4, SMT
    <3> QED
      BY <1>2, <1>3, <2>4, <3>1
  <2>7. \A k \in 1..EventMax : Recent'[k] = Append(Tail(Recent), e)[k]
    <3> SUFFICES ASSUME NEW k \in 1..EventMax
                 PROVE  Recent'[k] = Append(Tail(Recent), e)[k]
      OBVIOUS
    <3>1. k \in 1..(EventMax - 1) \/ k = EventMax
      BY SMT
    <3> QED
      BY <2>2, <2>5, <2>6, <3>1
  <2>8. Recent' = Append(Tail(Recent), e)
    BY <1>1, <2>2, <2>3, <2>7, SeqEqual
  <2> QED
    BY <1>1, <1>6, <2>3, <2>6, <2>8, SMT DEF e
<1> QED
  BY <1>2, <1>5, <1>6, SMT

LEMMA WindowStep ==
    LocalsInv /\ MonitorInv /\ MonitorInv' /\ [GatewayNext]_gatewayVars
        => [Window!WindowNext]_Recent
<1> SUFFICES ASSUME LocalsInv, MonitorInv, MonitorInv', [GatewayNext]_gatewayVars
             PROVE  [Window!WindowNext]_Recent
  OBVIOUS
<1>0. MonitorTypeOK /\ MonitorTypeOK'
  BY DEF MonitorInv
<1>1. ASSUME UNCHANGED ringVars PROVE Recent' = Recent
  BY <1>1 DEF ringVars, Recent, Slot
<1>2. ASSUME NEW type \in EventTypes, NEW ip \in Ips, push_event(type, ip)
      PROVE  Window!WindowNext
  <2> DEFINE e == [type |-> type, ip |-> ip]
  <2>1. /\ Len(Recent') > 0 /\ Recent'[Len(Recent')] = e
        /\ Recent' = IF Len(Recent) < EventMax THEN Append(Recent, e)
                     ELSE Append(Tail(Recent), e)
    BY <1>0, <1>2, PushIsNote
  <2>2. Window!Last(Recent') = e /\ e \in Events
    BY <2>1 DEF Window!Last, Events
  <2>3. Recent' /= <<>>
    BY <2>1, SMT
  <2> QED
    BY <2>1, <2>2, <2>3 DEF Window!WindowNext, Window!Note
<1>3. ASSUME NEW h \in Handlers, Probe(h) PROVE Window!WindowNext
  <2>1. req[h].ip \in Ips /\ "probe" \in EventTypes
    BY <1>3, RequestType DEF Probe, LocalsInv, EventTypes
  <2> QED
    BY <1>2, <1>3, <2>1 DEF Probe
<1>4. ASSUME NEW h \in Handlers, Reject(h) PROVE Window!WindowNext
  <2>1. req[h].ip \in Ips
    BY <1>4, RequestType DEF Reject, LocalsInv
  <2>2. EventOf(verdict[h]) \in EventTypes
    BY <1>4 DEF Reject, EventOf, EventTypes, LocalsInv, Verdicts
  <2> QED
    BY <1>2, <1>4, <2>1, <2>2 DEF Reject
<1>5. CASE \/ Tick \/ UNCHANGED gatewayVars
           \/ \E h \in Handlers :
                 \/ Receive(h) \/ Connect(h) \/ ResetBucket(h) \/ CheckForm(h)
                 \/ CheckLimited(h) \/ CheckBody(h) \/ CountRead(h)
                 \/ CountWrite(h) \/ Serve(h) \/ Answered(h) \/ WebsocketEnds(h)
  <2>1. UNCHANGED ringVars
    BY <1>5 DEF Tick, gatewayVars, Receive, Connect, ResetBucket, CheckForm,
      CheckLimited, CheckBody, CountRead, CountWrite, Serve, Answered,
      WebsocketEnds, monitorVars, ringVars
  <2> QED
    BY <1>1, <2>1
<1> QED
  BY <1>3, <1>4, <1>5 DEF GatewayNext, Handle

LEMMA MonitorsCorrect == GatewaySpec => [](LocalsInv /\ MonitorInv)
<1>1. QED
  BY LocalsInit, MonitorInit, LocalsStep, MonitorStep, PTL DEF GatewaySpec

\* runtime_monitor_event keeps the promise of its header: the ring always holds
\* the last EventMax events in order, for every size of the ring and however
\* often it wraps, whichever handlers push into it.
THEOREM RingKeepsWindow == GatewaySpec => RingIsWindow
<1>1. GatewayInit => Window!WindowInit
  <2> SUFFICES ASSUME GatewayInit PROVE Recent = <<>>
    BY DEF Window!WindowInit
  <2>1. MonitorTypeOK /\ g_event_count = 0
    BY MonitorInit DEF MonitorInv, GatewayInit, runtime_monitor_init
  <2> QED
    BY <2>1, RecentType, EmptySeq
<1> QED
  BY <1>1, WindowStep, MonitorsCorrect, PTL
  DEF GatewaySpec, RingIsWindow, Window!WindowSpec

(***************************************************************************)
(* What an agent is told: the ring read backwards.                         *)
(***************************************************************************)
LEMMA IndexAround == \A x \in Nat : Index(x + EventMax) = Index(x)
<1> SUFFICES ASSUME NEW x \in Nat PROVE (x + EventMax) % EventMax = x % EventMax
  BY DEF Index
<1> USE MonitorAssumption
<1>1. /\ x % EventMax \in 0..EventMax - 1 /\ x \div EventMax \in Nat
      /\ x = EventMax * (x \div EventMax) + (x % EventMax)
  BY SMT
<1>2. /\ (x + EventMax) % EventMax \in 0..EventMax - 1
      /\ (x + EventMax) \div EventMax \in Nat
      /\ x + EventMax = EventMax * ((x + EventMax) \div EventMax)
                          + ((x + EventMax) % EventMax)
  BY SMT
<1>3. ASSUME NEW a \in Nat, NEW b \in Nat, NEW r \in 0..EventMax - 1,
             NEW q \in 0..EventMax - 1,
             EventMax * a + EventMax + r = EventMax * b + q
      PROVE  r = q
  <2>1. EventMax * (b - a - 1) = r - q
    BY <1>3, SMT
  <2>2. b - a - 1 = 0 \/ b - a - 1 >= 1 \/ b - a - 1 <= 0 - 1
    BY SMT
  <2>3. b - a - 1 >= 1 => EventMax * (b - a - 1) >= EventMax
    BY SMT
  <2>4. b - a - 1 <= 0 - 1 => EventMax * (b - a - 1) <= 0 - EventMax
    BY SMT
  <2> QED
    BY <2>1, <2>2, <2>3, <2>4, SMT
<1>4. EventMax * (x \div EventMax) + EventMax + (x % EventMax) =
        EventMax * ((x + EventMax) \div EventMax) + ((x + EventMax) % EventMax)
  BY <1>1, <1>2, SMT
<1> QED
  BY <1>1, <1>2, <1>3, <1>4

LEMMA AgentStep == MonitorTypeOK => AgentSeesNewest
<1> SUFFICES ASSUME MonitorTypeOK PROVE AgentSeesNewest
  OBVIOUS
<1> USE MonitorAssumption
<1> DEFINE c == g_event_count
           n == IF c > AgentEvents THEN AgentEvents ELSE c
           S == SubSeq(Recent, c - n + 1, c)
<1>1. /\ c \in Nat /\ n \in Nat /\ n <= c
      /\ g_event_head \in 0..EventMax - 1 /\ c <= EventMax
  BY SMT DEF MonitorTypeOK
<1>2. Recent \in Seq(Kept) /\ Len(Recent) = c /\ DOMAIN Recent = 1..c
  BY RecentType
<1> HIDE DEF n, c
<1>3. /\ Len(S) = n
      /\ \A i \in 1..n : S[i] = Recent[c - n + 1 + i - 1]
  <2>1. \A i \in (c - n + 1)..c : i \in 1..c
    BY <1>1, SMT
  <2>2. \A i \in (c - n + 1)..c : Recent[i] \in Kept
    BY <1>2, <2>1, ElementOfSeq
  <2>3. c - n + 1 \in Int /\ c \in Int
    BY <1>1, SMT
  <2>4. /\ Len(S) = IF c - n + 1 <= c THEN c - (c - n + 1) + 1 ELSE 0
        /\ \A i \in 1..(c - (c - n + 1) + 1) : S[i] = Recent[c - n + 1 + i - 1]
    BY <2>2, <2>3, SubSeqProperties
  <2>5. c - (c - n + 1) + 1 = n
    BY <1>1, SMT
  <2> QED
    BY <1>1, <2>4, <2>5, SMT
<1> HIDE DEF S
<1>4. ASSUME NEW k \in 1..n PROVE newest(k) = S[(n - k) + 1]
  <2>1. /\ (n - k) + 1 \in 1..n
        /\ c - n + 1 + ((n - k) + 1) - 1 = c - k + 1
        /\ c - k + 1 \in 1..c
    BY <1>1, SMT
  <2>2. S[(n - k) + 1] = Recent[c - k + 1]
    BY <1>3, <2>1
  <2>3. Recent[c - k + 1] = g_events[Index(g_event_head + ((c - k + 1) - 1))]
    BY <2>1 DEF Recent, Slot, Index, c
  <2>4. /\ g_event_head + ((c - k + 1) - 1) \in Nat
        /\ g_event_head + c - k + EventMax =
              g_event_head + ((c - k + 1) - 1) + EventMax
    BY <1>1, SMT
  <2>5. newest(k) = g_events[Index(g_event_head + c - k + EventMax)]
    BY DEF newest, Index, c
  <2> QED
    BY <2>2, <2>3, <2>4, <2>5, IndexAround
<1>5. AgentView = [k \in 1..n |-> newest(k)]
  BY DEF AgentView, n, c
<1>6. Reverse(S) = [k \in 1..n |-> S[(n - k) + 1]]
  BY <1>3 DEF Reverse
<1>7. AgentView = Reverse(S)
  BY <1>4, <1>5, <1>6
<1> QED
  BY <1>2, <1>7 DEF AgentSeesNewest, S, n

(***************************************************************************)
(* The counters.  A request is counted by the limiter, or as a rejection,  *)
(* at most once, when its handler leaves the checks behind.                *)
(***************************************************************************)
Before == {h \in Handlers : pc[h] \in {"connect", "probe", "reset", "check"}}
UnderWay(c) == {h \in Handlers : verdict[h] = c /\ pc[h] \in {"count", "counted"}}

RateBucket == [ip : Ips \cup {""}, count : Nat, window_end : Nat]

LEMMA HandlersFinite ==
    ASSUME NEW S, S \subseteq Handlers
    PROVE  IsFiniteSet(S) /\ Cardinality(S) \in Nat
           /\ Cardinality(S) <= Cardinality(Handlers)
BY GatewayAssumption, FS_Subset, FS_CardinalityType

LEMMA AddOne ==
    ASSUME NEW S, NEW T, S \subseteq Handlers, NEW h \in Handlers, h \notin S,
           T = S \cup {h}
    PROVE  Cardinality(T) = Cardinality(S) + 1
BY HandlersFinite, FS_AddElement

LEMMA TakeOne ==
    ASSUME NEW S, NEW T, S \subseteq Handlers, NEW h \in S, T = S \ {h}
    PROVE  Cardinality(T) = Cardinality(S) - 1
BY HandlersFinite, FS_RemoveElement

\* Where the steps move their handler.
LEMMA Moves ==
    ASSUME LocalsInv, NEW h \in Handlers
    PROVE  /\ Receive(h) => /\ h \notin Before /\ Before' = Before \cup {h}
                            /\ \A c \in Counters : UnderWay(c)' = UnderWay(c)
           /\ Connect(h) \/ Probe(h) \/ ResetBucket(h) =>
                 Before' = Before /\ \A c \in Counters : UnderWay(c)' = UnderWay(c)
           /\ CheckForm(h) \/ CheckLimited(h) \/ CheckBody(h) =>
                 h \in Before /\ Before' = Before \ {h}
           /\ CheckForm(h) => \A c \in Counters : UnderWay(c)' = UnderWay(c)
           /\ CountRead(h) =>
                 Before' = Before /\ \A c \in Counters : UnderWay(c)' = UnderWay(c)
           /\ CountWrite(h) =>
                 /\ Before' = Before /\ h \in UnderWay(verdict[h])
                 /\ UnderWay(verdict[h])' = UnderWay(verdict[h]) \ {h}
                 /\ \A c \in Counters \ {verdict[h]} : UnderWay(c)' = UnderWay(c)
           /\ Reject(h) \/ Serve(h) \/ Answered(h) \/ WebsocketEnds(h) =>
                 Before' = Before /\ \A c \in Counters : UnderWay(c)' = UnderWay(c)
<1> USE DEF LocalsInv, Before, UnderWay, Goto
<1>1. Receive(h) => /\ h \notin Before /\ Before' = Before \cup {h}
                    /\ \A c \in Counters : UnderWay(c)' = UnderWay(c)
  BY DEF Receive
<1>2. Connect(h) \/ Probe(h) \/ ResetBucket(h) =>
         Before' = Before /\ \A c \in Counters : UnderWay(c)' = UnderWay(c)
  BY DEF Connect, Probe, ResetBucket
<1>3. CheckForm(h) \/ CheckLimited(h) \/ CheckBody(h) =>
         h \in Before /\ Before' = Before \ {h}
  BY DEF CheckForm, CheckLimited, CheckBody, Says
<1>4. CheckForm(h) => \A c \in Counters : UnderWay(c)' = UnderWay(c)
  BY DEF CheckForm, Says
<1>5. CountRead(h) =>
         Before' = Before /\ \A c \in Counters : UnderWay(c)' = UnderWay(c)
  BY DEF CountRead
<1>6. CountWrite(h) =>
         /\ Before' = Before /\ h \in UnderWay(verdict[h])
         /\ UnderWay(verdict[h])' = UnderWay(verdict[h]) \ {h}
         /\ \A c \in Counters \ {verdict[h]} : UnderWay(c)' = UnderWay(c)
  BY DEF CountWrite
<1>7. Reject(h) \/ Serve(h) \/ Answered(h) \/ WebsocketEnds(h) =>
         Before' = Before /\ \A c \in Counters : UnderWay(c)' = UnderWay(c)
  BY DEF Reject, Serve, Answered, WebsocketEnds, Done
<1> QED
  BY <1>1, <1>2, <1>3, <1>4, <1>5, <1>6, <1>7

LEMMA RateNat == RateLimit \in Nat /\ RateWindow \in Nat /\ RateWindow > 0
<1>1. RateLimit \in Nat /\ RateWindow \in Nat \ {0}
  BY RateAssumption
<1> QED
  BY <1>1, SMT

LEMMA CountedType ==
    ASSUME g_rate_buckets \in [RateBuckets -> RateBucket], now \in Nat, NEW ip \in Ips
    PROVE  /\ hash_ip[ip] \in RateBuckets
           /\ Counted(ip, now) \in RateBucket
           /\ Counted(ip, now).count \in
                {1, g_rate_buckets[hash_ip[ip]].count + 1}
<1> DEFINE b == g_rate_buckets[hash_ip[ip]]
<1>1. hash_ip[ip] \in RateBuckets
  BY RateAssumption, GatewayAssumption
<1>2. b \in RateBucket
  BY <1>1
<1>3. b.count + 1 \in Nat /\ now + RateWindow \in Nat
  <2>1. b.count \in Nat
    BY <1>2 DEF RateBucket
  <2> QED
    BY <2>1, RateNat, SMT
<1>4. CASE b.window_end <= now \/ b.ip /= ip
  <2> DEFINE e == now + RateWindow
  <2>1. Counted(ip, now) = [ip |-> ip, count |-> 1, window_end |-> e]
    BY <1>4 DEF Counted
  <2>2. e \in Nat /\ 1 \in Nat
    BY <1>3
  <2> HIDE DEF e
  <2> QED
    <3>1. [ip |-> ip, count |-> 1, window_end |-> e] \in RateBucket
      BY <2>2, Zenon DEF RateBucket
    <3>2. Counted(ip, now).count = 1
      BY <2>1
    <3> QED
      BY <1>1, <2>1, <3>1, <3>2
<1>5. CASE ~(b.window_end <= now \/ b.ip /= ip)
  <2>1. Counted(ip, now) = [b EXCEPT !.count = b.count + 1]
    BY <1>5 DEF Counted
  <2> QED
    BY <1>1, <1>2, <1>3, <2>1 DEF RateBucket
<1> QED
  BY <1>4, <1>5

LimitInv ==
    /\ g_rate_buckets \in [RateBuckets -> RateBucket]
    /\ rejected \in [Counters -> Nat]
    /\ \A b \in RateBuckets :
          g_rate_buckets[b].count + Cardinality(Before) <= received
    /\ \A c \in Counters : rejected[c] + Cardinality(Before) <= received

LEMMA LimitInit == GatewayInit => LimitInv
<1> SUFFICES ASSUME GatewayInit PROVE LimitInv
  OBVIOUS
<1>1. Cardinality(Before) = 0
  <2>1. Before = {}
    BY DEF Before, GatewayInit
  <2> QED
    BY <2>1, FS_EmptySet
<1>2. g_rate_buckets = [b \in RateBuckets |-> [ip |-> "", count |-> 0, window_end |-> 0]]
  BY DEF GatewayInit, security_monitor_init
<1>3. g_rate_buckets \in [RateBuckets -> RateBucket]
  BY <1>2, Zenon DEF RateBucket
<1>4. rejected = [c \in Counters |-> 0] /\ received = 0
  BY DEF GatewayInit
<1>5. \A b \in RateBuckets : g_rate_buckets[b].count = 0
  BY <1>2
<1>6. \A b \in RateBuckets : g_rate_buckets[b].count + Cardinality(Before) <= received
  BY <1>1, <1>4, <1>5, SMT
<1>7. \A c \in Counters : rejected[c] + Cardinality(Before) <= received
  BY <1>1, <1>4, SMT
<1> QED
  BY <1>3, <1>4, <1>6, <1>7 DEF LimitInv

LEMMA LimitStep ==
    LocalsInv /\ LimitInv /\ [GatewayNext]_gatewayVars => LimitInv'
<1> SUFFICES ASSUME LocalsInv, LimitInv, [GatewayNext]_gatewayVars PROVE LimitInv'
  OBVIOUS
<1> DEFINE n == Cardinality(Before)
<1>0. /\ n \in Nat /\ Cardinality(Before') \in Nat /\ received \in Nat /\ now \in Nat
      /\ \A b \in RateBuckets : g_rate_buckets[b].count \in Nat
      /\ \A c \in Counters : rejected[c] \in Nat
  <2>1. n \in Nat /\ Cardinality(Before') \in Nat
    BY HandlersFinite DEF Before
  <2>2. received \in Nat /\ now \in Nat
    <3>1. now \in 0..MaxTime /\ received \in 0..MaxRequests
      BY DEF LocalsInv
    <3> QED
      BY <3>1, BoundsNat
  <2>3. \A b \in RateBuckets : g_rate_buckets[b].count \in Nat
    BY DEF LimitInv, RateBucket
  <2> QED
    BY <2>1, <2>2, <2>3 DEF LimitInv
<1>1. ASSUME UNCHANGED <<g_rate_buckets, rejected, received>>, Before' = Before
      PROVE  LimitInv'
  BY <1>1 DEF LimitInv, RateBucket
<1>2. ASSUME NEW h \in Handlers, Receive(h) PROVE LimitInv'
  <2>1. Cardinality(Before') = n + 1
    BY <1>2, Moves, AddOne DEF Before
  <2>2. received' = received + 1 /\ UNCHANGED <<g_rate_buckets, rejected>>
    BY <1>2 DEF Receive, secmonVars, ghostVars
  <2>3. \A b \in RateBuckets :
           g_rate_buckets[b].count + Cardinality(Before') <= received'
    BY <1>0, <2>1, <2>2, SMT DEF LimitInv
  <2>4. \A c \in Counters : rejected[c] + Cardinality(Before') <= received'
    BY <1>0, <2>1, <2>2, SMT DEF LimitInv
  <2> QED
    BY <2>2, <2>3, <2>4 DEF LimitInv, RateBucket
<1>3. ASSUME NEW h \in Handlers, CheckForm(h) \/ CheckLimited(h) \/ CheckBody(h)
      PROVE  LimitInv'
  <2>1. Cardinality(Before') = n - 1
    BY <1>3, Moves, TakeOne DEF Before
  <2>2. received' = received /\ req[h].ip \in Ips
    BY <1>3, RequestType
    DEF CheckForm, CheckLimited, CheckBody, LocalsInv
  <2>3. /\ rejected' \in [Counters -> Nat]
        /\ \A c \in Counters : rejected'[c] \in {rejected[c], rejected[c] + 1}
    <3>1. \/ rejected' = rejected
          \/ \E c \in Counters : rejected' = [rejected EXCEPT ![c] = @ + 1]
      BY <1>3 DEF CheckForm, CheckLimited, CheckBody, ghostVars, Counters
    <3>2. rejected \in [Counters -> Nat] /\ \A m \in Nat : m + 1 \in Nat
      BY DEF LimitInv
    <3> QED
      BY <3>1, <3>2
  <2>4. \A c \in Counters : rejected'[c] + Cardinality(Before') <= received'
    <3> SUFFICES ASSUME NEW c \in Counters
                 PROVE  rejected'[c] + Cardinality(Before') <= received'
      OBVIOUS
    <3>1. rejected[c] + n <= received
      BY DEF LimitInv
    <3> QED
      BY <1>0, <2>1, <2>2, <2>3, <3>1, SMT
  <2>5. CASE UNCHANGED g_rate_buckets
    <3>1. \A b \in RateBuckets :
             g_rate_buckets[b].count + Cardinality(Before') <= received'
      BY <1>0, <2>1, <2>2, SMT DEF LimitInv
    <3> QED
      BY <2>3, <2>4, <2>5, <3>1 DEF LimitInv, RateBucket
  <2>6. CASE count_request(req[h].ip, now)
    <3> DEFINE x == hash_ip[req[h].ip]
               y == Counted(req[h].ip, now)
    <3>1. x \in RateBuckets /\ y \in RateBucket
          /\ y.count \in {1, g_rate_buckets[x].count + 1}
      BY <1>0, <2>2, CountedType DEF LimitInv
    <3>2. g_rate_buckets' = [g_rate_buckets EXCEPT ![x] = y]
      BY <2>6 DEF count_request
    <3> HIDE DEF x, y
    <3>3. g_rate_buckets' \in [RateBuckets -> RateBucket]
      BY <3>1, <3>2 DEF LimitInv
    <3>4. ASSUME NEW b \in RateBuckets
          PROVE  g_rate_buckets'[b].count + Cardinality(Before') <= received'
      <4>1. g_rate_buckets[b].count + n <= received
        BY DEF LimitInv
      <4>2. g_rate_buckets'[b].count \in
              {g_rate_buckets[b].count, 1, g_rate_buckets[b].count + 1}
        BY <3>1, <3>2 DEF LimitInv
      <4> QED
        BY <1>0, <2>1, <2>2, <4>1, <4>2, SMT
    <3> QED
      BY <2>3, <2>4, <3>3, <3>4 DEF LimitInv, RateBucket
  <2> QED
    BY <1>3, <2>5, <2>6 DEF CheckForm, CheckLimited, CheckBody, secmonVars
<1>4. ASSUME NEW h \in Handlers,
             \/ Connect(h) \/ Probe(h) \/ ResetBucket(h) \/ CountRead(h)
             \/ CountWrite(h) \/ Reject(h) \/ Serve(h) \/ Answered(h)
             \/ WebsocketEnds(h)
      PROVE  LimitInv'
  <2>1. Before' = Before
    BY <1>4, Moves
  <2>2. UNCHANGED <<g_rate_buckets, rejected, received>>
    BY <1>4 DEF Connect, Probe, ResetBucket, CountRead, CountWrite, Reject,
                Serve, Answered, WebsocketEnds, secmonVars, ghostVars
  <2> QED
    BY <1>1, <2>1, <2>2
<1>5. CASE Tick \/ UNCHANGED gatewayVars
  <2>1. Before' = Before /\ UNCHANGED <<g_rate_buckets, rejected, received>>
    BY <1>5 DEF Tick, gatewayVars, localVars, secmonVars, ghostVars, Before
  <2> QED
    BY <1>1, <2>1
<1> QED
  BY <1>2, <1>3, <1>4, <1>5 DEF GatewayNext, Handle

(***************************************************************************)
(* An increment that is lost is made up for by the handler that lost it:   *)
(* a counter and what was read of it stay below the rejections that were   *)
(* begun by as many as are still under way.                                *)
(***************************************************************************)
RejectOk(c) ==
    /\ g_rejects[c] + Cardinality(UnderWay(c)) <= rejected[c]
    /\ \A h \in Handlers : pc[h] = "counted" /\ verdict[h] = c =>
          read[h] + Cardinality(UnderWay(c)) <= rejected[c]
    /\ rejected[c] = 0 \/ g_rejects[c] > 0 \/ UnderWay(c) /= {}
    /\ metrics[c] + Cardinality(UnderWay(c)) <= rejected[c]
    /\ MetricCount < MaxMetrics =>
          metrics[c] + Cardinality(UnderWay(c)) = rejected[c]

RejectInv ==
    /\ rejected \in [Counters -> Nat]
    /\ metrics \in [MetricNames -> Nat] /\ MetricCount <= MaxMetrics
    /\ \A c \in Counters : RejectOk(c)

LEMMA RejectInit == GatewayInit => RejectInv
<1> SUFFICES ASSUME GatewayInit PROVE RejectInv
  OBVIOUS
<1>1. \A c \in Counters : UnderWay(c) = {}
  BY DEF UnderWay, GatewayInit
<1>2. \A c \in Counters : Cardinality(UnderWay(c)) = 0
  BY <1>1, FS_EmptySet
<1>3. /\ rejected = [c \in Counters |-> 0] /\ g_rejects = [c \in Counters |-> 0]
      /\ metrics = [c \in MetricNames |-> 0] /\ \A h \in Handlers : pc[h] = "idle"
  BY DEF GatewayInit, security_monitor_init, observability_init
<1>4. \A c \in Counters : g_rejects[c] = 0 /\ rejected[c] = 0 /\ metrics[c] = 0
  BY <1>3 DEF Counters, MetricNames
<1>5. metrics \in [MetricNames -> Nat] /\ MetricCount <= MaxMetrics
  BY <1>3, MetricsAssumption, SMT DEF MetricNames, MetricCount
<1>6. rejected \in [Counters -> Nat]
  BY <1>3
<1> QED
  BY <1>2, <1>3, <1>4, <1>5, <1>6 DEF RejectInv, RejectOk

LEMMA RecordAdds ==
    ASSUME metrics \in [MetricNames -> Nat], MetricCount <= MaxMetrics,
           NEW n \in MetricNames, observability_record(n)
    PROVE  /\ metrics' \in [MetricNames -> Nat] /\ MetricCount' <= MaxMetrics
           /\ metrics'[n] \in {metrics[n], metrics[n] + 1}
           /\ \A m \in MetricNames \ {n} : metrics'[m] = metrics[m]
           /\ MetricCount' < MaxMetrics =>
                 MetricCount < MaxMetrics /\ metrics'[n] = metrics[n] + 1
<1> USE MetricsAssumption
<1>0. MetricCount \in Nat /\ \A m \in MetricNames : metrics[m] \in Nat
  BY SMT DEF MetricCount, MetricNames
<1>1. CASE MetricCount >= MaxMetrics
  <2>1. metrics' = metrics
    BY <1>1 DEF observability_record
  <2>2. MetricCount' = MetricCount
    BY <2>1 DEF MetricCount
  <2> QED
    BY <1>0, <1>1, <2>1, <2>2, SMT
<1>2. CASE ~(MetricCount >= MaxMetrics)
  <2>1. metrics' = [metrics EXCEPT ![n] = metrics[n] + 1]
    BY <1>2 DEF observability_record
  <2>2. metrics' \in [MetricNames -> Nat]
    BY <1>0, <2>1, SMT
  <2>3. MetricCount' = MetricCount + 1
    BY <1>0, <2>1, SMT DEF MetricCount, MetricNames
  <2> QED
    BY <1>0, <1>2, <2>1, <2>2, <2>3, SMT
<1> QED
  BY <1>1, <1>2

LEMMA RejectStep ==
    LocalsInv /\ RejectInv /\ [GatewayNext]_gatewayVars => RejectInv'
<1> SUFFICES ASSUME LocalsInv, RejectInv, [GatewayNext]_gatewayVars
             PROVE  RejectInv'
  OBVIOUS
<1>0. /\ \A c \in Counters : /\ Cardinality(UnderWay(c)) \in Nat
                             /\ Cardinality(UnderWay(c)') \in Nat
                             /\ rejected[c] \in Nat /\ g_rejects[c] \in Nat
                             /\ metrics[c] \in Nat
      /\ MaxMetrics \in Nat /\ MetricCount \in Nat
      /\ \A h \in Handlers : read[h] \in Nat
  <2>1. \A c \in Counters : /\ Cardinality(UnderWay(c)) \in Nat
                            /\ Cardinality(UnderWay(c)') \in Nat
    BY HandlersFinite DEF UnderWay
  <2>2. \A c \in Counters :
           rejected[c] \in Nat /\ g_rejects[c] \in Nat /\ metrics[c] \in Nat
    BY DEF RejectInv, LocalsInv, Counters, MetricNames
  <2>3. MetricCount \in Nat
    BY SMT DEF RejectInv, MetricCount, MetricNames
  <2>4. \A h \in Handlers : read[h] \in Nat
    BY DEF LocalsInv
  <2> QED
    BY <2>1, <2>2, <2>3, <2>4, MetricsAssumption
\* The steps of handlers that reject nothing.
<1>1. ASSUME UNCHANGED <<rejected, g_rejects, read, metrics>>,
             \A c \in Counters : UnderWay(c)' = UnderWay(c),
             \A h \in Handlers : pc'[h] = "counted" =>
                pc[h] = "counted" /\ verdict'[h] = verdict[h]
      PROVE  RejectInv'
  BY <1>1 DEF RejectInv, RejectOk, MetricCount
<1>2. ASSUME NEW h \in Handlers,
             \/ Receive(h) \/ Connect(h) \/ Probe(h) \/ ResetBucket(h)
             \/ CheckForm(h) \/ Reject(h) \/ Answered(h) \/ WebsocketEnds(h)
      PROVE  RejectInv'
  <2>1. \A c \in Counters : UnderWay(c)' = UnderWay(c)
    BY <1>2, Moves
  <2>2. UNCHANGED <<rejected, g_rejects, read, metrics>>
    BY <1>2 DEF Receive, Connect, Probe, ResetBucket, CheckForm, Reject,
                Answered, WebsocketEnds, Done, secmonVars, ghostVars
  <2>3. \A k \in Handlers : pc'[k] = "counted" =>
           pc[k] = "counted" /\ verdict'[k] = verdict[k]
    BY <1>2 DEF Receive, Connect, Probe, ResetBucket, CheckForm, Reject,
                Answered, WebsocketEnds, Done, Says, Goto, LocalsInv
  <2> QED
    BY <1>1, <2>1, <2>2, <2>3
<1>3. ASSUME NEW h \in Handlers, NEW c \in Counters,
             h \notin UnderWay(c), UnderWay(c)' = UnderWay(c) \cup {h},
             \A d \in Counters \ {c} : UnderWay(d)' = UnderWay(d),
             rejected' = [rejected EXCEPT ![c] = @ + 1],
             UNCHANGED <<g_rejects, read, metrics>>,
             \A k \in Handlers : pc'[k] = "counted" =>
                pc[k] = "counted" /\ verdict'[k] = verdict[k]
      PROVE  RejectInv'
  <2>1. /\ Cardinality(UnderWay(c)') = Cardinality(UnderWay(c)) + 1
        /\ UnderWay(c)' /= {}
    BY <1>3, AddOne DEF UnderWay
  <2>2. rejected' \in [Counters -> Nat] /\ rejected'[c] = rejected[c] + 1
    BY <1>0, <1>3, SMT DEF RejectInv
  <2>3. \A d \in Counters \ {c} : rejected'[d] = rejected[d]
    BY <1>3 DEF RejectInv
  <2>4. /\ metrics' \in [MetricNames -> Nat] /\ MetricCount' <= MaxMetrics
        /\ MetricCount' = MetricCount
    BY <1>3 DEF RejectInv, MetricCount
  <2>5. RejectOk(c)'
    <3> DEFINE u == Cardinality(UnderWay(c))
               v == Cardinality(UnderWay(c)')
    <3>1. /\ RejectOk(c) /\ v = u + 1 /\ u \in Nat /\ rejected'[c] = rejected[c] + 1
          /\ rejected[c] \in Nat /\ g_rejects[c] \in Nat /\ metrics[c] \in Nat
          /\ g_rejects'[c] = g_rejects[c] /\ metrics'[c] = metrics[c]
      BY <1>0, <1>3, <2>1, <2>2 DEF RejectInv
    <3>2. g_rejects'[c] + v <= rejected'[c]
      BY <3>1, SMT DEF RejectOk
    <3>3. ASSUME NEW k \in Handlers, pc'[k] = "counted", verdict'[k] = c
          PROVE  read'[k] + v <= rejected'[c]
      <4>1. read[k] + u <= rejected[c] /\ read'[k] = read[k] /\ read[k] \in Nat
        BY <1>0, <1>3, <3>1, <3>3 DEF RejectOk
      <4> QED
        BY <3>1, <4>1, SMT
    <3>4. metrics'[c] + v <= rejected'[c]
      BY <3>1, SMT DEF RejectOk
    <3>5. MetricCount' < MaxMetrics => metrics'[c] + v = rejected'[c]
      BY <2>4, <3>1, SMT DEF RejectOk
    <3> QED
      BY <2>1, <3>2, <3>3, <3>4, <3>5 DEF RejectOk
  <2>6. ASSUME NEW d \in Counters, d /= c PROVE RejectOk(d)'
    <3>1. RejectOk(d)
      BY DEF RejectInv
    <3> QED
      BY <1>3, <2>3, <2>4, <2>6, <3>1 DEF RejectOk
  <2> QED
    BY <2>2, <2>4, <2>5, <2>6 DEF RejectInv
<1>4. ASSUME NEW h \in Handlers, CheckLimited(h) PROVE RejectInv'
  <2>1. /\ "limited" \in Counters /\ h \notin UnderWay("limited")
        /\ UnderWay("limited")' = UnderWay("limited") \cup {h}
        /\ \A d \in Counters \ {"limited"} : UnderWay(d)' = UnderWay(d)
    BY <1>4 DEF CheckLimited, Says, Goto, UnderWay, Counters, LocalsInv
  <2>2. \A k \in Handlers : pc'[k] = "counted" =>
           pc[k] = "counted" /\ verdict'[k] = verdict[k]
    BY <1>4 DEF CheckLimited, Says, Goto, LocalsInv
  <2> QED
    BY <1>3, <1>4, <2>1, <2>2 DEF CheckLimited
<1>5. ASSUME NEW h \in Handlers, CheckBody(h) PROVE RejectInv'
  <2>1. /\ UNCHANGED <<g_rejects, read, metrics>>
        /\ \A k \in Handlers : pc'[k] = "counted" =>
              pc[k] = "counted" /\ verdict'[k] = verdict[k]
    BY <1>5 DEF CheckBody, Says, Goto, LocalsInv
  <2>2. CASE /\ Says(h, "injection", "count")
             /\ rejected' = [rejected EXCEPT !["injection"] = @ + 1]
    <3>1. /\ "injection" \in Counters /\ h \notin UnderWay("injection")
          /\ UnderWay("injection")' = UnderWay("injection") \cup {h}
          /\ \A d \in Counters \ {"injection"} : UnderWay(d)' = UnderWay(d)
      BY <1>5, <2>2 DEF CheckBody, Says, Goto, UnderWay, Counters, LocalsInv
    <3> QED
      BY <1>3, <2>1, <2>2, <3>1
  <2>3. CASE UNCHANGED rejected /\ \E v \in Verdicts, p \in {"reject", "serve", "websocket"} : Says(h, v, p)
    <3>1. \A c \in Counters : UnderWay(c)' = UnderWay(c)
      BY <1>5, <2>3 DEF CheckBody, Says, Goto, UnderWay, LocalsInv
    <3> QED
      BY <1>1, <2>1, <2>3, <3>1
  <2> QED
    BY <1>5, <2>2, <2>3 DEF CheckBody, Verdicts
<1>6. ASSUME NEW h \in Handlers, CountRead(h) PROVE RejectInv'
  <2>1. /\ \A c \in Counters : UnderWay(c)' = UnderWay(c)
        /\ UNCHANGED <<rejected, g_rejects, metrics, verdict>>
        /\ verdict[h] \in Counters
    BY <1>6, Moves DEF CountRead, secmonVars, ghostVars, LocalsInv
  <2>2. ASSUME NEW c \in Counters PROVE RejectOk(c)'
    <3>1. RejectOk(c)
      BY DEF RejectInv
    <3>2. ASSUME NEW k \in Handlers, pc'[k] = "counted", verdict'[k] = c
          PROVE  read'[k] + Cardinality(UnderWay(c)') <= rejected'[c]
      <4>1. CASE k = h
        <5>1. read'[k] = g_rejects[c]
          BY <1>6, <2>1, <3>2, <4>1 DEF CountRead, LocalsInv
        <5> QED
          BY <2>1, <3>1, <5>1 DEF RejectOk
      <4>2. CASE k /= h
        <5>1. pc[k] = "counted" /\ verdict[k] = c /\ read'[k] = read[k]
          BY <1>6, <2>1, <3>2, <4>2 DEF CountRead, LocalsInv, Goto
        <5> QED
          BY <2>1, <3>1, <5>1 DEF RejectOk
      <4> QED
        BY <4>1, <4>2
    <3> QED
      BY <2>1, <3>1, <3>2 DEF RejectOk, MetricCount
  <2> QED
    BY <2>1, <2>2 DEF RejectInv, MetricCount
<1>7. ASSUME NEW h \in Handlers, NEW c \in Counters, c = verdict[h], CountWrite(h)
      PROVE  RejectInv'
  <2>1. /\ c = verdict[h] /\ pc[h] = "counted" /\ c \in MetricNames
        /\ UNCHANGED <<rejected, verdict>> /\ g_rejects' = [g_rejects EXCEPT ![c] = read[h] + 1]
        /\ read' = [read EXCEPT ![h] = 0] /\ observability_record(c)
        /\ pc' = [pc EXCEPT ![h] = "reject"]
    BY <1>7 DEF CountWrite, LocalsInv, ghostVars, Goto, Counters, MetricNames
  <2>2. /\ h \in UnderWay(c) /\ UnderWay(c)' = UnderWay(c) \ {h}
        /\ \A d \in Counters \ {c} : UnderWay(d)' = UnderWay(d)
    BY <2>1 DEF UnderWay, LocalsInv
  <2>3. Cardinality(UnderWay(c)') = Cardinality(UnderWay(c)) - 1
    BY <2>2, TakeOne DEF UnderWay
  <2>4. /\ metrics' \in [MetricNames -> Nat] /\ MetricCount' <= MaxMetrics
        /\ metrics'[c] \in {metrics[c], metrics[c] + 1}
        /\ \A m \in MetricNames \ {c} : metrics'[m] = metrics[m]
        /\ MetricCount' < MaxMetrics =>
              MetricCount < MaxMetrics /\ metrics'[c] = metrics[c] + 1
    BY <2>1, RecordAdds DEF RejectInv
  <2>5. RejectOk(c)'
    <3> DEFINE u == Cardinality(UnderWay(c))
               v == Cardinality(UnderWay(c)')
    <3>1. /\ RejectOk(c) /\ v = u - 1 /\ u \in Nat /\ v \in Nat
          /\ rejected'[c] = rejected[c] /\ rejected[c] \in Nat
          /\ metrics[c] \in Nat /\ read[h] \in Nat
          /\ g_rejects'[c] = read[h] + 1
          /\ read[h] + u <= rejected[c]
      <4>1. RejectOk(c)
        BY <2>1 DEF RejectInv
      <4>2. read[h] + u <= rejected[c]
        BY <2>1, <4>1 DEF RejectOk
      <4>3. g_rejects'[c] = read[h] + 1
        BY <2>1 DEF LocalsInv
      <4>4. u \in Nat /\ v \in Nat /\ rejected[c] \in Nat /\ metrics[c] \in Nat
        BY <1>0
      <4>5. read[h] \in Nat
        BY <1>0
      <4> QED
        BY <2>1, <2>3, <4>1, <4>2, <4>3, <4>4, <4>5
    <3>2. g_rejects'[c] + v <= rejected'[c] /\ g_rejects'[c] > 0
      BY <3>1, SMT
    <3>3. ASSUME NEW k \in Handlers, pc'[k] = "counted", verdict'[k] = c
          PROVE  read'[k] + v <= rejected'[c]
      <4>1. k /= h /\ pc[k] = "counted" /\ verdict[k] = c
        BY <2>1, <3>3 DEF LocalsInv
      <4>2. read[k] + u <= rejected[c] /\ read'[k] = read[k] /\ read[k] \in Nat
        BY <1>0, <2>1, <3>1, <4>1 DEF RejectOk, LocalsInv
      <4> QED
        BY <3>1, <4>2, SMT
    <3>4. metrics'[c] + v <= rejected'[c]
      BY <2>4, <3>1, SMT DEF RejectOk
    <3>5. MetricCount' < MaxMetrics => metrics'[c] + v = rejected'[c]
      BY <2>4, <3>1, SMT DEF RejectOk
    <3> QED
      BY <3>2, <3>3, <3>4, <3>5 DEF RejectOk
  <2>6. ASSUME NEW d \in Counters, d /= c PROVE RejectOk(d)'
    <3>1. RejectOk(d) /\ d \in MetricNames
      BY DEF RejectInv, Counters, MetricNames
    <3>2. /\ g_rejects'[d] = g_rejects[d] /\ metrics'[d] = metrics[d]
          /\ UnderWay(d)' = UnderWay(d) /\ rejected'[d] = rejected[d]
      BY <2>1, <2>2, <2>4, <2>6, <3>1 DEF LocalsInv
    <3>3. ASSUME NEW k \in Handlers, pc'[k] = "counted", verdict'[k] = d
          PROVE  read'[k] = read[k] /\ pc[k] = "counted" /\ verdict[k] = d
      BY <2>1, <3>3 DEF LocalsInv
    <3> QED
      BY <2>4, <3>1, <3>2, <3>3 DEF RejectOk
  <2> QED
    BY <2>1, <2>4, <2>5, <2>6 DEF RejectInv
<1>8. ASSUME NEW h \in Handlers, Serve(h) PROVE RejectInv'
  <2>1. /\ \A c \in Counters : UnderWay(c)' = UnderWay(c)
        /\ UNCHANGED <<rejected, g_rejects, read>> /\ observability_record("http")
    BY <1>8, Moves DEF Serve, Done, secmonVars, ghostVars
  <2>2. \A k \in Handlers : pc'[k] = "counted" =>
           pc[k] = "counted" /\ verdict'[k] = verdict[k]
    BY <1>8 DEF Serve, Done, Goto, LocalsInv
  <2>3. /\ metrics' \in [MetricNames -> Nat] /\ MetricCount' <= MaxMetrics
        /\ \A c \in Counters : metrics'[c] = metrics[c]
        /\ MetricCount' < MaxMetrics => MetricCount < MaxMetrics
    BY <2>1, RecordAdds DEF RejectInv, MetricNames, Counters
  <2>4. ASSUME NEW c \in Counters PROVE RejectOk(c)'
    <3>1. RejectOk(c)
      BY DEF RejectInv
    <3> QED
      BY <2>1, <2>2, <2>3, <3>1 DEF RejectOk
  <2> QED
    BY <2>1, <2>3, <2>4 DEF RejectInv
<1>9. CASE Tick \/ UNCHANGED gatewayVars
  <2>1. /\ UNCHANGED <<rejected, g_rejects, read, metrics, pc, verdict>>
        /\ \A c \in Counters : UnderWay(c)' = UnderWay(c)
    BY <1>9 DEF Tick, gatewayVars, localVars, secmonVars, ghostVars, UnderWay
  <2> QED
    BY <1>1, <2>1
<1>10. ASSUME NEW h \in Handlers, CountWrite(h) PROVE RejectInv'
  <2>1. verdict[h] \in Counters
    BY <1>10 DEF CountWrite, LocalsInv
  <2> QED
    BY <1>7, <1>10, <2>1
<1> QED
  BY <1>2, <1>4, <1>5, <1>6, <1>8, <1>9, <1>10 DEF GatewayNext, Handle

CountersInv == LocalsInv /\ MonitorInv /\ LimitInv /\ RejectInv

LEMMA CountersCorrect == GatewaySpec => []CountersInv
<1>1. QED
  BY LocalsInit, MonitorInit, LimitInit, RejectInit, LocalsStep, MonitorStep,
     LimitStep, RejectStep, PTL
  DEF GatewaySpec, CountersInv

LEMMA CountersShown == CountersInv => ShownIsTrue
<1> SUFFICES ASSUME CountersInv PROVE ShownIsTrue
  OBVIOUS
<1>1. AgentSeesNewest
  BY AgentStep DEF CountersInv, MonitorInv
<1>2. ASSUME NEW c \in Counters
      PROVE  /\ RejectOk(c) /\ Cardinality(UnderWay(c)) \in Nat
             /\ g_rejects[c] \in Nat /\ rejected[c] \in Nat
  BY HandlersFinite DEF CountersInv, RejectInv, LocalsInv, UnderWay
<1>3. CountersCredible
  <2> SUFFICES ASSUME NEW c \in Counters
               PROVE  /\ g_rejects[c] <= rejected[c]
                      /\ \/ rejected[c] = 0 \/ g_rejects[c] > 0
                         \/ \E h \in Handlers : /\ verdict[h] = c
                                                /\ pc[h] \in {"count", "counted"}
    BY DEF CountersCredible
  <2>1. g_rejects[c] <= rejected[c]
    BY <1>2, SMT DEF RejectOk
  <2> QED
    BY <1>2, <2>1 DEF RejectOk, UnderWay
<1>4. MetricsExact
  BY <1>2 DEF MetricsExact, RejectOk, UnderWay
<1> QED
  BY <1>1, <1>3, <1>4 DEF ShownIsTrue

\* What is shown of the events is true for every number of handlers: an agent
\* is told the newest events, newest first; the reject counters, although they
\* are incremented outside the lock, never show more than there was and not
\* nothing once a rejection is through; /metrics is exact until its array is
\* full and never more than the truth.
THEOREM ShownCorrect == GatewaySpec => []ShownIsTrue
<1>1. QED
  BY CountersCorrect, CountersShown, PTL

LEMMA CountersTyped == CountersInv => GatewayTypeOK
<1> SUFFICES ASSUME CountersInv PROVE GatewayTypeOK
  OBVIOUS
<1>0. LocalsInv /\ MonitorInv /\ LimitInv /\ RejectInv
  BY DEF CountersInv
<1>1. /\ received \in Nat /\ received <= MaxRequests /\ MaxRequests \in Nat
      /\ Cardinality(Before) \in Nat
  <2>1. received \in 0..MaxRequests /\ Before \subseteq Handlers
    BY <1>0 DEF LocalsInv, Before
  <2> QED
    BY <2>1, BoundsNat, HandlersFinite, SMT
<1>2. ASSUME NEW b \in RateBuckets PROVE g_rate_buckets[b].count \in 0..MaxRequests
  <2>1. /\ g_rate_buckets[b].count \in Nat
        /\ g_rate_buckets[b].count + Cardinality(Before) <= received
    BY <1>0 DEF LimitInv, RateBucket
  <2> QED
    BY <1>1, <2>1, SMT
<1>3. g_rejects \in [Counters -> 0..MaxRequests]
  <2>1. ASSUME NEW c \in Counters PROVE g_rejects[c] \in 0..MaxRequests
    <3>1. /\ g_rejects[c] \in Nat /\ rejected[c] \in Nat
          /\ Cardinality(UnderWay(c)) \in Nat
          /\ g_rejects[c] + Cardinality(UnderWay(c)) <= rejected[c]
          /\ rejected[c] + Cardinality(Before) <= received
      BY <1>0, HandlersFinite
      DEF LocalsInv, LimitInv, RejectInv, RejectOk, UnderWay
    <3> QED
      BY <1>1, <3>1, SMT
  <2> QED
    BY <1>0, <2>1 DEF LocalsInv
<1>4. metrics \in [MetricNames -> 0..MaxMetrics]
  <2>1. metrics \in [MetricNames -> Nat] /\ MetricCount <= MaxMetrics
    BY <1>0 DEF RejectInv
  <2> QED
    BY <2>1, MetricsAssumption, SMT DEF MetricNames, MetricCount
<1> QED
  BY <1>0, <1>2, <1>3, <1>4 DEF GatewayTypeOK, MonitorInv, LocalsInv, Places

\* The ring, the two tables and the counters stay within their arrays and
\* bounds, whatever handlers do between two critical sections.
THEOREM GatewayTypeCorrect == GatewaySpec => []GatewayTypeOK
<1>1. QED
  BY CountersCorrect, CountersTyped, PTL

(***************************************************************************)
(* The limiter.  For an address with a bucket of its own, what it got      *)
(* through splits at the start of the bucket's window and RateWindow       *)
(* seconds before it; neither part exceeds the limit, and no interval that *)
(* ends after the window began reaches further back.                       *)
(***************************************************************************)
InWindow(P, end) == {p \in P : p.at + RateWindow >= end}
Prior(P, end) == {p \in P : /\ p.at + RateWindow < end
                            /\ p.at + RateWindow + RateWindow >= end}
Within(P, from) == {p \in P : p.at >= from /\ p.at < from + RateWindow}

PassesOk(P, n, end, time) ==
    /\ IsFiniteSet(P) /\ end <= time + RateWindow
    /\ \A p \in P : /\ p.at \in Nat /\ p.at <= time /\ p.at < end
                    /\ p.nth \in 1..Cardinality(P)
    /\ Cardinality(InWindow(P, end)) <= n
    /\ Cardinality(InWindow(P, end)) <= RateLimit
    /\ Cardinality(Prior(P, end)) <= RateLimit
    /\ \A from \in 0..MaxTime : Cardinality(Within(P, from)) <= 2 * RateLimit

LEMMA PassesNone == \A time \in Nat : PassesOk({}, 0, 0, time)
<1> SUFFICES ASSUME NEW time \in Nat PROVE PassesOk({}, 0, 0, time)
  OBVIOUS
<1>1. /\ InWindow({}, 0) = {} /\ Prior({}, 0) = {}
      /\ \A from \in 0..MaxTime : Within({}, from) = {}
  BY DEF InWindow, Prior, Within
<1>2. IsFiniteSet({}) /\ Cardinality({}) = 0
  BY FS_EmptySet
<1>3. 0 <= time + RateWindow /\ 0 <= RateLimit /\ 0 <= 2 * RateLimit
  BY RateNat, SMT
<1> QED
  BY <1>1, <1>2, <1>3 DEF PassesOk

\* Time goes on, and requests that are counted but not let through.
LEMMA PassesKeep ==
    ASSUME NEW P, NEW n \in Nat, NEW m \in Nat, NEW end \in Nat, NEW time \in Nat,
           NEW later \in Nat, PassesOk(P, n, end, time), time <= later, n <= m
    PROVE  PassesOk(P, m, end, later)
<1>1. IsFiniteSet(InWindow(P, end))
  BY FS_Subset DEF PassesOk, InWindow
<1>2. Cardinality(InWindow(P, end)) \in Nat
  BY <1>1, FS_CardinalityType
<1>3. end <= later + RateWindow
  BY RateNat, SMT DEF PassesOk
<1>4. \A p \in P : p.at <= later
  BY SMT DEF PassesOk
<1>5. Cardinality(InWindow(P, end)) <= m
  BY <1>2, SMT DEF PassesOk
<1> QED
  BY <1>3, <1>4, <1>5 DEF PassesOk

\* A window is over, or there was none: at time a new one begins.
LEMMA PassesReset ==
    ASSUME NEW P, NEW n \in Nat, NEW end \in Nat, NEW time \in Nat,
           PassesOk(P, n, end, time), end <= time \/ P = {}
    PROVE  PassesOk(P, 0, time + RateWindow, time)
<1> DEFINE new == time + RateWindow
<1>1. new \in Nat /\ new <= time + RateWindow
  BY RateNat, SMT
<1>2. \A p \in P : p.at \in Nat /\ p.at < time
  BY SMT DEF PassesOk
<1>3. InWindow(P, new) = {}
  BY <1>2, RateNat, SMT DEF InWindow
<1>4. Prior(P, new) \subseteq InWindow(P, end)
  BY <1>2, RateNat, SMT DEF Prior, InWindow
<1>5. IsFiniteSet(InWindow(P, end))
  BY FS_Subset DEF PassesOk, InWindow
<1>6. /\ Cardinality(Prior(P, new)) <= Cardinality(InWindow(P, end))
      /\ Cardinality(Prior(P, new)) \in Nat /\ Cardinality(InWindow(P, end)) \in Nat
  BY <1>4, <1>5, FS_Subset, FS_CardinalityType
<1>7. Cardinality(Prior(P, new)) <= RateLimit
  BY <1>6, RateNat, SMT DEF PassesOk
<1>8. Cardinality(InWindow(P, new)) = 0
  BY <1>3, FS_EmptySet
<1>9. \A p \in P : p.at <= time /\ p.at < new
  BY <1>2, RateNat, SMT
<1> HIDE DEF new
<1>10. PassesOk(P, 0, new, time)
  BY <1>1, <1>2, <1>7, <1>8, <1>9, RateNat DEF PassesOk
<1> QED
  BY <1>10 DEF new

\* A request is let through.
LEMMA PassesAdd ==
    ASSUME NEW P, NEW n \in Nat, NEW end \in Nat, NEW time \in Nat,
           PassesOk(P, n, end, time), time < end, n + 1 <= RateLimit
    PROVE  PassesOk(P \cup {[nth |-> Cardinality(P) + 1, at |-> time]},
                    n + 1, end, time)
<1> DEFINE c == Cardinality(P)
           x == [nth |-> c + 1, at |-> time]
           Q == P \cup {x}
<1>1. c \in Nat
  BY FS_CardinalityType DEF PassesOk
<1>2. x \notin P
  <2>1. \A p \in P : p.nth \in 1..c
    BY DEF PassesOk
  <2>2. \A p \in P : p.nth /= c + 1
    BY <1>1, <2>1, SMT
  <2>3. x.nth = c + 1
    OBVIOUS
  <2> QED
    BY <2>2, <2>3
<1>3. IsFiniteSet(Q) /\ Cardinality(Q) = c + 1
  BY <1>2, FS_AddElement DEF PassesOk
<1>3a. x.nth = c + 1 /\ x.at = time
  OBVIOUS
<1> HIDE DEF x, c
<1>4. ASSUME NEW p \in Q
      PROVE  /\ p.at \in Nat /\ p.at <= time /\ p.at < end
             /\ p.nth \in 1..c + 1
  <2>1. CASE p \in P
    BY <1>1, <2>1, SMT DEF PassesOk, c
  <2>2. CASE p = x
    BY <1>1, <1>3a, <2>2, SMT
  <2> QED
    BY <2>1, <2>2
<1>5. InWindow(Q, end) = InWindow(P, end) \cup {x} /\ x \notin InWindow(P, end)
  BY <1>2, <1>3a DEF InWindow, PassesOk
<1>6. Prior(Q, end) = Prior(P, end)
  <2>1. ~ (time + RateWindow < end)
    BY RateNat, SMT DEF PassesOk
  <2> QED
    BY <1>3a, <2>1 DEF Prior
<1>7. /\ IsFiniteSet(InWindow(P, end)) /\ IsFiniteSet(Prior(P, end))
      /\ Cardinality(InWindow(P, end)) \in Nat /\ Cardinality(Prior(P, end)) \in Nat
  BY FS_Subset, FS_CardinalityType DEF PassesOk, InWindow, Prior
<1>8. /\ IsFiniteSet(InWindow(Q, end))
      /\ Cardinality(InWindow(Q, end)) = Cardinality(InWindow(P, end)) + 1
  <2>1. /\ IsFiniteSet(InWindow(P, end) \cup {x})
        /\ Cardinality(InWindow(P, end) \cup {x}) = Cardinality(InWindow(P, end)) + 1
    BY <1>5, <1>7, FS_AddElement
  <2> QED
    BY <1>5, <2>1
<1>9. Cardinality(InWindow(Q, end)) <= n + 1 /\ Cardinality(InWindow(Q, end)) <= RateLimit
  <2>1. Cardinality(InWindow(P, end)) <= n
    BY DEF PassesOk
  <2> QED
    BY <1>7, <1>8, <2>1, RateNat, SMT
<1>10. ASSUME NEW from \in 0..MaxTime
       PROVE  Cardinality(Within(Q, from)) <= 2 * RateLimit
  <2>0. from \in Nat
    BY BoundsNat
  <2>1. CASE from <= time /\ time < from + RateWindow
    <3>1. Within(Q, from) \subseteq InWindow(Q, end) \cup Prior(Q, end)
      <4> SUFFICES ASSUME NEW p \in Q, p.at >= from
                   PROVE  p \in InWindow(Q, end) \cup Prior(Q, end)
        BY DEF Within
      <4>1. p.at \in Nat
        BY <1>4
      <4>2. p.at + RateWindow + RateWindow >= end
        BY <2>0, <2>1, <4>1, RateNat, SMT DEF PassesOk
      <4>3. p.at + RateWindow < end \/ p.at + RateWindow >= end
        BY <4>1, RateNat, SMT
      <4> QED
        BY <4>2, <4>3 DEF InWindow, Prior
    <3>2. /\ IsFiniteSet(InWindow(Q, end) \cup Prior(Q, end))
          /\ Cardinality(InWindow(Q, end) \cup Prior(Q, end)) <=
                Cardinality(InWindow(Q, end)) + Cardinality(Prior(Q, end))
      <4>1. IsFiniteSet(Prior(Q, end))
        BY <1>6, <1>7
      <4>2. /\ IsFiniteSet(InWindow(Q, end) \cup Prior(Q, end))
            /\ Cardinality(InWindow(Q, end) \cup Prior(Q, end)) =
                 Cardinality(InWindow(Q, end)) + Cardinality(Prior(Q, end))
                   - Cardinality(InWindow(Q, end) \cap Prior(Q, end))
        BY <1>8, <4>1, FS_Union
      <4>3. Cardinality(InWindow(Q, end) \cap Prior(Q, end)) \in Nat
        <5>1. IsFiniteSet(InWindow(Q, end) \cap Prior(Q, end))
          BY <1>8, FS_Intersection
        <5> QED
          BY <5>1, FS_CardinalityType
      <4>4. Cardinality(InWindow(Q, end)) \in Nat /\ Cardinality(Prior(Q, end)) \in Nat
        BY <1>8, <4>1, FS_CardinalityType
      <4> QED
        BY <4>2, <4>3, <4>4, SMT
    <3>3. /\ Cardinality(Within(Q, from)) <=
               Cardinality(InWindow(Q, end) \cup Prior(Q, end))
          /\ Cardinality(Within(Q, from)) \in Nat
          /\ Cardinality(InWindow(Q, end) \cup Prior(Q, end)) \in Nat
      BY <3>1, <3>2, FS_Subset, FS_CardinalityType
    <3>4. /\ Cardinality(InWindow(Q, end)) \in Nat /\ Cardinality(Prior(Q, end)) \in Nat
          /\ Cardinality(Prior(Q, end)) <= RateLimit
      BY <1>6, <1>7, <1>8, FS_CardinalityType DEF PassesOk
    <3> QED
      BY <1>9, <3>2, <3>3, <3>4, RateNat, SMT
  <2>2. CASE ~(from <= time /\ time < from + RateWindow)
    <3>1. ~(time >= from /\ time < from + RateWindow)
      BY <2>0, <2>2, RateNat, SMT
    <3>2. Within(Q, from) = Within(P, from)
      BY <1>3a, <3>1 DEF Within
    <3> QED
      BY <3>2 DEF PassesOk
  <2> QED
    BY <2>1, <2>2
<1>11. end <= time + RateWindow /\ Cardinality(Prior(P, end)) <= RateLimit
  BY DEF PassesOk
<1> HIDE DEF Q
<1>12. PassesOk(Q, n + 1, end, time)
  BY <1>3, <1>4, <1>6, <1>9, <1>10, <1>11 DEF PassesOk
<1> QED
  BY <1>12 DEF Q, x, c

RateInv ==
    /\ passed \in [Alone -> SUBSET [nth : Nat, at : Nat]]
    /\ \A ip \in Alone :
          LET b == g_rate_buckets[hash_ip[ip]]
          IN  /\ b.ip = ip \/ passed[ip] = {}
              /\ PassesOk(passed[ip], b.count, b.window_end, now)

LEMMA RateInit == GatewayInit => RateInv
<1> SUFFICES ASSUME GatewayInit PROVE RateInv
  OBVIOUS
<1>1. passed = [i \in Alone |-> {}] /\ now = 0
  BY DEF GatewayInit
<1>2. ASSUME NEW ip \in Alone
      PROVE  LET b == g_rate_buckets[hash_ip[ip]]
             IN  b.count = 0 /\ b.window_end = 0
  <2>1. hash_ip[ip] \in RateBuckets
    BY RateAssumption, GatewayAssumption DEF Alone
  <2> QED
    BY <2>1 DEF GatewayInit, security_monitor_init
<1>3. PassesOk({}, 0, 0, 0)
  BY PassesNone
<1> QED
  BY <1>1, <1>2, <1>3 DEF RateInv

\* What a check makes of the passes of the address it is about.
LEMMA PassesStep ==
    ASSUME LocalsInv, LimitInv, RateInv, NEW ip \in Alone
    PROVE  LET y == Counted(ip, now)
               x == [nth |-> Cardinality(passed[ip]) + 1, at |-> now]
           IN  /\ y.ip = ip
               /\ PassesOk(IF over_limit(ip, now) THEN passed[ip] ELSE passed[ip] \cup {x},
                           y.count, y.window_end, now)
<1> DEFINE b == g_rate_buckets[hash_ip[ip]]
           y == Counted(ip, now)
           P == passed[ip]
           Q == P \cup {[nth |-> Cardinality(P) + 1, at |-> now]}
<1>1. now \in Nat /\ ip \in Ips
  <2>1. now \in 0..MaxTime
    BY DEF LocalsInv
  <2> QED
    BY <2>1, BoundsNat DEF Alone
<1>2. b \in RateBucket
  BY <1>1, CountedType DEF LimitInv
<1>3. b.count \in Nat /\ b.window_end \in Nat
  BY <1>2 DEF RateBucket
<1>4. PassesOk(P, b.count, b.window_end, now) /\ (b.ip = ip \/ P = {})
  BY DEF RateInv
\* The count and the window the request is counted in.
<1>5. \E n \in Nat, end \in Nat : /\ y.ip = ip /\ y.count = n + 1 /\ y.window_end = end
                               /\ now < end /\ PassesOk(P, n, end, now)
  <2>1. CASE b.window_end <= now \/ b.ip /= ip
    <3>1. PassesOk(P, 0, now + RateWindow, now)
      BY <1>1, <1>3, <1>4, <2>1, PassesReset
    <3>2. y = [ip |-> ip, count |-> 1, window_end |-> now + RateWindow]
      BY <2>1 DEF Counted
    <3>3. y.ip = ip /\ y.count = 1 /\ y.window_end = now + RateWindow
      BY <3>2
    <3>4. now + RateWindow \in Nat /\ now < now + RateWindow /\ 0 + 1 = 1 /\ 0 \in Nat
      BY <1>1, RateNat, SMT
    <3> HIDE DEF y
    <3> QED
      BY <3>1, <3>3, <3>4
  <2>2. CASE ~(b.window_end <= now \/ b.ip /= ip)
    <3>1. y = [b EXCEPT !.count = b.count + 1]
      BY <2>2 DEF Counted
    <3>2. y.ip = ip /\ y.count = b.count + 1 /\ y.window_end = b.window_end
      BY <1>2, <2>2, <3>1 DEF RateBucket
    <3>3. now < b.window_end
      BY <1>1, <1>3, <2>2, SMT
    <3> HIDE DEF y
    <3> QED
      BY <1>3, <1>4, <3>2, <3>3
  <2> QED
    BY <2>1, <2>2
<1>6. PICK n \in Nat, end \in Nat : /\ y.ip = ip /\ y.count = n + 1 /\ y.window_end = end
                                /\ now < end /\ PassesOk(P, n, end, now)
  BY <1>5
<1>7. over_limit(ip, now) <=> n + 1 > RateLimit
  BY <1>6 DEF over_limit
<1> HIDE DEF y, P
<1>8. CASE over_limit(ip, now)
  <2>1. now <= now /\ n <= n + 1 /\ n + 1 \in Nat
    BY <1>1, SMT
  <2>2. PassesOk(P, n + 1, end, now)
    BY <1>1, <1>6, <2>1, PassesKeep
  <2> QED
    BY <1>6, <1>8, <2>2 DEF y, P
<1>9. CASE ~over_limit(ip, now)
  <2>1. n + 1 <= RateLimit
    BY <1>7, <1>9, RateNat, SMT
  <2>2. PassesOk(Q, n + 1, end, now)
    BY <1>1, <1>6, <2>1, PassesAdd
  <2> QED
    BY <1>6, <1>9, <2>2 DEF y, P
<1> QED
  BY <1>8, <1>9

LEMMA RateStep ==
    LocalsInv /\ LimitInv /\ RateInv /\ [GatewayNext]_gatewayVars => RateInv'
<1> SUFFICES ASSUME LocalsInv, LimitInv, RateInv, [GatewayNext]_gatewayVars
             PROVE  RateInv'
  OBVIOUS
<1>0. now \in Nat /\ \A ip \in Alone : /\ hash_ip[ip] \in RateBuckets /\ ip \in Ips
                                     /\ g_rate_buckets[hash_ip[ip]].count \in Nat
                                     /\ g_rate_buckets[hash_ip[ip]].window_end \in Nat
  <2>1. now \in 0..MaxTime
    BY DEF LocalsInv
  <2>2. \A ip \in Ips : hash_ip[ip] \in RateBuckets
    BY RateAssumption, GatewayAssumption
  <2>3. \A r \in RateBuckets : /\ g_rate_buckets[r].count \in Nat
                              /\ g_rate_buckets[r].window_end \in Nat
    BY DEF LimitInv, RateBucket
  <2>4. now \in Nat
    BY <2>1, BoundsNat
  <2> QED
    BY <2>2, <2>3, <2>4 DEF Alone
<1>1. ASSUME UNCHANGED <<g_rate_buckets, passed>>, now' \in {now, now + 1}
      PROVE  RateInv'
  <2> SUFFICES ASSUME NEW ip \in Alone
               PROVE  LET b == g_rate_buckets[hash_ip[ip]]
                      IN  PassesOk(passed[ip], b.count, b.window_end, now')
    BY <1>1 DEF RateInv
  <2> DEFINE b == g_rate_buckets[hash_ip[ip]]
  <2>1. PassesOk(passed[ip], b.count, b.window_end, now)
    BY DEF RateInv
  <2>2. b.count \in Nat /\ b.window_end \in Nat /\ now \in Nat
    BY <1>0
  <2>3. now' \in Nat /\ now <= now' /\ b.count <= b.count
    BY <1>1, <2>2, SMT
  <2> HIDE DEF b
  <2>4. PassesOk(passed[ip], b.count, b.window_end, now')
    BY <2>1, <2>2, <2>3, PassesKeep
  <2> QED
    BY <2>4 DEF b
<1>2. ASSUME NEW h \in Handlers, CheckLimited(h) \/ CheckBody(h) PROVE RateInv'
  <2> DEFINE j == req[h].ip
             x == [nth |-> Cardinality(passed[j]) + 1, at |-> now]
  <2>1. j \in Ips /\ now' = now /\ count_request(j, now)
    BY <1>2, RequestType DEF CheckLimited, CheckBody, LocalsInv
  <2>2. \A ip \in Alone : passed'[ip] = IF ip = j /\ ~over_limit(ip, now)
                                      THEN passed[ip] \cup {x} ELSE passed[ip]
    BY <1>2 DEF CheckLimited, CheckBody, RateInv
  <2>3. passed' \in [Alone -> SUBSET [nth : Nat, at : Nat]]
    <3>1. CASE UNCHANGED passed
      BY <3>1 DEF RateInv
    <3>2. CASE j \in Alone /\ passed' = [passed EXCEPT ![j] = @ \cup {x}]
      <4>1. IsFiniteSet(passed[j])
        BY <3>2 DEF RateInv, PassesOk
      <4>2. Cardinality(passed[j]) + 1 \in Nat
        <5>1. Cardinality(passed[j]) \in Nat
          BY <4>1, FS_CardinalityType
        <5> QED
          BY <5>1, SMT
      <4>3. x \in [nth : Nat, at : Nat]
        BY <1>0, <4>2
      <4> QED
        BY <3>2, <4>3 DEF RateInv
    <3> QED
      BY <1>2, <3>1, <3>2 DEF CheckLimited, CheckBody
  <2>4. ASSUME NEW ip \in Alone, ip /= j
        PROVE  LET b == g_rate_buckets'[hash_ip[ip]]
               IN  /\ b.ip = ip \/ passed'[ip] = {}
                   /\ PassesOk(passed'[ip], b.count, b.window_end, now')
    <3>1. hash_ip[j] /= hash_ip[ip] /\ hash_ip[ip] \in RateBuckets
      BY <1>0, <2>1, <2>4 DEF Alone
    <3>2. g_rate_buckets'[hash_ip[ip]] = g_rate_buckets[hash_ip[ip]]
      BY <2>1, <3>1 DEF count_request, LimitInv
    <3>3. passed'[ip] = passed[ip]
      BY <2>2, <2>4
    <3> QED
      BY <2>1, <3>2, <3>3 DEF RateInv
  <2>5. ASSUME NEW ip \in Alone, ip = j
        PROVE  LET b == g_rate_buckets'[hash_ip[ip]]
               IN  /\ b.ip = ip \/ passed'[ip] = {}
                   /\ PassesOk(passed'[ip], b.count, b.window_end, now')
    <3>1. g_rate_buckets'[hash_ip[ip]] = Counted(ip, now)
      BY <1>0, <2>1, <2>5 DEF count_request, LimitInv
    <3>2. /\ Counted(ip, now).ip = ip
          /\ PassesOk(passed'[ip], Counted(ip, now).count,
                      Counted(ip, now).window_end, now)
      BY <2>2, <2>5, PassesStep
    <3> QED
      BY <2>1, <3>1, <3>2
  <2> QED
    BY <2>3, <2>4, <2>5 DEF RateInv
<1>3. ASSUME NEW h \in Handlers,
             \/ Receive(h) \/ Connect(h) \/ Probe(h) \/ ResetBucket(h) \/ CheckForm(h)
             \/ CountRead(h) \/ CountWrite(h) \/ Reject(h) \/ Serve(h) \/ Answered(h)
             \/ WebsocketEnds(h)
      PROVE  RateInv'
  <2>1. UNCHANGED <<g_rate_buckets, passed, now>>
    BY <1>3 DEF Receive, Connect, Probe, ResetBucket, CheckForm, CountRead,
       CountWrite, Reject, Serve, Answered, WebsocketEnds, secmonVars, ghostVars
  <2> QED
    BY <1>1, <2>1
<1>4. CASE Tick \/ UNCHANGED gatewayVars
  <2>1. UNCHANGED <<g_rate_buckets, passed>> /\ now' \in {now, now + 1}
    BY <1>4 DEF Tick, gatewayVars, secmonVars, ghostVars
  <2> QED
    BY <1>1, <2>1
<1> QED
  BY <1>2, <1>3, <1>4 DEF GatewayNext, Handle

\* An address that shares no bucket never gets more than twice the limit
\* through in RateWindow seconds, wherever they begin, however many handlers
\* check at once and for every limit and window.
THEOREM LimitIsKept == GatewaySpec => []RateEnforced
<1>1. RateInv => RateEnforced
  BY DEF RateInv, PassesOk, RateEnforced, PassedIn, Within
<1>2. GatewaySpec => []RateInv
  BY LocalsInit, LimitInit, RateInit, LocalsStep, LimitStep, RateStep, PTL
  DEF GatewaySpec
<1> QED
  BY <1>1, <1>2, PTL

(***************************************************************************)
(* The table of connections: what its rows say of an address.              *)
(***************************************************************************)
RowsIn(s, ip) == {i \in DOMAIN s : s[i].ip = ip}
CountIn(s, ip) == IF RowsIn(s, ip) = {} THEN 0
                  ELSE s[CHOOSE i \in RowsIn(s, ip) : TRUE].count
OneRowEach(s) == \A i, j \in DOMAIN s : s[i].ip = s[j].ip => i = j

LEMMA CountOfRow ==
    ASSUME NEW s, NEW ip, OneRowEach(s), NEW i \in RowsIn(s, ip)
    PROVE  RowsIn(s, ip) = {i} /\ CountIn(s, ip) = s[i].count
<1>1. RowsIn(s, ip) = {i}
  BY DEF OneRowEach, RowsIn
<1>2. (CHOOSE k \in RowsIn(s, ip) : TRUE) = i
  BY <1>1
<1> QED
  BY <1>1, <1>2 DEF CountIn

LEMMA CountNat ==
    ASSUME NEW s \in Seq(Bucket), NEW ip
    PROVE  CountIn(s, ip) \in Nat
<1>1. CASE RowsIn(s, ip) = {}
  BY <1>1 DEF CountIn
<1>2. CASE RowsIn(s, ip) /= {}
  <2>1. (CHOOSE k \in RowsIn(s, ip) : TRUE) \in DOMAIN s
    BY <1>2 DEF RowsIn
  <2>2. \A k \in DOMAIN s : s[k].count \in Nat
    <3>1. \A k \in DOMAIN s : s[k] \in Bucket
      BY ElementOfSeq, LenProperties
    <3> QED
      BY <3>1 DEF Bucket
  <2> QED
    BY <1>2, <2>1, <2>2 DEF CountIn
<1> QED
  BY <1>1, <1>2

\* An address that has no row gets one.
LEMMA RowAppended ==
    ASSUME NEW s \in Seq(Bucket), OneRowEach(s), NEW b \in Bucket,
           RowsIn(s, b.ip) = {}
    PROVE  /\ OneRowEach(Append(s, b))
           /\ CountIn(s, b.ip) = 0 /\ CountIn(Append(s, b), b.ip) = b.count
           /\ \A ip : RowsIn(s, ip) \subseteq RowsIn(Append(s, b), ip)
           /\ \A ip : ip /= b.ip => CountIn(Append(s, b), ip) = CountIn(s, ip)
<1> DEFINE u == Append(s, b)
           n == Len(s)
<1>1. n \in Nat /\ DOMAIN s = 1..n
  BY LenProperties
<1>2. DOMAIN u = 1..(n + 1) /\ u[n + 1] = b /\ \A i \in 1..n : u[i] = s[i]
  BY AppendProperties, LenProperties
<1>3. \A i : i \in DOMAIN u <=> i \in DOMAIN s \/ i = n + 1
  BY <1>1, <1>2, SMT
<1>4. n + 1 \notin DOMAIN s
  BY <1>1, SMT
<1>5. \A i \in DOMAIN s : u[i] = s[i]
  BY <1>1, <1>2
<1>6. \A i \in DOMAIN s : s[i].ip /= b.ip
  BY DEF RowsIn
<1> HIDE DEF u, n
<1>7. OneRowEach(u)
  BY <1>2, <1>3, <1>4, <1>5, <1>6 DEF OneRowEach
<1>8. \A ip : ip /= b.ip => RowsIn(u, ip) = RowsIn(s, ip)
  BY <1>2, <1>3, <1>5 DEF RowsIn
<1>9. n + 1 \in RowsIn(u, b.ip)
  BY <1>2, <1>3 DEF RowsIn
<1>10. CountIn(u, b.ip) = b.count
  BY <1>2, <1>7, <1>9, CountOfRow
<1>11. ASSUME NEW ip, ip /= b.ip PROVE CountIn(u, ip) = CountIn(s, ip)
  <2>1. RowsIn(u, ip) = RowsIn(s, ip) /\ \A i \in RowsIn(s, ip) : u[i] = s[i]
    BY <1>5, <1>8, <1>11 DEF RowsIn
  <2> QED
    BY <2>1 DEF CountIn
<1>12. \A ip : RowsIn(s, ip) \subseteq RowsIn(u, ip)
  BY <1>3, <1>5 DEF RowsIn
<1> QED
  BY <1>7, <1>10, <1>11, <1>12 DEF u, CountIn

\* A row is written, and stays its address's.
LEMMA RowWritten ==
    ASSUME NEW s \in Seq(Bucket), OneRowEach(s), NEW i \in DOMAIN s, NEW b \in Bucket,
           b.ip = s[i].ip, NEW u, DOMAIN u = DOMAIN s, u[i] = b,
           \A k \in DOMAIN s : k /= i => u[k] = s[k]
    PROVE  /\ OneRowEach(u) /\ CountIn(u, b.ip) = b.count
           /\ \A ip : RowsIn(u, ip) = RowsIn(s, ip)
           /\ \A ip : ip /= b.ip => CountIn(u, ip) = CountIn(s, ip)
<1>1. DOMAIN u = DOMAIN s /\ u[i] = b /\ \A k \in DOMAIN s : k /= i => u[k] = s[k]
  OBVIOUS
<1>2. \A k \in DOMAIN s : u[k].ip = s[k].ip
  BY <1>1
<1>3. OneRowEach(u)
  BY <1>1, <1>2 DEF OneRowEach
<1>4. \A ip : RowsIn(u, ip) = RowsIn(s, ip)
  BY <1>1, <1>2 DEF RowsIn
<1>5. i \in RowsIn(u, b.ip)
  BY <1>1 DEF RowsIn
<1>6. CountIn(u, b.ip) = b.count
  BY <1>1, <1>3, <1>5, CountOfRow
<1>7. ASSUME NEW ip, ip /= b.ip PROVE CountIn(u, ip) = CountIn(s, ip)
  <2>1. RowsIn(u, ip) = RowsIn(s, ip) /\ \A k \in RowsIn(s, ip) : u[k] = s[k]
    BY <1>1, <1>4, <1>7 DEF RowsIn
  <2> QED
    BY <2>1 DEF CountIn
<1> QED
  BY <1>3, <1>4, <1>6, <1>7

\* A row is given to an address that has none.
LEMMA RowGiven ==
    ASSUME NEW s \in Seq(Bucket), OneRowEach(s), NEW i, NEW b \in Bucket,
           RowsIn(s, b.ip) = {}
    PROVE  OneRowEach([s EXCEPT ![i] = b])
<1> DEFINE u == [s EXCEPT ![i] = b]
<1>1. DOMAIN u = DOMAIN s /\ \A k \in DOMAIN s : u[k] = IF k = i THEN b ELSE s[k]
  OBVIOUS
<1>2. \A k \in DOMAIN s : s[k].ip /= b.ip
  BY DEF RowsIn
<1> HIDE DEF u
<1>3. OneRowEach(u)
  BY <1>1, <1>2 DEF OneRowEach
<1> QED
  BY <1>3 DEF u

(***************************************************************************)
(* The sum behind ProbeNoticed: a handler that comes back from an event    *)
(* may set back up to ProbeThreshold - 1 connections that others counted,  *)
(* and so may each of the handlers that are still under way to it.         *)
(***************************************************************************)
Low(c) == IF c < ProbeThreshold THEN c ELSE ProbeThreshold - 1

ProbeSum(q, r, c, p) ==
    q + (ProbeThreshold - 1) * r + (ProbeThreshold - 1)
      <= (ProbeThreshold - 1) * Cardinality(Handlers) + Low(c) + p

LEMMA ThresholdNat == /\ ProbeThreshold \in Nat /\ ProbeThreshold >= 2
                      /\ ConnWindow \in Nat /\ ConnMax \in Nat
<1>1. /\ ProbeThreshold \in Nat \ {0, 1} /\ ConnWindow \in Nat /\ ConnMax \in Nat
  BY MonitorAssumption
<1> QED
  BY <1>1, SMT

LEMMA TimesNat == \A k, r \in Nat : k * r \in Nat /\ k * (r + 1) = k * r + k
BY SMT

LEMMA TimesLess ==
    ASSUME NEW k \in Nat, NEW r \in Nat, NEW n \in Nat, r < n
    PROVE  k * r + k <= k * n
<1>1. PICK d \in Nat : n = (r + 1) + d
  <2>1. n - (r + 1) \in Nat /\ n = (r + 1) + (n - (r + 1))
    BY SMT
  <2> QED
    BY <2>1
<1>2. k * n = k * (r + 1) + k * d
  BY <1>1, SMT
<1>3. k * d \in Nat /\ k * (r + 1) = k * r + k /\ k * r \in Nat
  BY TimesNat
<1> QED
  BY <1>2, <1>3, SMT

LEMMA SumSteps ==
    ASSUME IsFiniteSet(Handlers), NEW q \in Nat, NEW r \in Nat, NEW c \in Nat, NEW p \in Nat
    PROVE  /\ ProbeSum(q, r, c, p) /\ c + 1 < ProbeThreshold => ProbeSum(q + 1, r, c + 1, p)
           /\ ProbeSum(q, r, c, p) /\ c + 1 >= ProbeThreshold =>
                 ProbeSum(q + 1, r, c + 1, p + 1)
           /\ r < Cardinality(Handlers) => ProbeSum(1, r, 1, p)
           /\ r + 1 < Cardinality(Handlers) => ProbeSum(0, r + 1, c, p)
           /\ r + 1 = Cardinality(Handlers) /\ c >= ProbeThreshold =>
                 ProbeSum(0, r + 1, c, p)
           /\ ProbeSum(q, r + 1, c, p) => ProbeSum(q, r, 0, p)
           /\ ProbeSum(q, r, c, p) => q <= (ProbeThreshold - 1) * Cardinality(Handlers) + p
<1> DEFINE k == ProbeThreshold - 1
           n == Cardinality(Handlers)
<1>1. k \in Nat /\ k >= 1 /\ n \in Nat /\ ProbeThreshold = k + 1
  BY ThresholdNat, FS_CardinalityType
<1>2. k * r \in Nat /\ k * (r + 1) = k * r + k /\ k * n \in Nat
  BY <1>1, TimesNat
<1>3. r < n => k * r + k <= k * n
  BY <1>1, TimesLess
<1>4. r + 1 < n => k * (r + 1) + k <= k * n
  BY <1>1, TimesLess
<1>5. r + 1 = n => k * (r + 1) = k * n
  OBVIOUS
<1>6. \A d \in Nat : Low(d) = IF d < k + 1 THEN d ELSE k
  BY <1>1 DEF Low
<1>7. \A a, m, d, e : ProbeSum(a, m, d, e) <=> a + k * m + k <= k * n + Low(d) + e
  BY DEF ProbeSum
<1> HIDE DEF k, n
<1>8. ProbeSum(q, r, c, p) /\ c + 1 < k + 1 => ProbeSum(q + 1, r, c + 1, p)
  BY <1>1, <1>2, <1>6, <1>7, SMT
<1>9. ProbeSum(q, r, c, p) /\ c + 1 >= k + 1 => ProbeSum(q + 1, r, c + 1, p + 1)
  BY <1>1, <1>2, <1>6, <1>7, SMT
<1>10. r < n => ProbeSum(1, r, 1, p)
  BY <1>1, <1>2, <1>3, <1>6, <1>7, SMT
<1>11. r + 1 < n => ProbeSum(0, r + 1, c, p)
  BY <1>1, <1>2, <1>4, <1>6, <1>7, SMT
<1>12. r + 1 = n /\ c >= k + 1 => ProbeSum(0, r + 1, c, p)
  BY <1>1, <1>2, <1>5, <1>6, <1>7, SMT
<1>13. ProbeSum(q, r + 1, c, p) => ProbeSum(q, r, 0, p)
  BY <1>1, <1>2, <1>6, <1>7, SMT
<1>14. ProbeSum(q, r, c, p) => q <= k * n + p
  BY <1>1, <1>2, <1>6, <1>7, SMT
<1> QED
  BY <1>1, <1>8, <1>9, <1>10, <1>11, <1>12, <1>13, <1>14 DEF k, n

Resetting(ip) == {h \in Handlers : pc[h] = "reset" /\ req[h].ip = ip}

ProbeOk(ip) ==
    /\ Reporting(ip) \cup Resetting(ip) = Handlers =>
          CountIn(g_conn_buckets, ip) >= ProbeThreshold
    /\ ProbeSum(quiet[ip], Cardinality(Resetting(ip)), CountIn(g_conn_buckets, ip),
                Cardinality(Reporting(ip)))

\* A handler that comes back from an event still has the bucket it left.
SlotsOk == \A h \in Handlers : pc[h] \in {"probe", "reset"} =>
              slot[h] \in RowsIn(g_conn_buckets, req[h].ip)

ProbeInv ==
    /\ OneRowEach(g_conn_buckets) /\ quiet \in [Ips -> Nat]
    /\ Handlers = {} => \A ip \in Ips : quiet[ip] = 0
    /\ ~evicted => /\ SlotsOk
                   /\ Handlers /= {} => \A ip \in Ips : ProbeOk(ip)

LEMMA ProbeInit == GatewayInit => ProbeInv
<1> SUFFICES ASSUME GatewayInit PROVE ProbeInv
  OBVIOUS
<1>1. /\ g_conn_buckets = <<>> /\ quiet = [i \in Ips |-> 0]
      /\ pc = [h \in Handlers |-> "idle"]
  BY DEF GatewayInit, runtime_monitor_init
<1>2. OneRowEach(g_conn_buckets) /\ \A ip \in Ips : CountIn(g_conn_buckets, ip) = 0
  BY <1>1 DEF OneRowEach, CountIn, RowsIn
<1>3. SlotsOk
  BY <1>1 DEF SlotsOk
<1>4. ASSUME NEW ip \in Ips, Handlers /= {} PROVE ProbeOk(ip)
  <2>1. Reporting(ip) = {} /\ Resetting(ip) = {}
    BY <1>1 DEF Reporting, Resetting
  <2>2. IsFiniteSet(Handlers) /\ Cardinality({}) = 0 /\ quiet[ip] = 0
    BY <1>1, GatewayAssumption, FS_EmptySet
  <2>3. 0 + 1 <= Cardinality(Handlers) /\ Cardinality(Handlers) \in Nat
    <3>1. Cardinality(Handlers) \in Nat /\ Cardinality(Handlers) /= 0
      BY <1>4, <2>2, FS_CardinalityType, FS_EmptySet
    <3> QED
      BY <3>1, SMT
  <2>4. ProbeSum(0, 0, 0, 0)
    <3> DEFINE k == ProbeThreshold - 1
               n == Cardinality(Handlers)
    <3>1. k \in Nat /\ n \in Nat /\ 0 \in Nat /\ 0 < n
      BY <2>3, ThresholdNat
    <3>2. k * 0 + k <= k * n
      BY <3>1, TimesLess
    <3>3. k * 0 \in Nat /\ k * n \in Nat
      BY <3>1, TimesNat
    <3>4. Low(0) = 0
      BY ThresholdNat DEF Low
    <3>5. 0 + k * 0 + k <= k * n + Low(0) + 0
      <4> HIDE DEF k, n
      <4> QED
        BY <3>1, <3>2, <3>3, <3>4, SMT
    <3> QED
      BY <3>5 DEF ProbeSum
  <2> QED
    BY <1>2, <1>4, <2>1, <2>2, <2>4 DEF ProbeOk
<1> QED
  BY <1>1, <1>2, <1>3, <1>4 DEF ProbeInv

\* What a step leaves alone of an address's connections stays right.
LEMMA ProbeKept ==
    ASSUME NEW ip, ProbeOk(ip), Reporting(ip)' = Reporting(ip),
           Resetting(ip)' = Resetting(ip), quiet'[ip] = quiet[ip],
           CountIn(g_conn_buckets, ip)' = CountIn(g_conn_buckets, ip)
    PROVE  ProbeOk(ip)'
BY DEF ProbeOk

\* The numbers are numbers.
LEMMA ProbeNumbers ==
    ASSUME MonitorTypeOK, ProbeInv, NEW ip \in Ips
    PROVE  /\ quiet[ip] \in Nat /\ CountIn(g_conn_buckets, ip) \in Nat
           /\ IsFiniteSet(Reporting(ip)) /\ Cardinality(Reporting(ip)) \in Nat
           /\ IsFiniteSet(Resetting(ip)) /\ Cardinality(Resetting(ip)) \in Nat
           /\ IsFiniteSet(Handlers) /\ Cardinality(Handlers) \in Nat
           /\ \A i \in DOMAIN g_conn_buckets : g_conn_buckets[i] \in Bucket
<1>1. /\ IsFiniteSet(Reporting(ip)) /\ Cardinality(Reporting(ip)) \in Nat
      /\ IsFiniteSet(Resetting(ip)) /\ Cardinality(Resetting(ip)) \in Nat
      /\ IsFiniteSet(Handlers) /\ Cardinality(Handlers) \in Nat
  BY HandlersFinite DEF Reporting, Resetting
<1>2. CountIn(g_conn_buckets, ip) \in Nat
  BY CountNat DEF MonitorTypeOK
<1>3. \A i \in DOMAIN g_conn_buckets : g_conn_buckets[i] \in Bucket
  BY ElementOfSeq, LenProperties DEF MonitorTypeOK
<1> QED
  BY <1>1, <1>2, <1>3 DEF ProbeInv

\* A handler that is not among those that report or reset leaves room.
LEMMA RoomLeft ==
    ASSUME NEW R, R \subseteq Handlers, NEW h \in Handlers, h \notin R
    PROVE  Cardinality(R) < Cardinality(Handlers)
<1>1. IsFiniteSet(Handlers) /\ IsFiniteSet(R)
  BY HandlersFinite
<1>2. /\ Cardinality(R) <= Cardinality(Handlers) /\ Cardinality(R) \in Nat
      /\ Cardinality(Handlers) \in Nat
      /\ Cardinality(R) = Cardinality(Handlers) => R = Handlers
  BY <1>1, FS_Subset, FS_CardinalityType
<1>3. R /= Handlers
  OBVIOUS
<1> QED
  BY <1>2, <1>3, SMT

\* A connection of an address whose bucket, if it has one, stays its own.
LEMMA ConnectStep ==
    ASSUME LocalsInv, MonitorInv, ProbeInv, NEW h \in Handlers, Connect(h), ~evicted',
           NEW ip, ip = req[h].ip, NEW n, n = t[h]
    PROVE  OneRowEach(g_conn_buckets)' /\ SlotsOk' /\ \A i \in Ips : ProbeOk(i)'
<1> DEFINE s == g_conn_buckets
<1>1. /\ s \in Seq(Bucket) /\ Len(s) <= ConnMax /\ Len(s) \in Nat /\ OneRowEach(s)
      /\ ip \in Ips /\ n \in Nat /\ MonitorTypeOK
  BY RequestType, LenProperties DEF Connect, LocalsInv, MonitorInv, MonitorTypeOK, ProbeInv
<1>2. ~evicted /\ ~Evicts(ip)
  BY DEF Connect
<1>3. SlotsOk /\ \A i \in Ips : ProbeOk(i)
  BY <1>2 DEF ProbeInv
<1>4. /\ req' = req
      /\ pc[h] = "connect" /\ pc'[h] \in {"check", "probe"}
      /\ pc'[h] = "check" => slot' = slot
      /\ \A k \in Handlers \ {h} : pc'[k] = pc[k] /\ slot'[k] = slot[k]
  BY DEF Connect, Goto, LocalsInv, MonitorInv
<1>5. \A i \in Ips : Resetting(i)' = Resetting(i) /\ h \notin Resetting(i)
                    /\ h \notin Reporting(i)
  BY <1>4 DEF Resetting, Reporting
<1>6. /\ \A i \in Ips \ {ip} : Reporting(i)' = Reporting(i)
      /\ pc'[h] = "check" => Reporting(ip)' = Reporting(ip)
      /\ pc'[h] = "probe" => Reporting(ip)' = Reporting(ip) \cup {h}
  BY <1>4 DEF Reporting
<1>7. quiet' = [quiet EXCEPT ![ip] =
                  IF \E e \in {b.last_seen_sec : b \in {s[i] : i \in RowsIn(s, ip)}} :
                        e + ConnWindow < n
                  THEN 1 ELSE @ + 1]
  BY <1>2 DEF Connect, Counting, BucketsOf, RowsIn
<1>8. \A i \in Ips \ {ip} : quiet'[i] = quiet[i]
  BY <1>7 DEF ProbeInv
<1>9. /\ quiet[ip] \in Nat /\ CountIn(s, ip) \in Nat /\ IsFiniteSet(Handlers)
      /\ Cardinality(Reporting(ip)) \in Nat /\ Cardinality(Resetting(ip)) \in Nat
      /\ \A i \in DOMAIN s : s[i] \in Bucket
  BY <1>1, ProbeNumbers
<1>10. ProbeOk(ip)
  BY <1>1, <1>3
\* Any other address is as it was.
<1>11. ASSUME OneRowEach(s'), \A i \in Ips : RowsIn(s, i) \subseteq RowsIn(s', i),
              \A i \in Ips \ {ip} : CountIn(s', i) = CountIn(s, i),
              pc'[h] = "probe" => slot'[h] \in RowsIn(s', ip),
              ProbeOk(ip)'
       PROVE  OneRowEach(g_conn_buckets)' /\ SlotsOk' /\ \A i \in Ips : ProbeOk(i)'
  <2>1. \A i \in Ips \ {ip} : ProbeOk(i)'
    BY <1>3, <1>5, <1>6, <1>8, <1>11, ProbeKept
  <2>2. ASSUME NEW k \in Handlers, pc'[k] \in {"probe", "reset"}
        PROVE  slot'[k] \in RowsIn(s', req'[k].ip)
    <3>1. CASE k = h
      BY <1>4, <1>11, <2>2, <3>1
    <3>2. CASE k /= h
      <4>1. /\ slot[k] \in RowsIn(s, req[k].ip) /\ slot'[k] = slot[k]
            /\ req'[k] = req[k] /\ pc[k] \in {"probe", "reset"}
        BY <1>3, <1>4, <2>2, <3>2 DEF SlotsOk
      <4>2. req[k].ip \in Ips
        BY <4>1, RequestType DEF LocalsInv
      <4> QED
        BY <1>11, <4>1, <4>2
    <3> QED
      BY <3>1, <3>2
  <2> QED
    BY <1>11, <2>1, <2>2 DEF SlotsOk
<1>12. CASE record_new(ip, n) /\ pc'[h] = "check"
  <2> DEFINE b == NewBucket(ip, n)
  <2>1. b \in Bucket /\ b.ip = ip /\ b.count = 1
    BY <1>1 DEF NewBucket, Bucket
  <2>2. RowsIn(s, ip) = {} /\ s' = Append(s, b)
    <3>1. RowsIn(s, ip) = {}
      BY <1>12 DEF record_new, BucketsOf, RowsIn
    <3>2. Len(s) /= ConnMax
      BY <1>2, <3>1 DEF Evicts, BucketsOf, RowsIn
    <3>3. Len(s) < ConnMax
      BY <1>1, <3>2, ThresholdNat, SMT
    <3> QED
      BY <1>12, <3>1, <3>3 DEF record_new
  <2>3. /\ OneRowEach(s') /\ CountIn(s, ip) = 0 /\ CountIn(s', ip) = 1
        /\ \A i \in Ips : RowsIn(s, i) \subseteq RowsIn(s', i)
        /\ \A i \in Ips \ {ip} : CountIn(s', i) = CountIn(s, i)
    <3> HIDE DEF b
    <3> QED
      BY <1>1, <2>1, <2>2, RowAppended
  <2>4. quiet'[ip] = quiet[ip] + 1
    BY <1>1, <1>7, <2>2 DEF ProbeInv
  <2>5. ProbeSum(quiet[ip] + 1, Cardinality(Resetting(ip)), 0 + 1, Cardinality(Reporting(ip)))
    <3>1. ProbeSum(quiet[ip], Cardinality(Resetting(ip)), 0, Cardinality(Reporting(ip)))
      BY <1>10, <2>3 DEF ProbeOk
    <3>2. 0 + 1 < ProbeThreshold /\ 0 \in Nat
      BY ThresholdNat, SMT
    <3> QED
      BY <1>9, <3>1, <3>2, SumSteps
  <2>6. 0 + 1 = 1
    OBVIOUS
  <2>7. ProbeOk(ip)'
    <3>1. ~(Reporting(ip)' \cup Resetting(ip)' = Handlers)
      BY <1>1, <1>5, <1>6, <1>12
    <3>2. Reporting(ip)' = Reporting(ip) /\ Resetting(ip)' = Resetting(ip)
      BY <1>1, <1>5, <1>6, <1>12
    <3> QED
      BY <2>3, <2>4, <2>5, <2>6, <3>1, <3>2 DEF ProbeOk
  <2> QED
    BY <1>11, <1>12, <2>3, <2>7
<1>13. ASSUME NEW i \in BucketsOf(ip), record_known(i, n),
              IF Touched(i, n).count >= ProbeThreshold
              THEN Goto(h, "probe") /\ slot' = [slot EXCEPT ![h] = i]
              ELSE Goto(h, "check") /\ UNCHANGED slot
       PROVE  OneRowEach(g_conn_buckets)' /\ SlotsOk' /\ \A j \in Ips : ProbeOk(j)'
  <2> DEFINE b == Touched(i, n)
             late == s[i].last_seen_sec + ConnWindow < n
             c == CountIn(s, ip)
             q == quiet[ip]
             r == Cardinality(Resetting(ip))
             p == Cardinality(Reporting(ip))
  <2>1. i \in DOMAIN s /\ s[i].ip = ip /\ i \in RowsIn(s, ip)
    BY <1>13 DEF BucketsOf, RowsIn
  <2>2. RowsIn(s, ip) = {i} /\ c = s[i].count
    BY <1>1, <2>1, CountOfRow
  <2>3. b \in Bucket /\ b.ip = ip /\ b.count = IF late THEN 1 ELSE c + 1
    BY <1>1, <2>1, <2>2, TouchedType
  <2> HIDE DEF b
  <2>4. DOMAIN s' = DOMAIN s /\ s'[i] = b /\ \A k \in DOMAIN s : k /= i => s'[k] = s[k]
    BY <1>13, <2>1 DEF record_known, b
  <2>5. /\ OneRowEach(s') /\ CountIn(s', ip) = b.count
        /\ \A j \in Ips : RowsIn(s', j) = RowsIn(s, j)
        /\ \A j \in Ips \ {ip} : CountIn(s', j) = CountIn(s, j)
    BY <1>1, <2>1, <2>3, <2>4, RowWritten
  <2>6. quiet'[ip] = IF late THEN 1 ELSE q + 1
    <3>1. (\E e \in {d.last_seen_sec : d \in {s[k] : k \in RowsIn(s, ip)}} :
             e + ConnWindow < n) <=> late
      BY <2>2
    <3> HIDE DEF late
    <3> QED
      BY <1>1, <1>7, <3>1 DEF ProbeInv
  <2>7. /\ b.count >= ProbeThreshold => pc'[h] = "probe" /\ slot'[h] = i
        /\ ~(b.count >= ProbeThreshold) => pc'[h] = "check"
    BY <1>13 DEF Goto, LocalsInv, MonitorInv, b
  <2>8. /\ ProbeSum(q, r, c, p) /\ q \in Nat /\ r \in Nat /\ c \in Nat /\ p \in Nat
    BY <1>9, <1>10 DEF ProbeOk
  <2>9. Resetting(ip)' = Resetting(ip)
    BY <1>1, <1>5
  <2>10. ProbeOk(ip)'
    <3>1. CASE late
      <4>1. b.count = 1 /\ quiet'[ip] = 1
        BY <2>3, <2>6, <3>1
      <4>2. pc'[h] = "check"
        <5>1. ~(1 >= ProbeThreshold)
          BY ThresholdNat, SMT
        <5> QED
          BY <2>7, <4>1, <5>1
      <4>3. Reporting(ip)' = Reporting(ip) /\ h \notin Reporting(ip)' \cup Resetting(ip)'
        BY <1>1, <1>5, <1>6, <2>9, <4>2
      <4>4. r < Cardinality(Handlers)
        BY <1>1, <1>5, RoomLeft DEF Resetting
      <4>5. ProbeSum(1, r, 1, p)
        BY <1>9, <2>8, <4>4, SumSteps
      <4> QED
        BY <2>5, <2>9, <4>1, <4>3, <4>5 DEF ProbeOk
    <3>2. CASE ~late /\ c + 1 >= ProbeThreshold
      <4>1. b.count = c + 1 /\ quiet'[ip] = q + 1 /\ pc'[h] = "probe"
        BY <2>3, <2>6, <2>7, <3>2
      <4>2. Reporting(ip)' = Reporting(ip) \cup {h}
        BY <1>6, <4>1
      <4>3. Cardinality(Reporting(ip)') = p + 1
        BY <1>1, <1>5, <4>2, AddOne DEF Reporting
      <4>4. ProbeSum(q + 1, r, c + 1, p + 1)
        BY <1>9, <2>8, <3>2, SumSteps
      <4> QED
        BY <2>5, <2>9, <3>2, <4>1, <4>3, <4>4 DEF ProbeOk
    <3>3. CASE ~late /\ ~(c + 1 >= ProbeThreshold)
      <4>1. b.count = c + 1 /\ quiet'[ip] = q + 1 /\ pc'[h] = "check"
        BY <2>3, <2>6, <2>7, <3>3
      <4>2. Reporting(ip)' = Reporting(ip) /\ h \notin Reporting(ip)' \cup Resetting(ip)'
        BY <1>1, <1>5, <1>6, <2>9, <4>1
      <4>3. c + 1 < ProbeThreshold
        BY <2>8, <3>3, ThresholdNat, SMT
      <4>4. ProbeSum(q + 1, r, c + 1, p)
        BY <1>9, <2>8, <4>3, SumSteps
      <4> QED
        BY <2>5, <2>9, <4>1, <4>2, <4>4 DEF ProbeOk
    <3> QED
      BY <3>1, <3>2, <3>3
  <2>11. pc'[h] = "probe" => slot'[h] \in RowsIn(s', ip)
    BY <1>1, <2>1, <2>5, <2>7
  <2> QED
    BY <1>11, <2>5, <2>10, <2>11
<1>14. record_new(ip, n) => pc'[h] = "check"
  <2>1. record_new(ip, n) => BucketsOf(ip) = {}
    BY DEF record_new
  <2> QED
    BY <2>1 DEF Connect, Goto, LocalsInv
<1> QED
  BY <1>12, <1>13, <1>14 DEF Connect

LEMMA ProbeStep ==
    LocalsInv /\ MonitorInv /\ ProbeInv /\ [GatewayNext]_gatewayVars => ProbeInv'
<1> SUFFICES ASSUME LocalsInv, MonitorInv, ProbeInv, [GatewayNext]_gatewayVars
             PROVE  ProbeInv'
  OBVIOUS
<1> DEFINE s == g_conn_buckets
<1>0. MonitorTypeOK /\ s \in Seq(Bucket) /\ OneRowEach(s)
  BY DEF MonitorInv, MonitorTypeOK, ProbeInv
\* The steps before and after.
<1>1. ASSUME UNCHANGED <<g_conn_buckets, quiet, evicted>>,
             \A h \in Handlers :
                \/ pc'[h] = pc[h] /\ req'[h] = req[h] /\ slot'[h] = slot[h]
                \/ pc[h] \notin {"probe", "reset"} /\ pc'[h] \notin {"probe", "reset"}
      PROVE  ProbeInv'
  <2>1. \A ip \in Ips : Reporting(ip)' = Reporting(ip) /\ Resetting(ip)' = Resetting(ip)
    BY <1>1 DEF Reporting, Resetting
  <2>2. \A ip \in Ips : ProbeOk(ip) => ProbeOk(ip)'
    BY <1>1, <2>1, ProbeKept
  <2>3. SlotsOk => SlotsOk'
    BY <1>1 DEF SlotsOk
  <2> QED
    BY <1>1, <2>2, <2>3 DEF ProbeInv
<1>2. ASSUME NEW h \in Handlers,
             \/ Receive(h) \/ CheckForm(h) \/ CheckLimited(h) \/ CheckBody(h)
             \/ CountRead(h) \/ CountWrite(h) \/ Reject(h) \/ Serve(h) \/ Answered(h)
             \/ WebsocketEnds(h)
      PROVE  ProbeInv'
  <2>1. UNCHANGED <<g_conn_buckets, quiet, evicted>>
    BY <1>2 DEF Receive, CheckForm, CheckLimited, CheckBody, CountRead, CountWrite,
       Reject, Serve, Answered, WebsocketEnds, monitorVars, ghostVars
  <2>2. /\ \A k \in Handlers \ {h} : pc'[k] = pc[k] /\ req'[k] = req[k] /\ slot'[k] = slot[k]
        /\ pc[h] \notin {"probe", "reset"} /\ pc'[h] \notin {"probe", "reset"}
    BY <1>2 DEF Receive, CheckForm, CheckLimited, CheckBody, CountRead, CountWrite,
       Reject, Serve, Answered, WebsocketEnds, Done, Says, Goto, LocalsInv
  <2> QED
    BY <1>1, <2>1, <2>2
<1>3. CASE Tick \/ UNCHANGED gatewayVars
  <2>1. UNCHANGED <<g_conn_buckets, quiet, evicted, pc, req, slot>>
    BY <1>3 DEF Tick, gatewayVars, monitorVars, localVars, ghostVars
  <2> QED
    BY <1>1, <2>1
<1>4. ASSUME NEW h \in Handlers, Connect(h) PROVE ProbeInv'
  <2>1. quiet' \in [Ips -> Nat]
    <3>1. quiet \in [Ips -> Nat] /\ \A n \in Nat : n + 1 \in Nat
      BY DEF ProbeInv
    <3>2. Counting(req[h].ip, t[h])
      BY <1>4 DEF Connect
    <3> QED
      BY <3>1, <3>2 DEF Counting
  <2>2. OneRowEach(s')
    <3>1. req[h].ip \in Ips /\ t[h] \in Nat
      BY <1>4, RequestType DEF Connect, LocalsInv
    <3>2. CASE record_new(req[h].ip, t[h])
      <4> DEFINE b == NewBucket(req[h].ip, t[h])
      <4>1. b \in Bucket /\ b.ip = req[h].ip
        BY <3>1 DEF NewBucket, Bucket
      <4>2. RowsIn(s, b.ip) = {} /\ (s' = Append(s, b) \/ s' = [s EXCEPT ![Oldest] = b])
        BY <3>2, <4>1 DEF record_new, RowsIn, BucketsOf
      <4> HIDE DEF b
      <4>3. OneRowEach(Append(s, b))
        BY <1>0, <4>1, <4>2, RowAppended
      <4>4. OneRowEach([s EXCEPT ![Oldest] = b])
        BY <1>0, <4>1, <4>2, RowGiven
      <4> QED
        BY <4>2, <4>3, <4>4
    <3>3. ASSUME NEW i \in BucketsOf(req[h].ip), record_known(i, t[h])
          PROVE  OneRowEach(s')
      <4> DEFINE b == Touched(i, t[h])
      <4>1. i \in DOMAIN s /\ b \in Bucket /\ b.ip = s[i].ip /\ s' = [s EXCEPT ![i] = b]
        BY <1>0, <3>1, <3>3, TouchedType DEF BucketsOf, record_known
      <4>2. DOMAIN s' = DOMAIN s /\ s'[i] = b /\ \A k \in DOMAIN s : k /= i => s'[k] = s[k]
        BY <4>1
      <4> HIDE DEF b
      <4> QED
        BY <1>0, <4>1, <4>2, RowWritten
    <3> QED
      BY <1>4, <3>2, <3>3 DEF Connect
  <2>3. CASE evicted'
    BY <1>4, <2>1, <2>2, <2>3 DEF ProbeInv
  <2>4. CASE ~evicted'
    <3>1. SlotsOk' /\ \A i \in Ips : ProbeOk(i)'
      BY <1>4, <2>4, ConnectStep
    <3> QED
      BY <1>4, <2>1, <2>2, <3>1 DEF ProbeInv
  <2> QED
    BY <2>3, <2>4
<1>5. ASSUME NEW h \in Handlers, NEW ip \in Ips, ip = req[h].ip, Probe(h) PROVE ProbeInv'
  <2>1. /\ UNCHANGED <<g_conn_buckets, evicted, req, slot>>
        /\ quiet' = [quiet EXCEPT ![ip] = 0]
        /\ pc[h] = "probe" /\ pc' = [pc EXCEPT ![h] = "reset"]
    BY <1>5 DEF Probe, Goto
  <2>2. quiet' \in [Ips -> Nat] /\ quiet'[ip] = 0
        /\ \A i \in Ips \ {ip} : quiet'[i] = quiet[i]
    BY <2>1 DEF ProbeInv
  <2>3. /\ h \in Reporting(ip) /\ h \notin Resetting(ip)
        /\ Reporting(ip)' = Reporting(ip) \ {h}
        /\ Resetting(ip)' = Resetting(ip) \cup {h}
        /\ \A i \in Ips \ {ip} : Reporting(i)' = Reporting(i) /\ Resetting(i)' = Resetting(i)
    BY <1>5, <2>1 DEF Reporting, Resetting, LocalsInv
  <2>4. SlotsOk => SlotsOk'
    BY <2>1 DEF SlotsOk, LocalsInv
  <2>5. ASSUME ~evicted PROVE ProbeOk(ip)'
    <3> DEFINE c == CountIn(s, ip)
               r == Cardinality(Resetting(ip))
               p == Cardinality(Reporting(ip)')
    <3>1. ProbeOk(ip)
      BY <2>5 DEF ProbeInv
    <3>2. /\ Cardinality(Resetting(ip)') = r + 1
          /\ r \in Nat /\ c \in Nat /\ p \in Nat /\ IsFiniteSet(Handlers)
          /\ r + 1 <= Cardinality(Handlers) /\ Cardinality(Handlers) \in Nat
      <4>1. Cardinality(Resetting(ip)') = r + 1
        BY <2>3, AddOne DEF Resetting
      <4>2. r \in Nat /\ c \in Nat /\ IsFiniteSet(Handlers) /\ Cardinality(Handlers) \in Nat
        BY <1>0, ProbeNumbers
      <4>3. p \in Nat /\ Cardinality(Resetting(ip)') <= Cardinality(Handlers)
        BY HandlersFinite DEF Resetting, Reporting
      <4> QED
        BY <4>1, <4>2, <4>3
    <3>3. ProbeSum(0, r + 1, c, p)
      <4>1. CASE r + 1 < Cardinality(Handlers)
        BY <3>2, <4>1, SumSteps
      <4>2. CASE r + 1 = Cardinality(Handlers)
        <5>1. Resetting(ip)' = Handlers
          <6>1. IsFiniteSet(Handlers) /\ Resetting(ip)' \subseteq Handlers
            BY <3>2 DEF Resetting
          <6> QED
            BY <3>2, <4>2, <6>1, FS_Subset
        <5>2. Reporting(ip) \cup Resetting(ip) = Handlers
          BY <2>3, <5>1 DEF Reporting, Resetting
        <5>3. c >= ProbeThreshold
          BY <3>1, <5>2 DEF ProbeOk
        <5> QED
          BY <3>2, <4>2, <5>3, SumSteps
      <4> QED
        BY <3>2, <4>1, <4>2, SMT
    <3>4. Reporting(ip)' \cup Resetting(ip)' = Reporting(ip) \cup Resetting(ip)
      BY <2>3
    <3> QED
      BY <2>1, <2>2, <3>1, <3>2, <3>3, <3>4 DEF ProbeOk
  <2>6. ASSUME ~evicted, NEW i \in Ips, i /= ip PROVE ProbeOk(i)'
    <3>1. ProbeOk(i)
      BY <2>6 DEF ProbeInv
    <3> QED
      BY <2>1, <2>2, <2>3, <2>6, <3>1, ProbeKept
  <2> QED
    BY <2>1, <2>2, <2>4, <2>5, <2>6 DEF ProbeInv
<1>6. ASSUME NEW h \in Handlers, NEW ip \in Ips, ip = req[h].ip, ResetBucket(h)
      PROVE  ProbeInv'
  <2>1. /\ UNCHANGED <<quiet, evicted, req>> /\ pc[h] = "reset"
        /\ pc' = [pc EXCEPT ![h] = "check"] /\ slot' = [slot EXCEPT ![h] = 0]
        /\ slot[h] \in DOMAIN s /\ s' = [s EXCEPT ![slot[h]].count = 0]
    BY <1>6, LenProperties
    DEF ResetBucket, Goto, ghostVars, reset_count, MonitorInv, MonitorTypeOK
  <2> DEFINE b == [s[slot[h]] EXCEPT !.count = 0]
  <2>2. s[slot[h]] \in Bucket
    BY <1>0, <2>1, ProbeNumbers
  <2>3. b \in Bucket /\ b.ip = s[slot[h]].ip /\ b.count = 0
    BY <2>2 DEF Bucket
  <2>4. /\ DOMAIN s' = DOMAIN s /\ s'[slot[h]] = b
        /\ \A k \in DOMAIN s : k /= slot[h] => s'[k] = s[k]
    BY <2>1
  <2> HIDE DEF b
  <2>5. /\ OneRowEach(s') /\ CountIn(s', b.ip) = 0
        /\ \A i : RowsIn(s', i) = RowsIn(s, i)
        /\ \A i : i /= b.ip => CountIn(s', i) = CountIn(s, i)
    <3>1. PICK x \in DOMAIN s : x = slot[h]
      BY <2>1
    <3>2. /\ b.ip = s[x].ip /\ DOMAIN s' = DOMAIN s /\ s'[x] = b
          /\ \A k \in DOMAIN s : k /= x => s'[k] = s[k]
      BY <2>3, <2>4, <3>1
    <3> QED
      BY <1>0, <2>3, <3>2, RowWritten
  <2>6. /\ h \in Resetting(ip) /\ h \notin Reporting(ip)
        /\ Resetting(ip)' = Resetting(ip) \ {h} /\ Reporting(ip)' = Reporting(ip)
        /\ \A i \in Ips \ {ip} : Reporting(i)' = Reporting(i) /\ Resetting(i)' = Resetting(i)
    BY <1>6, <2>1 DEF Reporting, Resetting, LocalsInv
  <2>7. ASSUME ~evicted PROVE SlotsOk' /\ \A i \in Ips : ProbeOk(i)'
    <3>1. SlotsOk /\ \A i \in Ips : ProbeOk(i)
      BY <1>6, <2>7 DEF ProbeInv
    <3>2. b.ip = ip
      BY <1>6, <2>1, <2>3, <3>1 DEF SlotsOk, RowsIn
    <3>3. SlotsOk'
      BY <2>1, <2>5, <3>1 DEF SlotsOk, LocalsInv, MonitorInv
    <3>4. ASSUME NEW i \in Ips, i /= ip PROVE ProbeOk(i)'
      BY <2>1, <2>5, <2>6, <3>1, <3>2, <3>4, ProbeKept
    <3>5. ProbeOk(ip)'
      <4> DEFINE q == quiet[ip]
                 r == Cardinality(Resetting(ip)')
                 c == CountIn(s, ip)
                 p == Cardinality(Reporting(ip))
      <4>1. q \in Nat /\ c \in Nat /\ p \in Nat /\ IsFiniteSet(Handlers)
        BY <1>0, ProbeNumbers
      <4>2. Cardinality(Resetting(ip)) = r + 1 /\ r \in Nat
        <5>1. r = Cardinality(Resetting(ip)) - 1
          BY <2>6, TakeOne DEF Resetting
        <5>2. r \in Nat /\ Cardinality(Resetting(ip)) \in Nat
          BY HandlersFinite DEF Resetting
        <5> QED
          BY <5>1, <5>2, SMT
      <4>3. ProbeSum(q, r + 1, c, p)
        BY <3>1, <4>2 DEF ProbeOk
      <4>4. ProbeSum(q, r, 0, p)
        BY <4>1, <4>2, <4>3, SumSteps
      <4>5. h \notin Reporting(ip)' \cup Resetting(ip)'
        BY <2>6
      <4> QED
        BY <2>1, <2>5, <2>6, <3>2, <4>4, <4>5 DEF ProbeOk
    <3> QED
      BY <3>3, <3>4, <3>5
  <2> QED
    BY <1>6, <2>1, <2>5, <2>7 DEF ProbeInv
<1>7. ASSUME NEW h \in Handlers, Probe(h) \/ ResetBucket(h) PROVE ProbeInv'
  <2>1. req[h].ip \in Ips
    BY <1>7, RequestType DEF Probe, ResetBucket, LocalsInv
  <2> QED
    BY <1>5, <1>6, <1>7, <2>1
<1> QED
  BY <1>2, <1>3, <1>4, <1>7 DEF GatewayNext, Handle

\* The connections of an address are counted in one bucket, and as long as
\* none was evicted they do not go unreported, for every threshold, number of
\* handlers and order in which they come back from an event: the slots they
\* reset are still those of their address.
THEOREM ProbesAreReported == GatewaySpec => []ProbesReported
<1>1. ProbeInv /\ MonitorInv => ProbesReported
  <2> SUFFICES ASSUME ProbeInv, MonitorInv PROVE ProbesReported
    OBVIOUS
  <2>1. OneBucketEach
    BY DEF ProbeInv, OneRowEach, OneBucketEach
  <2>2. ASSUME ~evicted, NEW ip \in Ips
        PROVE  quiet[ip] <= (ProbeThreshold - 1) * Cardinality(Handlers)
                              + Cardinality(Reporting(ip))
    <3>1. /\ quiet[ip] \in Nat /\ CountIn(g_conn_buckets, ip) \in Nat
          /\ Cardinality(Reporting(ip)) \in Nat /\ Cardinality(Resetting(ip)) \in Nat
          /\ IsFiniteSet(Handlers) /\ Cardinality(Handlers) \in Nat
      BY ProbeNumbers DEF MonitorInv
    <3>2. CASE Handlers = {}
      <4>1. quiet[ip] = 0
        BY <3>2 DEF ProbeInv
      <4>2. (ProbeThreshold - 1) * Cardinality(Handlers) \in Nat
        <5>1. ProbeThreshold - 1 \in Nat
          BY ThresholdNat, SMT
        <5> QED
          BY <3>1, <5>1, TimesNat
      <4> QED
        BY <3>1, <4>1, <4>2, SMT
    <3>3. CASE Handlers /= {}
      <4>1. ProbeOk(ip)
        BY <2>2, <3>3 DEF ProbeInv
      <4> QED
        BY <3>1, <4>1, SumSteps DEF ProbeOk
    <3> QED
      BY <3>2, <3>3
  <2> QED
    BY <2>1, <2>2 DEF ProbesReported, ProbeNoticed
<1>2. GatewaySpec => [](ProbeInv /\ MonitorInv)
  BY LocalsInit, MonitorInit, ProbeInit, LocalsStep, MonitorStep, ProbeStep, PTL
  DEF GatewaySpec
<1> QED
  BY <1>1, <1>2, PTL
=============================================================================
