--------------------------- MODULE RuntimeMonitor ---------------------------
(***************************************************************************)
(* src/src/runtime_monitor/runtime_monitor.c: the ring of recent events    *)
(* and the connection counts per address that detect a port probe.  Both   *)
(* are guarded by g_mutex; each operator here is what one critical section *)
(* does.  The gateway's handlers (module Gateway) put them in sequence.    *)
(***************************************************************************)
EXTENDS Naturals, Sequences, FiniteSets

CONSTANTS Ips,              \* client addresses
          EventMax,         \* RUNTIME_MONITOR_EVENT_MAX
          AgentEvents,      \* 10, the events an agent is told of
          ConnMax,          \* CONNECTION_IPS_MAX
          ConnWindow,       \* CONNECTION_WINDOW_SEC
          ProbeThreshold    \* CONNECTION_PROBE_THRESHOLD

ASSUME MonitorAssumption ==
    /\ EventMax \in Nat \ {0} /\ AgentEvents \in Nat /\ ConnMax \in Nat \ {0}
    /\ ConnWindow \in Nat /\ ProbeThreshold \in Nat \ {0, 1}

VARIABLES g_events, g_event_head, g_event_count,
          g_conn_buckets    \* g_conn_buckets[0..g_conn_bucket_count-1]

monitorVars == <<g_events, g_event_head, g_event_count, g_conn_buckets>>
ringVars == <<g_events, g_event_head, g_event_count>>

EventTypes == {"reject", "rate", "injection", "traversal", "probe", "other"}
Events == [type : EventTypes, ip : Ips]
Empty == [type |-> "reject", ip |-> ""]   \* a slot after the memset

Bucket == [ip : Ips, last_seen_sec : Nat, count : Nat]

runtime_monitor_init ==
    /\ g_events = [i \in 0..EventMax - 1 |-> Empty]
    /\ g_event_head = 0 /\ g_event_count = 0
    /\ g_conn_buckets = <<>>
-----------------------------------------------------------------------------
Slot(k) == (g_event_head + k) % EventMax

\* Mistake: the head stays where it is when the oldest event is overwritten.
push_event_keeps_head(type, ip) ==
    LET full == g_event_count >= EventMax
    IN  /\ g_events' = [g_events EXCEPT ![Slot(g_event_count)] = [type |-> type, ip |-> ip]]
        /\ g_event_head' = g_event_head
        /\ g_event_count' = IF full THEN g_event_count ELSE g_event_count + 1

\* Mistake: the head is not wrapped.
push_event_unwrapped(type, ip) ==
    LET full == g_event_count >= EventMax
    IN  /\ g_events' = [g_events EXCEPT ![Slot(g_event_count)] = [type |-> type, ip |-> ip]]
        /\ g_event_head' = IF full THEN g_event_head + 1 ELSE g_event_head
        /\ g_event_count' = IF full THEN g_event_count ELSE g_event_count + 1

\* The slot is computed before the oldest event is given up, with a count that
\* may be EventMax; the two agree modulo EventMax.
push_event(type, ip) ==
    LET full == g_event_count >= EventMax
    IN  /\ g_events' = [g_events EXCEPT ![Slot(g_event_count)] = [type |-> type, ip |-> ip]]
        /\ g_event_head' = IF full THEN Slot(1) ELSE g_event_head
        /\ g_event_count' = IF full THEN g_event_count ELSE g_event_count + 1

\* What the ring holds, the oldest first: what EventWindow sees of it.
Recent == [k \in 1..g_event_count |-> g_events[Slot(k - 1)]]

\* Mistake: the newest event is looked for where the next one will go.
newest_is_next(k) == g_events[(g_event_head + g_event_count - k + 1 + EventMax) % EventMax]

\* The k-th event of what an agent is told, the newest first.
newest(k) == g_events[(g_event_head + g_event_count - k + EventMax) % EventMax]

\* runtime_monitor_get_recent_for_agent.
AgentView ==
    LET n == IF g_event_count > AgentEvents THEN AgentEvents ELSE g_event_count
    IN  [k \in 1..n |-> newest(k)]
-----------------------------------------------------------------------------
BucketsOf(ip) == {i \in DOMAIN g_conn_buckets : g_conn_buckets[i].ip = ip}

\* Mistake: only the time is taken down.
TouchedInTime(i, t) == [g_conn_buckets[i] EXCEPT !.last_seen_sec = t]

\* A connection of ip, made at time t, in its bucket i.
Touched(i, t) ==
    LET b == g_conn_buckets[i]
    IN  [b EXCEPT !.last_seen_sec = t,
                  !.count = IF b.last_seen_sec + ConnWindow < t THEN 1 ELSE b.count + 1]

Oldest == CHOOSE i \in DOMAIN g_conn_buckets :
             \A j \in DOMAIN g_conn_buckets :
                \/ g_conn_buckets[i].last_seen_sec < g_conn_buckets[j].last_seen_sec
                \/ g_conn_buckets[i].last_seen_sec = g_conn_buckets[j].last_seen_sec /\ i <= j

NewBucket(ip, t) == [ip |-> ip, last_seen_sec |-> t, count |-> 1]

\* An address without a bucket gets one, at the expense of the oldest if the
\* table is full.
record_new(ip, t) ==
    /\ BucketsOf(ip) = {}
    /\ IF Len(g_conn_buckets) < ConnMax
       THEN g_conn_buckets' = Append(g_conn_buckets, NewBucket(ip, t))
       ELSE g_conn_buckets' = [g_conn_buckets EXCEPT ![Oldest] = NewBucket(ip, t)]

record_known(i, t) == g_conn_buckets' = [g_conn_buckets EXCEPT ![i] = Touched(i, t)]

reset_count(i) == g_conn_buckets' = [g_conn_buckets EXCEPT ![i].count = 0]
-----------------------------------------------------------------------------
MonitorTypeOK ==
    /\ g_events \in [0..EventMax - 1 -> Events \cup {Empty}]
    /\ g_event_head \in 0..EventMax - 1 /\ g_event_count \in 0..EventMax
    /\ g_conn_buckets \in Seq(Bucket) /\ Len(g_conn_buckets) <= ConnMax
=============================================================================
