------------------------------- MODULE Gateway -------------------------------
(***************************************************************************)
(* The request path of src/src/gateway/gateway.c.  Every connection has a  *)
(* handler thread (gateway_worker): it records the connection, has the     *)
(* request checked by the security monitor and the ids, and either rejects *)
(* it, with an event, or serves it.  Handlers meet in the state of         *)
(* RuntimeMonitor, SecurityMonitor and Observability; what one critical    *)
(* section does is one step, and what is done outside the locks is a step  *)
(* of its own.                                                             *)
(***************************************************************************)
EXTENDS RuntimeMonitor, SecurityMonitor, Observability, SequencesExt

CONSTANTS Handlers,      \* threads that run gateway_worker
          Requests,      \* the requests that may come: address and kind
          MaxRequests,   \* bound: requests received
          MaxTime        \* bound: the clock

Kinds == Rejectable \cup {"page", "job", "websocket"}

ASSUME GatewayAssumption == /\ DOMAIN hash_ip = Ips
                            /\ Requests \subseteq [ip : Ips, kind : Kinds]
                            /\ MaxRequests \in Nat /\ MaxTime \in Nat
                            /\ IsFiniteSet(Handlers)

VARIABLES now,         \* time(NULL)
          received,    \* requests received so far
          pc, req,     \* where a handler is, and its request
          t,           \* the time it read before it took the lock
          slot,        \* the bucket it found, runtime_monitor.c's i
          verdict,     \* what the checks have said
          read,        \* the counter as it read it
          \* What the properties compare with:
          evicted,     \* some bucket was given to another address
          quiet,       \* connections of an address, none ConnWindow after the
                       \* one before it, since an event was raised for it
          passed,      \* requests of an address of its own bucket let through:
                       \* which one it was, and when
          rejected     \* rejections begun, by counter

localVars == <<pc, req, t, slot, verdict, read>>
ghostVars == <<evicted, quiet, passed, rejected>>
gatewayVars == <<now, received, monitorVars, secmonVars, metrics, localVars, ghostVars>>

NoRequest == [ip |-> "", kind |-> ""]

\* The addresses that share no bucket of the limiter with another one.
Alone == {ip \in Ips : \A j \in Ips \ {ip} : hash_ip[j] /= hash_ip[ip]}

\* gateway_run initialises the three monitors before it listens.
GatewayInit ==
    /\ runtime_monitor_init /\ security_monitor_init /\ observability_init
    /\ now = 0 /\ received = 0
    /\ pc = [h \in Handlers |-> "idle"] /\ req = [h \in Handlers |-> NoRequest]
    /\ t = [h \in Handlers |-> 0] /\ slot = [h \in Handlers |-> 0]
    /\ verdict = [h \in Handlers |-> ""] /\ read = [h \in Handlers |-> 0]
    /\ evicted = FALSE /\ quiet = [i \in Ips |-> 0]
    /\ passed = [i \in Alone |-> {}]
    /\ rejected = [c \in Counters |-> 0]

Goto(h, place) == pc' = [pc EXCEPT ![h] = place]

\* The answer is sent and the connection closed.
Done(h) == /\ Goto(h, "idle")
           /\ req' = [req EXCEPT ![h] = NoRequest] /\ verdict' = [verdict EXCEPT ![h] = ""]
           /\ UNCHANGED <<t, slot, read>>

\* A connection is accepted, its request received and parsed, and the clock
\* read by runtime_monitor_connection.  (A recv that fails ends the handler.)
Receive(h) ==
    /\ pc[h] = "idle" /\ received < MaxRequests
    /\ \E r \in Requests : req' = [req EXCEPT ![h] = r]
    /\ received' = received + 1
    /\ t' = [t EXCEPT ![h] = now]
    /\ Goto(h, "connect")
    /\ UNCHANGED <<now, monitorVars, secmonVars, metrics, slot, verdict, read, ghostVars>>

Evicts(ip) == BucketsOf(ip) = {} /\ Len(g_conn_buckets) = ConnMax

\* The connections of ip that nothing was reported about, with this one.
Counting(ip, time) ==
    LET last == {b.last_seen_sec : b \in {g_conn_buckets[i] : i \in BucketsOf(ip)}}
    IN  quiet' = IF evicted \/ Evicts(ip) THEN [i \in Ips |-> 0]
                 ELSE [quiet EXCEPT ![ip] = IF \E s \in last : s + ConnWindow < time THEN 1 ELSE @ + 1]

Connect(h) ==
    /\ pc[h] = "connect"
    /\ LET ip == req[h].ip
       IN  /\ evicted' = (evicted \/ Evicts(ip))
           /\ Counting(ip, t[h])
           /\ \/ /\ record_new(ip, t[h])
                 /\ Goto(h, "check") /\ UNCHANGED slot
              \/ \E i \in BucketsOf(ip) :
                    /\ record_known(i, t[h])
                    /\ IF Touched(i, t[h]).count >= ProbeThreshold
                       THEN Goto(h, "probe") /\ slot' = [slot EXCEPT ![h] = i]
                       ELSE Goto(h, "check") /\ UNCHANGED slot
    /\ t' = [t EXCEPT ![h] = 0]
    /\ UNCHANGED <<now, received, ringVars, secmonVars, metrics, req, verdict, read,
                   passed, rejected>>

\* The lock is given up for runtime_monitor_event, which takes it itself and
\* then sends the alert to the channels.
Probe(h) ==
    /\ pc[h] = "probe"
    /\ push_event("probe", req[h].ip)
    /\ quiet' = [quiet EXCEPT ![req[h].ip] = 0]
    /\ Goto(h, "reset")
    /\ UNCHANGED <<now, received, g_conn_buckets, secmonVars, metrics, req, t, slot,
                   verdict, read, evicted, passed, rejected>>

\* Back under the lock the index is used again, whosever bucket it is by now.
ResetBucket(h) ==
    /\ pc[h] = "reset"
    /\ reset_count(slot[h])
    /\ slot' = [slot EXCEPT ![h] = 0]
    /\ Goto(h, "check")
    /\ UNCHANGED <<now, received, ringVars, secmonVars, metrics, req, t, verdict, read,
                   ghostVars>>
-----------------------------------------------------------------------------
(* security_monitor_check_request and ids_check, in the order of their tests. *)

Says(h, v, place) == verdict' = [verdict EXCEPT ![h] = v] /\ Goto(h, place)

\* Before the limiter: the method and the path.
WellFormed(kind) == method_allowed(kind) /\ ~path_has_traversal(kind)

CheckForm(h) ==
    /\ pc[h] = "check" /\ ~WellFormed(req[h].kind)
    /\ Says(h, IF method_allowed(req[h].kind) THEN "traversal" ELSE "reject", "reject")
    /\ UNCHANGED <<now, received, monitorVars, secmonVars, metrics, req, t, slot, read,
                   ghostVars>>

CheckLimited(h) ==
    /\ pc[h] = "check" /\ WellFormed(req[h].kind)
    /\ over_limit(req[h].ip, now)
    /\ count_request(req[h].ip, now)
    /\ Says(h, "limited", "count")
    /\ rejected' = [rejected EXCEPT !["limited"] = @ + 1]
    /\ UNCHANGED <<now, received, monitorVars, g_rejects, metrics, req, t, slot, read,
                   evicted, quiet, passed>>

\* Within the limit the body is scanned (not if there is no memory for the
\* copy: then the request passes), and the ids looks for signatures.
CheckBody(h) ==
    /\ pc[h] = "check" /\ WellFormed(req[h].kind)
    /\ ~over_limit(req[h].ip, now)
    /\ count_request(req[h].ip, now)
    /\ passed' = IF req[h].ip \in Alone
                 THEN [passed EXCEPT ![req[h].ip] = @ \cup {[nth |-> Cardinality(@) + 1, at |-> now]}]
                 ELSE passed
    /\ \/ /\ contains_injection_pattern(req[h].kind)
          /\ Says(h, "injection", "count")
          /\ rejected' = [rejected EXCEPT !["injection"] = @ + 1]
       \/ /\ ids_check(req[h].kind)
          /\ Says(h, "other", "reject") /\ UNCHANGED rejected
       \/ /\ req[h].kind \in {"injection", "page", "job"}
          /\ Says(h, "ok", "serve") /\ UNCHANGED rejected
       \/ /\ req[h].kind = "websocket"
          /\ Says(h, "ok", "websocket") /\ UNCHANGED rejected
    /\ UNCHANGED <<now, received, monitorVars, g_rejects, metrics, req, t, slot, read,
                   evicted, quiet>>

\* The counter is incremented outside the lock: read, then written.
CountRead(h) ==
    /\ pc[h] = "count"
    /\ read' = [read EXCEPT ![h] = g_rejects[verdict[h]]]
    /\ Goto(h, "counted")
    /\ UNCHANGED <<now, received, monitorVars, secmonVars, metrics, req, t, slot, verdict,
                   ghostVars>>

CountWrite(h) ==
    /\ pc[h] = "counted"
    /\ g_rejects' = [g_rejects EXCEPT ![verdict[h]] = read[h] + 1]
    /\ read' = [read EXCEPT ![h] = 0]
    /\ observability_record(verdict[h])
    /\ Goto(h, "reject")
    /\ UNCHANGED <<now, received, monitorVars, g_rate_buckets, req, t, slot, verdict,
                   ghostVars>>

EventOf(v) == IF v = "limited" THEN "rate" ELSE v

\* The rejection is audited, made an event, and answered with 429 or 400.
Reject(h) ==
    /\ pc[h] = "reject"
    /\ push_event(EventOf(verdict[h]), req[h].ip)
    /\ Done(h)
    /\ UNCHANGED <<now, received, g_conn_buckets, secmonVars, metrics, ghostVars>>

\* handle_request: the request is counted and answered, or becomes a job (or,
\* without a job cache, a call of the agent) that is waited for.
Serve(h) ==
    /\ pc[h] = "serve"
    /\ observability_record("http")
    /\ IF req[h].kind \in {"job", "injection"}
       THEN Goto(h, "wait") /\ UNCHANGED <<req, t, slot, verdict, read>>
       ELSE Done(h)
    /\ UNCHANGED <<now, received, monitorVars, secmonVars, ghostVars>>

\* agent_response_cb has set done, with an answer or with an error.
Answered(h) ==
    /\ pc[h] = "wait"
    /\ Done(h)
    /\ UNCHANGED <<now, received, monitorVars, secmonVars, metrics, ghostVars>>

\* A web socket is served until the client goes away.
WebsocketEnds(h) ==
    /\ pc[h] = "websocket"
    /\ Done(h)
    /\ UNCHANGED <<now, received, monitorVars, secmonVars, metrics, ghostVars>>

Tick == /\ now < MaxTime /\ now' = now + 1
        /\ UNCHANGED <<received, monitorVars, secmonVars, metrics, localVars, ghostVars>>

\* What a handler does without anybody else.
Handle(h) == \/ Connect(h) \/ Probe(h) \/ ResetBucket(h) \/ CheckForm(h) \/ CheckLimited(h)
             \/ CheckBody(h) \/ CountRead(h) \/ CountWrite(h) \/ Reject(h) \/ Serve(h)

GatewayNext == \/ Tick
               \/ \E h \in Handlers : Receive(h) \/ Handle(h) \/ Answered(h) \/ WebsocketEnds(h)

GatewaySpec == GatewayInit /\ [][GatewayNext]_gatewayVars
-----------------------------------------------------------------------------
\* The state of the monitors and the handlers' locals.
GatewayTypeOK ==
    /\ MonitorTypeOK
    /\ \A b \in RateBuckets : g_rate_buckets[b].count \in 0..MaxRequests
    /\ g_rejects \in [Counters -> 0..MaxRequests]
    /\ metrics \in [MetricNames -> 0..MaxMetrics]
    /\ pc \in [Handlers -> {"idle", "connect", "probe", "reset", "check", "count", "counted",
                            "reject", "serve", "wait", "websocket"}]
    /\ slot \in [Handlers -> 0..ConnMax]

Window == INSTANCE EventWindow WITH recent <- Recent

\* The ring is the window of the last EventMax events that its header
\* promises, whatever handlers push into it and however often it wraps.
RingIsWindow == Window!WindowSpec

\* What an agent is told are the newest events, the newest first, although the
\* ring is read backwards from a head that has moved.
AgentSeesNewest ==
    LET n == IF Len(Recent) > AgentEvents THEN AgentEvents ELSE Len(Recent)
    IN  AgentView = Reverse(SubSeq(Recent, Len(Recent) - n + 1, Len(Recent)))

\* An address has one bucket, although buckets are looked for, added and
\* evicted by several handlers.
OneBucketEach == \A i, j \in DOMAIN g_conn_buckets :
                    g_conn_buckets[i].ip = g_conn_buckets[j].ip => i = j

\* The handlers that are about to report ip.
Reporting(ip) == {h \in Handlers : pc[h] = "probe" /\ req[h].ip = ip}

\* "many connections from same IP in a short window triggers
\* RUNTIME_EVENT_PORT_PROBE": as long as no bucket was evicted, an address that
\* nobody is about to report has fewer than ProbeThreshold unreported
\* connections, for each handler: the lock is given up for an event, and a
\* handler that comes back from it sets back what others have counted.
ProbeNoticed ==
    ~evicted =>
        \A ip \in Ips : quiet[ip] <= (ProbeThreshold - 1) * Cardinality(Handlers)
                                       + Cardinality(Reporting(ip))

PassedIn(ip, from) ==
    Cardinality({p \in passed[ip] : p.at >= from /\ p.at < from + RateWindow})

\* However the windows lie, no address gets more than twice the limit through
\* in any RateWindow seconds (the windows are fixed, so two of them may meet).
RateEnforced == \A ip \in Alone, from \in 0..MaxTime :
                   PassedIn(ip, from) <= 2 * RateLimit

\* The unguarded counters lose increments, but they never show more than there
\* was, and never nothing once a rejection is through.
CountersCredible ==
    \A c \in Counters :
        /\ g_rejects[c] <= rejected[c]
        /\ \/ rejected[c] = 0 \/ g_rejects[c] > 0
           \/ \E h \in Handlers : verdict[h] = c /\ pc[h] \in {"count", "counted"}

\* What /metrics exports is exact as long as the array of entries is not full,
\* and not more than there was afterwards.
MetricsExact ==
    \A c \in Counters :
        LET under_way == {h \in Handlers : verdict[h] = c /\ pc[h] \in {"count", "counted"}}
        IN  /\ metrics[c] + Cardinality(under_way) <= rejected[c]
            /\ MetricCount < MaxMetrics => metrics[c] + Cardinality(under_way) = rejected[c]

\* What an agent, the status page and /metrics show of the events is what there
\* was, although handlers write it while it is read.
ShownIsTrue == AgentSeesNewest /\ CountersCredible /\ MetricsExact

\* The connections of an address are counted in one place, and many of them in a
\* short time are reported.
ProbesReported == OneBucketEach /\ ProbeNoticed
=============================================================================
