-------------------------- MODULE SecurityMonitor --------------------------
(***************************************************************************)
(* src/src/security/security_monitor.c: the rate limiter of the gateway    *)
(* and its counters.  An address is hashed to a bucket; a bucket holds one *)
(* address at a time and counts its requests in a fixed window.            *)
(***************************************************************************)
EXTENDS Naturals

CONSTANTS RateBuckets,   \* indices of the buckets
          hash_ip,       \* the hash function, from addresses to them
          RateLimit,     \* rate_limit_per_window
          RateWindow     \* rate_window_sec

ASSUME RateAssumption == /\ hash_ip \in [DOMAIN hash_ip -> RateBuckets]
                         /\ RateLimit \in Nat /\ RateWindow \in Nat \ {0}

VARIABLES g_rate_buckets,
          g_rejects    \* g_rate_limit_hits and g_injection_rejects

secmonVars == <<g_rate_buckets, g_rejects>>

Counters == {"limited", "injection"}

\* Requests as the checks tell them apart; "method" stands for a body that is
\* too large as well, which is treated alike.
Rejectable == {"method", "traversal", "injection", "signature"}

method_allowed(kind) == kind /= "method"
path_has_traversal(kind) == kind = "traversal"
contains_injection_pattern(kind) == kind = "injection"
ids_check(kind) == kind = "signature"

security_monitor_init ==
    /\ g_rate_buckets = [b \in RateBuckets |-> [ip |-> "", count |-> 0, window_end |-> 0]]
    /\ g_rejects = [c \in Counters |-> 0]

\* The bucket with one more request of ip; the clock is read under the lock.
Counted(ip, now) ==
    LET b == g_rate_buckets[hash_ip[ip]]
    IN  IF b.window_end <= now \/ b.ip /= ip
        THEN [ip |-> ip, count |-> 1, window_end |-> now + RateWindow]
        ELSE [b EXCEPT !.count = b.count + 1]

count_request(ip, now) ==
    g_rate_buckets' = [g_rate_buckets EXCEPT ![hash_ip[ip]] = Counted(ip, now)]

\* Mistake: the limit is compared with twice the count.
over_limit_late(ip, now) == Counted(ip, now).count > 2 * RateLimit

over_limit(ip, now) == Counted(ip, now).count > RateLimit
=============================================================================
