---------------------------- MODULE Observability ----------------------------
(***************************************************************************)
(* src/src/observability/observability.c: the global metrics.  Every       *)
(* record is an entry of its own in an array of MaxMetrics; the export     *)
(* adds up the entries of a name, so the order of the entries does not     *)
(* matter.  All of it happens under g_obs_mutex.                           *)
(***************************************************************************)
EXTENDS Naturals

CONSTANT MaxMetrics    \* MAX_METRICS

ASSUME MetricsAssumption == MaxMetrics \in Nat

VARIABLE metrics       \* for each name its entries in metrics[0..count-1]; every
                       \* value the program records is 1.0

MetricNames == {"http", "limited", "injection"}

observability_init == metrics = [n \in MetricNames |-> 0]

MetricCount == metrics["http"] + metrics["limited"] + metrics["injection"]

observability_record(name) ==
    metrics' = IF MetricCount >= MaxMetrics THEN metrics
               ELSE [metrics EXCEPT ![name] = @ + 1]

\* observability_prometheus_export: the sum of a name's entries.
observability_prometheus_export == metrics
=============================================================================
