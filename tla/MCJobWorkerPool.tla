-------------------------- MODULE MCJobWorkerPool --------------------------
(* The pool on a small instance. *)
EXTENDS JobWorkerPool, TLC

CONSTANTS w1, w2, c1, c2, f1
TwoWorkers == {w1, w2}
TwoClients == {c1, c2}
OneClient == {c1}
OneFeeder == {f1}
MCThreads == Workers \cup Clients \cup Feeders
MCJobs == Clients \cup Feeders
=============================================================================
