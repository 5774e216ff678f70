------------------------------ MODULE MCDaemon ------------------------------
(* The daemon on a small instance. *)
EXTENDS Daemon, TLC

CONSTANTS w1, c1, mainThread, pollThread
OneWorker == {w1}
OneClient == {c1}
MCFeeders == {mainThread, pollThread}
MCThreads == Workers \cup Clients \cup Feeders
MCJobs == Clients \cup Feeders
=============================================================================
