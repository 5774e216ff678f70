---------------------------- MODULE MCAgentTurns ----------------------------
(* Agent turns on a small instance. *)
EXTENDS AgentTurns, TLC

CONSTANTS w1, w2, shell, read_file
TwoWorkers == {w1, w2}
TwoTools == {shell, read_file}
ShellOnly == {shell}

\* The workers are alike; no property of this run is a liveness property.
WorkerSymmetry == Permutations(TwoWorkers)
=============================================================================
