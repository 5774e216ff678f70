----------------------------- MODULE MCJobCache -----------------------------
(* JobCache on a small instance, with the mutants of its properties.       *)
EXTENDS JobCache, TLC

CONSTANTS t1, t2, t3, a, b
MCThreads == {t1, t2, t3}
MCJobs == {a, b}
=============================================================================
