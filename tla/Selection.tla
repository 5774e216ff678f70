------------------------------ MODULE Selection ------------------------------
(***************************************************************************)
(* The part of a sequence that a loop over an array keeps: its elements at *)
(* a set I of indexes, in the order of the array.  (SelectSeq with the     *)
(* indexes in place of a test, so that proofs can be about it.)            *)
(***************************************************************************)
EXTENDS Naturals, Sequences, FiniteSets

\* How many of the indexes I are at most i, and the j-th of them.
Rank(I, i) == Cardinality({k \in I : k <= i})
Nth(I, j) == CHOOSE i \in I : Rank(I, i) = j

Picked(s, I) == [j \in 1..Cardinality(I) |-> s[Nth(I, j)]]
=============================================================================
