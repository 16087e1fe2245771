----------------------------- MODULE MCKeeper -----------------------------
(* Instances of Keeper: the calls of test/benchmark.cpp.                   *)
EXTENDS Keeper

CONSTANTS p1, p2, p3

Barrier(key) == [op |-> "barrier", key |-> key]
Sum == [op |-> "sum"]

Benchmark == <<Barrier("DSM-init"), Barrier("benchmark"), Sum, Sum>>

\* Different contributions of every node in every round.
MCValue == [i \in 0..2 |-> [s \in 1..4 |-> s * 2^i]]
=============================================================================
