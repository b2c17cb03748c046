---------------------------- MODULE MCMpmcQueue ----------------------------
EXTENDS MpmcQueue, TLC

(* Threads of one kind, and items, are interchangeable.                    *)
Symmetric == Permutations(Producers) \cup Permutations(Consumers)
             \cup Permutations(Items)
=============================================================================
