----------------------------- MODULE MCRegistry -----------------------------
EXTENDS Registry, TLC

(* Threads and names are interchangeable.                                  *)
Symmetric == Permutations(Threads) \cup Permutations(Names)
=============================================================================
