---------------------------- MODULE MCThreadPool ----------------------------
(* Small instances of ThreadPool for TLC.                                  *)
EXTENDS ThreadPool, TLC

CONSTANTS t1, t2, c1, c2, b1, b2

(* Threads, clients and callers have no order: sound for the safety runs.   *)
Symmetry == Permutations(Threads) \cup Permutations(Clients) \cup Permutations(Callers)
=============================================================================
