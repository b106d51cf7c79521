----------------------------- MODULE MCAioSock ------------------------------
(* Small instances of AioSock for TLC.                                     *)
EXTENDS AioSock, TLC

CONSTANTS u1, u2, w1, w2, b1, b2

(* Kept is SelectSeq by places.                                             *)
ASSUME KeptAssumption ==
  \A len \in 0 .. 4 : \A s \in [1 .. len -> 1 .. 3], S \in SUBSET (1 .. 3) :
    Kept(s, {n \in DOMAIN s : s[n] \in S}) = SelectSeq(s, LAMBDA x : x \in S)

(* Users, workers and blocks have no order: sound for the safety runs.      *)
Symmetry == Permutations(Users) \cup Permutations(Workers) \cup Permutations(Blocks)
=============================================================================
