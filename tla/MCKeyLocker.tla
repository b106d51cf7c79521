---------------------------- MODULE MCKeyLocker -----------------------------
(* Small instances of KeyLocker for TLC.                                   *)
EXTENDS KeyLocker

CONSTANTS r1, r2, r3, w1, w2, w3
=============================================================================
