---------------------------- MODULE MCMsgRequests ---------------------------
(* Small instances of MsgRequests for TLC.                                 *)
EXTENDS MsgRequests

CONSTANTS u1, u2, e1, e2, s1, s2, a1, a2, m1, m2
=============================================================================
