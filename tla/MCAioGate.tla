------------------------------ MODULE MCAioGate -----------------------------
(* Small instances of AioGate for TLC.                                     *)
EXTENDS AioGate, TLC

CONSTANTS u1, w1, w2, i1, i2

\* A chunk of four holds two short datagrams or a long one; the calls of a
\* stream end within a chunk or run over; a datagram of six is refused.
SmallBulks == {<<3>>, <<1, 1>>, <<1, 6>>}
OneBulk    == {<<1>>}

(* Workers have no order: sound for the safety runs.             *)
Symmetry == Permutations(Workers)
=============================================================================
