--------------------------- MODULE MCMsgConnection --------------------------
(* Small instances of MsgConnection for TLC.                               *)
EXTENDS MsgConnection, TLC

CONSTANTS na, nb, l1, l2

\* Who posts to whom.
ToAndFro   == <<na, nb>>
FroAndTo   == <<nb, na>>
Twice      == <<na, na>>
TwiceBack  == <<nb, nb>>
OneWay  == {<<na, nb>>}
BothWays == {<<na, nb>>, <<nb, na>>}

(* Links have no order.                                          *)
Symmetry == Permutations(Links)
=============================================================================
