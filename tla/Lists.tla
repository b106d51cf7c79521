------------------------------- MODULE Lists --------------------------------
(***************************************************************************)
(* Lists of the program as sequences.                                      *)
(***************************************************************************)
EXTENDS Naturals, Sequences, FiniteSets

Elements(s) == {s[n] : n \in DOMAIN s}

\* No element is in the list twice.
OnceEach(s) == \A m, n \in DOMAIN s : s[m] = s[n] => m = n

\* What a list holds at the places K of its domain, in its order.  (SelectSeq in
\* a form that can be reasoned about; MCAioSock compares the two.)
Place(K, n) == CHOOSE k \in K : Cardinality({j \in K : j <= k}) = n
Kept(s, K)  == [n \in 1 .. Cardinality(K) |-> s[Place(K, n)]]

\* The sums of the first elements of a list of numbers, and of all of them.
Sums(s) == LET sum[n \in 0 .. Len(s)] == IF n = 0 THEN 0 ELSE sum[n - 1] + s[n] IN sum
Sum(s)  == Sums(s)[Len(s)]
=============================================================================
