------------------------------- MODULE RWGate -------------------------------
(***************************************************************************)
(* What a keylocker promises its callers, without events, spinlock or      *)
(* door: up to MaxReaders readers share the gate, or one writer owns it.   *)
(* KeyLocker is shown to implement this specification.                     *)
(***************************************************************************)
EXTENDS Naturals, FiniteSets

CONSTANTS Readers,     \* threads that call enter / leave
          Writers,     \* threads that call lock / unlock
          MaxReaders   \* keylocker::_maxReaders

VARIABLES inside,      \* readers between a successful enter() and leave()
          owners       \* writers between a successful lock() and unlock()

gateVars == <<inside, owners>>

Init == inside = {} /\ owners = {}

Enter(r) ==
  /\ owners = {}
  /\ Cardinality(inside) < MaxReaders
  /\ inside' = inside \cup {r}
  /\ UNCHANGED owners

Leave(r) ==
  /\ r \in inside
  /\ inside' = inside \ {r}
  /\ UNCHANGED owners

Acquire(w) ==
  /\ inside = {}
  /\ owners = {}
  /\ owners' = {w}
  /\ UNCHANGED inside

Release(w) ==
  /\ owners = {w}
  /\ owners' = {}
  /\ UNCHANGED inside

Next ==
  \/ \E r \in Readers : Enter(r) \/ Leave(r)
  \/ \E w \in Writers : Acquire(w) \/ Release(w)

Spec == Init /\ [][Next]_gateVars
=============================================================================
