------------------------------ MODULE MsgQueue ------------------------------
(***************************************************************************)
(* The message queue of aiomsg (msg_queue in aiomsg/msg_que.h) as a value: *)
(* one list for each priority, 0 the most urgent.  Its mutex makes each    *)
(* operation one step of the component that owns the queue; wakeup() and   *)
(* the _blocked flag belong to that component.                             *)
(***************************************************************************)
LOCAL INSTANCE Naturals
LOCAL INSTANCE Sequences

CONSTANTS Levels,     \* PRIORITY
          Capacity    \* CAPACITY, for each priority

Clear == [p \in 0 .. Levels - 1 |-> <<>>]

(* A priority out of range is the last one.                      *)
Check(p) == IF p >= Levels THEN Levels - 1 ELSE p

IsFull(q, p)  == Len(q[Check(p)]) = Capacity
PushFront(q, p, m) == [q EXCEPT ![Check(p)] = <<m>> \o @]   \* mutant
Push(q, p, m) == [q EXCEPT ![Check(p)] = Append(@, m)]

Peek(q)  == \E p \in DOMAIN q : q[p] # <<>>
Touch(q) == CHOOSE p \in DOMAIN q : q[p] # <<>> /\ \A r \in 0 .. p - 1 : q[r] = <<>>
Front(q) == Head(q[Touch(q)])
Pop(q)   == [q EXCEPT ![Touch(q)] = Tail(@)]
=============================================================================
