--------------------------- MODULE CompletionPort ---------------------------
(***************************************************************************)
(* The completion port of aiocomport/aiocomport.cpp, as aiosock uses it: a *)
(* value [associated, waiting, done] and what each call makes of it.  Each *)
(* call is one critical section under _port_mtx.                           *)
(*                                                                         *)
(* A port knows a socket by its handle and by the completion key, and      *)
(* aiosock uses one handle for one key at a time: here both are the key.   *)
(* What the kernel answers is left open: an item may wait for ever or be   *)
(* finished, with or without an error, when the socket is signaled.        *)
(***************************************************************************)
EXTENDS Lists

\* queue_item: the operation on `block', the overlapped structure.  `fresh' is
\* history: the block has not been given back since the operation was started.
Item(k, b) == [key |-> k, block |-> b, err |-> FALSE, fresh |-> TRUE]

\* A port with no socket: _fd_port_map, the initial containers of all sockets
\* in the order the items came, and the completion container.
NewPort == [associated |-> {}, waiting |-> <<>>, done |-> <<>>]

\* CreateIoCompletionPort with a socket.
Associate(port, k) == [port EXCEPT !.associated = @ \cup {k}]

\* initiate_action: the system call would block, or it succeeds at once.
StartWaiting(port, k, b) == [port EXCEPT !.waiting = Append(@, Item(k, b))]
StartDone(port, k, b)    == [port EXCEPT !.done = Append(@, Item(k, b))]

\* func_sock_signal: items S of a socket are finished, E of them with errors.
Results(s, E) == [n \in DOMAIN s |-> [s[n] EXCEPT !.err = s[n] \in E]]

Finished(port, S, E) ==
  LET moved == {n \in DOMAIN port.waiting : port.waiting[n] \in S}
  IN [port EXCEPT !.waiting = Kept(@, DOMAIN @ \ moved),
                  !.done = @ \o Results(Kept(port.waiting, moved), E)]

WaitingOn(port, k) == {x \in Elements(port.waiting) : x.key = k}

\* GetQueuedCompletionStatus and PostQueuedCompletionStatus.
Dequeued(port) == [port EXCEPT !.done = Tail(@)]
Posted(port, x) == [port EXCEPT !.done = Append(@, x)]

\* CancelIo without an overlapped structure, and with one.  The loop over the
\* completion container starts at its end condition: nothing leaves `done'.
CancelAll(port, k) ==
  [port EXCEPT !.waiting = Kept(@, {n \in DOMAIN @ : @[n].key # k}),
               !.associated = @ \ {k}]

CancelOne(port, k, b) ==
  [port EXCEPT !.waiting = Kept(@, {n \in DOMAIN @ : ~(@[n].key = k /\ @[n].block = b)})]

\* History: the blocks B were given back.
Outlive(x, B) == [x EXCEPT !.fresh = @ /\ x.block \notin B]

Outlives(s, B) == [n \in DOMAIN s |-> Outlive(s[n], B)]

Recycled(port, B) ==
  [port EXCEPT !.waiting = Outlives(@, B), !.done = Outlives(@, B)]
=============================================================================
