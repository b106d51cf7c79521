----------------------------- MODULE SocketPort -----------------------------
(***************************************************************************)
(* What aiosock promises those who use it (aiosock/aiosockfactory.h):      *)
(* an ident belongs to one socket until the socket was closed and its last *)
(* callback has returned; an operation that was taken on is answered at    *)
(* most once, by a callback on one of the threads of the port, and not at  *)
(* all once its socket was closed.                                         *)
(***************************************************************************)
CONSTANTS Idents,      \* idents of sockets
          Tokens,      \* names of operations
          Threads,     \* threads that call back
          NoIdent      \* no socket

VARIABLES open,        \* idents of the open sockets
          asked,       \* the socket of each operation that is to be answered
          calls        \* the socket each thread is calling back for

portVars == <<open, asked, calls>>

PortInit ==
  /\ open = {}
  /\ asked = [t \in Tokens |-> NoIdent]
  /\ calls = [x \in Threads |-> NoIdent]

\* Mutant: a closed socket's ident is given out while it is called back for.
UnusedOpen(i) == i \notin open

\* An ident that a socket may get.
Unused(i) == i \notin open /\ \A x \in Threads : calls[x] # i

Create(i) ==
  /\ Unused(i)
  /\ open' = open \cup {i}
  /\ UNCHANGED <<asked, calls>>

Ask(t, i) ==
  /\ i \in open /\ asked[t] = NoIdent
  /\ asked' = [asked EXCEPT ![t] = i]
  /\ UNCHANGED <<open, calls>>

\* A callback begins and answers the operation t.
Answer(x, t) ==
  /\ calls[x] = NoIdent /\ asked[t] # NoIdent
  /\ calls' = [calls EXCEPT ![x] = asked[t]]
  /\ asked' = [asked EXCEPT ![t] = NoIdent]
  /\ UNCHANGED open

\* An accept is answered with the new socket j.
AnswerAccept(x, t, j) ==
  /\ calls[x] = NoIdent /\ asked[t] # NoIdent
  /\ Unused(j)
  /\ calls' = [calls EXCEPT ![x] = asked[t]]
  /\ asked' = [asked EXCEPT ![t] = NoIdent]
  /\ open' = open \cup {j}

Return(x) ==
  /\ calls[x] # NoIdent
  /\ calls' = [calls EXCEPT ![x] = NoIdent]
  /\ UNCHANGED <<open, asked>>

\* The operations of a socket that is closed are cancelled, callbacks run on.
Close(i) ==
  /\ i \in open
  /\ open' = open \ {i}
  /\ asked' = [t \in Tokens |-> IF asked[t] = i THEN NoIdent ELSE asked[t]]
  /\ UNCHANGED calls

\* off() returns when no thread calls back any more.
Down ==
  /\ \A x \in Threads : calls[x] = NoIdent
  /\ open' = {}
  /\ asked' = [t \in Tokens |-> NoIdent]
  /\ UNCHANGED calls

PortNext ==
  \/ \E i \in Idents : Create(i) \/ Close(i)
  \/ \E t \in Tokens : \E i \in Idents : Ask(t, i)
  \/ \E x \in Threads : Return(x) \/ \E t \in Tokens :
       Answer(x, t) \/ \E j \in Idents : AnswerAccept(x, t, j)
  \/ Down

PortSpec == PortInit /\ [][PortNext]_portVars
=============================================================================
