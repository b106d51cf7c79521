---------------------------- MODULE MsgConnection ---------------------------
(***************************************************************************)
(* Communicators and the socket connections between them (msg_comm.cpp,    *)
(* msg_conn.cpp, msg_sock.cpp, msg_base.cpp and msg_que.h of aiomsg).      *)
(*                                                                         *)
(* Each node has one communicator, and in it                               *)
(*   - the communicator's thread (ident 0), which routes messages, makes   *)
(*     connections and is the one that closes them;                        *)
(*   - the working thread of its aiosock, which runs v_on_... one at a     *)
(*     time;                                                               *)
(*   - for each connection a thread of the pool (ident 255), which sends;  *)
(*   - an administrator, who may remove the configuration of a peer;       *)
(*   - users that post, and the timer that pings.                          *)
(* A critical section is one action; so is what touches one shared object. *)
(*                                                                         *)
(* Abstracted: encryption; the size and the body of a message, received in *)
(* two operations or more (msg_sock.cpp:192-248), are one; a send that is  *)
(* completed in parts; the user's own connection, to which MsgRequests is  *)
(* devoted: a message for the node itself is delivered.  An operation that *)
(* is asked of a broken socket completes with an error, but send() may     *)
(* also be refused at once.  revoke_client() keeps the pool from asking    *)
(* the connection again (ThreadPool shows how far it does).                *)
(***************************************************************************)
EXTENDS Integers, Sequences, FiniteSets

CONSTANTS Nodes,        \* communicators, by address
          Links,        \* TCP connections, and the session ids and fake
                        \* addresses that come with them
          None,
          Capacity,     \* CAPACITY of a queue
          Posts,        \* messages users will post: 1 .. number of them
          From, To,     \* the sender and the receiver of each
          Configured,   \* pairs <<n, m>>: n has a configuration of peer m
          Admins,       \* nodes whose administrator may remove a peer
          Fragile,      \* links the network may break
          MaxPings      \* bound: pings

ASSUME NodesAssumption == None \notin Nodes \cup Links /\ Nodes \cap Links = {}
ASSUME LinksAssumption == IsFiniteSet(Links)
ASSUME PostsAssumption ==
  /\ IsFiniteSet(Posts) /\ Posts = 1 .. Cardinality(Posts)
  /\ {From, To} \subseteq [Posts -> Nodes] /\ \A i \in Posts : From[i] # To[i]
ASSUME BoundsAssumption == Capacity \in Nat \ {0} /\ MaxPings \in Nat
ASSUME ConfigAssumption == Configured \subseteq Nodes \X Nodes /\ Admins \subseteq Nodes

Queue == INSTANCE MsgQueue WITH Levels <- 3
Ends  == Nodes \X Links

Messages == [kind : {"hello", "welcome", "post", "ping", "close"}, who : Nodes \cup Links,
             post : Posts \cup {0}, session : Links \cup {None}]

ASSUME NoneAssumption == None \notin Messages  \* "no message" is told from every message

VARIABLES
  box,          \* the communicator's queue
  map,          \* _connections: link of the connection at an address
  config,       \* _config._connections
  comm,         \* the communicator's thread
  aio,          \* the working thread of aiosock
  admin,        \* a caller of remove_connection_config
  conn,         \* the connection object of each end of a link
  tcp,          \* the state of each link
  wire,         \* what has been sent to an end and not yet received
  posted, inbox, \* history: posts made, posts delivered
  pings         \* pings made

vars == <<box, map, config, comm, aio, admin, conn, tcp, wire, posted, inbox, pings>>

Message(kind, who, post, session) ==
  [kind |-> kind, who |-> who, post |-> post, session |-> session]
(* `who' is the sender, or the address to close.                 *)
Post(i) == Message("post", From[i], i, None)

(* MSG_PRIORITY_SYSTEM or _NORMAL: construct_ping leaves the default, and *)
(* a user's message is always made normal (msg_user.cpp:205-209).         *)
Priority(m) == IF m.kind \in {"hello", "welcome", "close"} THEN 0 ELSE 2

Accepts(q, m) == ~Queue!IsFull(q, Priority(m))
With(q, m)    == Queue!Push(q, Priority(m), m)

NoConn ==
  [life |-> "none", state |-> "none", blocked |-> FALSE, addr |-> None, session |-> None,
   queue |-> Queue!Clear, out |-> None, ops |-> {},
   bell |-> FALSE, thread |-> "asleep"]
NewConn(state, addr, ops) ==
  [NoConn EXCEPT !.life = "live", !.state = state, !.addr = addr, !.ops = ops]

NoLink == [is |-> "none", from |-> None, to |-> None]

Idle == [at |-> "idle", link |-> None]
At(where, l) == [at |-> where, link |-> l]
CommIdle == [at |-> "idle", link |-> None, post |-> 0]

Init ==
  /\ box = [n \in Nodes |-> Queue!Clear]
  /\ map = [n \in Nodes |-> [a \in Nodes \cup Links |-> None]]
  /\ config = Configured
  /\ comm = [n \in Nodes |-> CommIdle]
  /\ aio = [n \in Nodes |-> Idle]
  /\ admin = [n \in Nodes |-> Idle]
  /\ conn = [c \in Ends |-> NoConn]
  /\ tcp = [l \in Links |-> NoLink]
  /\ wire = [c \in Ends |-> <<>>]
  /\ posted = {}
  /\ inbox = [n \in Nodes |-> <<>>]
  /\ pings = 0

Live(c) == conn[c].life = "live"

(* ~msg_sock_connection closes the socket and destroys every message.  The *)
(* thread of the pool stays where it is.                                   *)
Deleted(c) == [NoConn EXCEPT !.life = "deleted", !.thread = conn[c].thread]
Down(l)    == [tcp EXCEPT ![l].is = "down"]

-----------------------------------------------------------------------------
(* Users and the timer.                                                    *)

(* comm_msg, called by post() of the user's connection.  What is refused   *)
(* is given back.                                                          *)
MakePost(i) ==
  /\ i \notin posted
  /\ \A j \in 1 .. i - 1 : From[j] = From[i] => j \in posted
  /\ posted' = posted \cup {i}
  /\ LET n == From[i] IN
       box' = IF Accepts(box[n], Post(i)) THEN [box EXCEPT ![n] = With(@, Post(i))] ELSE box
  /\ UNCHANGED <<map, config, comm, aio, admin, conn, tcp, wire, inbox, pings>>

(* notify() under _mtx_conn; which connections are due is the clock's.  A  *)
(* ping that finds no room is destroyed.                                   *)
Ping(n, l) ==
  LET c == <<n, l>> m == Message("ping", n, 0, None) IN
  /\ pings < MaxPings
  /\ \E a \in DOMAIN map[n] : map[n][a] = l
  /\ Live(c) /\ ~conn[c].blocked
  /\ pings' = pings + 1
  /\ conn' = IF Accepts(conn[c].queue, m)
             THEN [conn EXCEPT ![c].queue = With(@, m), ![c].bell = TRUE] ELSE conn
  /\ UNCHANGED <<box, map, config, comm, aio, admin, tcp, wire, posted, inbox>>

(* remove_connection_config: the configuration goes, and the connection    *)
(* found for it is shut down through a pointer kept after _mtx_conn.       *)
Remove(n, m) ==
  /\ n \in Admins /\ <<n, m>> \in config
  /\ admin[n].at = "idle"
  /\ config' = config \ {<<n, m>>}
  /\ admin' = [admin EXCEPT ![n] = IF map[n][m] = None THEN Idle ELSE At("shut", map[n][m])]
  /\ UNCHANGED <<box, map, comm, aio, conn, tcp, wire, posted, inbox, pings>>

-----------------------------------------------------------------------------
(* shutdown_connection, called by three kinds of actor: block() lets one   *)
(* caller through; the connection is turned off and revoked; a message     *)
(* asks the communicator's thread to close what is at its address.         *)
Blocked(c)  == [conn EXCEPT ![c].blocked = TRUE]
Revoked(c)  == [conn EXCEPT ![c].bell = FALSE]
CloseOfLink(c) == Message("close", c[2], 0, None)  \* mutant: the address it began with
CloseOf(c)  == Message("close", conn[c].addr, 0, None)
TellClose(n, c) ==
  box' = IF Accepts(box[n], CloseOf(c)) THEN [box EXCEPT ![n] = With(@, CloseOf(c))] ELSE box

ShutStep(n, l, at) ==
  LET c == <<n, l>> IN
  /\ Live(c)
  /\ \/ at = "shut" /\ conn[c].blocked /\ UNCHANGED <<conn, box>>
     \/ at = "shut" /\ ~conn[c].blocked /\ conn' = Blocked(c) /\ UNCHANGED box
     \/ at = "revoke" /\ conn' = Revoked(c) /\ TellClose(n, c)
AfterShut(c, at) == IF at = "shut" /\ ~conn[c].blocked THEN "revoke" ELSE "idle"

ShutByActor(actor, n) ==
  /\ actor[n].at \in {"shut", "revoke"}
  /\ ShutStep(n, actor[n].link, actor[n].at)
Rests(actor, n) ==
  LET next == AfterShut(<<n, actor[n].link>>, actor[n].at) IN
  [actor EXCEPT ![n] = IF next = "idle" THEN Idle ELSE At(next, @.link)]

AdminShut(n) ==
  /\ ShutByActor(admin, n)
  /\ admin' = Rests(admin, n)
  /\ UNCHANGED <<map, config, comm, aio, tcp, wire, posted, inbox, pings>>
AioShut(n) ==
  /\ ShutByActor(aio, n)
  /\ aio' = Rests(aio, n)
  /\ UNCHANGED <<map, config, comm, admin, tcp, wire, posted, inbox, pings>>
ThreadShut(n, l) ==
  LET c == <<n, l>> at == conn[c].thread next == AfterShut(c, at) IN
  /\ at \in {"shut", "revoke"}
  /\ Live(c)
  /\ conn' = [CASE at = "revoke" -> Revoked(c)
                [] at = "shut" /\ ~conn[c].blocked -> Blocked(c)
                [] OTHER -> conn
              EXCEPT ![c].thread = IF next = "idle" THEN "asleep" ELSE next]
  /\ IF at = "revoke" THEN TellClose(n, c) ELSE UNCHANGED box
  /\ UNCHANGED <<map, config, comm, aio, admin, tcp, wire, posted, inbox, pings>>

-----------------------------------------------------------------------------
(* The communicator's thread: v_do_job of msg_communicator.                *)

Taking(n)     == Queue!Front(box[n])
Taken(n)     == box' = [box EXCEPT ![n] = Queue!Pop(@)]
CommFree(n)  == comm[n].at = "idle" /\ Queue!Peek(box[n])
IsPost(n)    == Taking(n).kind = "post"
Goal(n)      == To[Taking(n).post]

(* _close_connection: deletes and erases what is at the address.           *)
CommClose(n) ==
  /\ CommFree(n) /\ Taking(n).kind = "close"
  /\ Taken(n)
  /\ LET a == Taking(n).who l == map[n][a] c == <<n, l>> IN
       IF l = None THEN UNCHANGED <<map, conn, tcp>>
       ELSE /\ conn' = [conn EXCEPT ![c] = Deleted(c)]
            /\ tcp' = Down(l)
            /\ map' = [map EXCEPT ![n][a] = None]
  /\ UNCHANGED <<config, comm, aio, admin, wire, posted, inbox, pings>>

CommDeliver(n) ==
  /\ CommFree(n) /\ IsPost(n) /\ Goal(n) = n
  /\ Taken(n)
  /\ inbox' = [inbox EXCEPT ![n] = Append(@, Taking(n).post)]
  /\ UNCHANGED <<map, config, comm, aio, admin, conn, tcp, wire, posted, pings>>

(* push_msg: a blocked or full queue throws, and the message is destroyed. *)
Pushed(c, m) ==
  IF conn[c].blocked \/ ~Accepts(conn[c].queue, m) THEN conn
  ELSE [conn EXCEPT ![c].queue = With(@, m), ![c].bell = TRUE]

(* The connection found is pushed to under _mtx_conn.                      *)
CommRoute(n) ==
  /\ CommFree(n) /\ IsPost(n) /\ Goal(n) # n
  /\ map[n][Goal(n)] # None
  /\ Taken(n)
  /\ conn' = Pushed(<<n, map[n][Goal(n)]>>, Taking(n))
  /\ UNCHANGED <<map, config, comm, aio, admin, tcp, wire, posted, inbox, pings>>

Unused == {l \in Links : tcp[l].is = "none"}
MustConnect(n) ==
  /\ CommFree(n) /\ IsPost(n) /\ Goal(n) # n
  /\ map[n][Goal(n)] = None

(* No configuration of the peer, or no socket: the message is destroyed.   *)
CommRefuse(n) ==
  /\ MustConnect(n)
  /\ <<n, Goal(n)>> \notin config \/ Unused = {}
  /\ Taken(n)
  /\ UNCHANGED <<map, config, comm, aio, admin, conn, tcp, wire, posted, inbox, pings>>

(* _connect, with no mutex held: a new connection asks its socket to       *)
(* connect, and is known to the callbacks before it is in the map.         *)
CommConnect(n) ==
  /\ MustConnect(n)
  /\ <<n, Goal(n)>> \in config
  /\ \E l \in Unused :
       /\ conn' = [conn EXCEPT ![<<n, l>>] = NewConn("initiator", Goal(n), {"connect"})]
       /\ tcp' = [tcp EXCEPT ![l] = [is |-> "up", from |-> n, to |-> Goal(n)]]
       /\ comm' = [comm EXCEPT ![n] = [at |-> "add", link |-> l, post |-> Taking(n).post]]
  /\ Taken(n)
  /\ UNCHANGED <<map, config, aio, admin, wire, posted, inbox, pings>>

(* add_connection: inserts and turns on.                                   *)
CommAdd(n) ==
  LET l == comm[n].link c == <<n, l>> IN
  /\ comm[n].at = "add" /\ Live(c)
  /\ map[n][conn[c].addr] = None
  /\ map' = [map EXCEPT ![n][conn[c].addr] = l]
  /\ conn' = [conn EXCEPT ![c].bell = TRUE]
  /\ comm' = [comm EXCEPT ![n].at = "push"]
  /\ UNCHANGED <<box, config, aio, admin, tcp, wire, posted, inbox, pings>>

(* The address was taken meanwhile: connect() deletes the new connection.  *)
CommDuplicate(n) ==
  LET l == comm[n].link c == <<n, l>> IN
  /\ comm[n].at = "add" /\ Live(c)
  /\ map[n][conn[c].addr] # None
  /\ conn' = [conn EXCEPT ![c] = Deleted(c)]
  /\ tcp' = Down(l)
  /\ comm' = [comm EXCEPT ![n] = CommIdle]
  /\ UNCHANGED <<box, map, config, aio, admin, wire, posted, inbox, pings>>

CommPush(n) ==
  LET c == <<n, comm[n].link>> IN
  /\ comm[n].at = "push" /\ Live(c)
  /\ conn' = Pushed(c, Post(comm[n].post))
  /\ comm' = [comm EXCEPT ![n] = CommIdle]
  /\ UNCHANGED <<box, map, config, aio, admin, tcp, wire, posted, inbox, pings>>

-----------------------------------------------------------------------------
(* The connection's thread of the pool (ident 255): a rung bell makes it   *)
(* ask v_has_job, and it asks again after a job.                           *)
\* Mutants: a message under way is not looked at; nor is the state.
HasJobAnyway(c) ==
  /\ ~conn[c].blocked /\ Queue!Peek(conn[c].queue)
  /\ conn[c].state = "connected" \/ Queue!Touch(conn[c].queue) = 0
HasJobInAnyState(c) ==
  ~conn[c].blocked /\ Queue!Peek(conn[c].queue) /\ conn[c].out = None

HasJob(c) ==
  /\ ~conn[c].blocked /\ Queue!Peek(conn[c].queue)
  /\ conn[c].out = None
  /\ \/ conn[c].state = "connected"
     \/ Queue!Touch(conn[c].queue) = 0

ThreadAsk(n, l) ==
  LET c == <<n, l>> IN
  /\ Live(c) /\ conn[c].thread = "asleep" /\ conn[c].bell
  /\ conn' = [conn EXCEPT ![c].bell = FALSE,
                          ![c].thread = IF HasJob(c) THEN "job" ELSE "asleep"]
  /\ UNCHANGED <<box, map, config, comm, aio, admin, tcp, wire, posted, inbox, pings>>

(* v_do_job: the first message goes to the socket, with the session of the *)
(* connection unless it belongs to the handshake.  A refused send leaves   *)
(* it in _msg_send and shuts the connection down.                          *)
Signed(c, m) ==
  IF m.kind \in {"hello", "welcome"} THEN m ELSE [m EXCEPT !.session = conn[c].session]
Popped(c) ==
  [conn EXCEPT ![c].out = Signed(c, Queue!Front(conn[c].queue)),
               ![c].queue = Queue!Pop(@)]
ThreadSend(n, l) ==
  LET c == <<n, l>> IN
  /\ Live(c) /\ conn[c].thread = "job"
  /\ conn' = [Popped(c) EXCEPT ![c].ops = @ \cup {"send"},
                               ![c].thread = "asleep", ![c].bell = TRUE]
  /\ UNCHANGED <<box, map, config, comm, aio, admin, tcp, wire, posted, inbox, pings>>
ThreadRefused(n, l) ==
  LET c == <<n, l>> IN
  /\ Live(c) /\ conn[c].thread = "job"
  /\ tcp[l].is = "down"
  /\ conn' = [Popped(c) EXCEPT ![c].thread = "shut"]
  /\ UNCHANGED <<box, map, config, comm, aio, admin, tcp, wire, posted, inbox, pings>>

-----------------------------------------------------------------------------
(* The working thread of aiosock runs one callback at a time, with no      *)
(* mutex held: its connection may be deleted before the callback is over.  *)
FarEnd(n, l) == <<IF n = tcp[l].from THEN tcp[l].to ELSE tcp[l].from, l>>
Enters(n, l, op) ==
  /\ aio[n].at = "idle"
  /\ Live(<<n, l>>) /\ op \in conn[<<n, l>>].ops
Inside(n, at)   == aio[n].at = at /\ Live(<<n, aio[n].link>>)
Stays(n, l, at) == aio' = [aio EXCEPT ![n] = At(at, l)]
Leaves(n)       == aio' = [aio EXCEPT ![n] = Idle]

(* v_on_accept of the listener: accept() makes the connection, starts to   *)
(* receive, turns it on and adds it at a fake address.                     *)
Accept(n, l) ==
  /\ aio[n].at = "idle" /\ conn[<<n, l>>].life = "none"
  /\ tcp[l].is = "up" /\ tcp[l].to = n
  /\ conn' = [conn EXCEPT ![<<n, l>>] = [NewConn("receiver", l, {"recv"}) EXCEPT !.bell = TRUE]]
  /\ map' = [map EXCEPT ![n][l] = l]
  /\ UNCHANGED <<box, config, comm, aio, admin, tcp, wire, posted, inbox, pings>>

(* v_on_connect: the handshake is queued and the first receive begins; a   *)
(* blocked queue throws.                                                   *)
OnConnect(n, l) ==
  LET c == <<n, l>> hello == Message("hello", n, 0, l) IN
  /\ Enters(n, l, "connect")
  /\ tcp[l].is = "up"
  /\ IF conn[c].blocked \/ ~Accepts(conn[c].queue, hello)
     THEN /\ conn' = [conn EXCEPT ![c].session = l, ![c].ops = @ \ {"connect"}]
          /\ Stays(n, l, "shut")
     ELSE /\ conn' = [conn EXCEPT ![c].session = l, ![c].ops = (@ \ {"connect"}) \cup {"recv"},
                                  ![c].queue = With(@, hello), ![c].bell = TRUE]
          /\ UNCHANGED aio
  /\ UNCHANGED <<box, map, config, comm, admin, tcp, wire, posted, inbox, pings>>

(* v_on_send: the message is destroyed, _msg_send cleared, the thread woken. *)
(* The wire has the message only from here on.  In the program the peer may  *)
(* read it, and answer, before this callback has run; no property speaks of  *)
(* the two in that order.                                                    *)
OnSend(n, l) ==
  LET c == <<n, l>> IN
  /\ Enters(n, l, "send")
  /\ tcp[l].is = "up"
  /\ wire' = IF conn[FarEnd(n, l)].life = "deleted" THEN wire
             ELSE [wire EXCEPT ![FarEnd(n, l)] = Append(@, conn[c].out)]
  /\ conn' = [conn EXCEPT ![c].ops = @ \ {"send"}, ![c].out = None]
  /\ Stays(n, l, "wake")
  /\ UNCHANGED <<box, map, config, comm, admin, tcp, posted, inbox, pings>>
SentWakesNobody(n) ==                      \* mutant: the thread is not woken
  /\ Inside(n, "wake")
  /\ Leaves(n)
  /\ UNCHANGED <<box, map, config, comm, admin, conn, tcp, wire, posted, inbox, pings>>
SentWakes(n) ==
  /\ Inside(n, "wake")
  /\ conn' = [conn EXCEPT ![<<n, aio[n].link>>].bell = TRUE]
  /\ Leaves(n)
  /\ UNCHANGED <<box, map, config, comm, admin, tcp, wire, posted, inbox, pings>>

(* v_on_error: shutdown_connection.                                        *)
OnError(n, l) ==
  /\ tcp[l].is = "down"
  /\ \E op \in conn[<<n, l>>].ops :
       /\ Enters(n, l, op)
       /\ conn' = [conn EXCEPT ![<<n, l>>].ops = @ \ {op}]
  /\ Stays(n, l, "shut")
  /\ UNCHANGED <<box, map, config, comm, admin, tcp, wire, posted, inbox, pings>>

-----------------------------------------------------------------------------
(* v_on_receive with a whole message, and process_incoming_message.        *)
Got(n, l) == Head(wire[<<n, l>>])
Known(n, l) ==
  conn[<<n, l>>].state = "connected" /\ Got(n, l).session = conn[<<n, l>>].session
IsAnswer(n, l) ==
  /\ conn[<<n, l>>].state = "initiator"
  /\ Got(n, l).kind = "welcome" /\ Got(n, l).session = conn[<<n, l>>].session
IsGreeting(n, l) == conn[<<n, l>>].state = "receiver" /\ Got(n, l).kind \in {"hello", "welcome"}

Receives(n, l) ==
  /\ Enters(n, l, "recv") /\ wire[<<n, l>>] # <<>>
  /\ wire' = [wire EXCEPT ![<<n, l>>] = Tail(@)]
Silent(c)        == [conn EXCEPT ![c].ops = @ \ {"recv"}]
ReceivesAgain(c) == [conn EXCEPT ![c].ops = @ \cup {"recv"}]

(* The initiator has its answer: it is connected, and wakes its thread.    *)
Answered(n, l) ==
  /\ Receives(n, l) /\ IsAnswer(n, l)
  /\ conn' = [Silent(<<n, l>>) EXCEPT ![<<n, l>>].state = "connected",
                                      ![<<n, l>>].addr = Got(n, l).who]
  /\ Stays(n, l, "greeted")
  /\ UNCHANGED <<box, map, config, comm, admin, tcp, posted, inbox, pings>>
Greeted(n) ==
  LET c == <<n, aio[n].link>> IN
  /\ Inside(n, "greeted")
  /\ conn' = [ReceivesAgain(c) EXCEPT ![c].bell = TRUE]
  /\ Leaves(n)
  /\ UNCHANGED <<box, map, config, comm, admin, tcp, wire, posted, inbox, pings>>

\* Mutant: the fake address stays in the map.
ReaddressTwice(n, l) ==
  LET c == <<n, l>> a == Got(n, l).who IN
  /\ Receives(n, l) /\ IsGreeting(n, l)
  /\ map[n][a] = None
  /\ map' = [map EXCEPT ![n][a] = l]
  /\ conn' = [Silent(c) EXCEPT ![c].addr = a, ![c].session = Got(n, l).session]
  /\ Stays(n, l, IF Got(n, l).kind = "hello" THEN "answer" ELSE "shut")
  /\ UNCHANGED <<box, config, comm, admin, tcp, posted, inbox, pings>>

(* The receiver takes the address of its peer, if nobody has it in the map; *)
(* else change_connection_address deletes the connection it is called from. *)
Readdress(n, l) ==
  LET c == <<n, l>> a == Got(n, l).who IN
  /\ Receives(n, l) /\ IsGreeting(n, l)
  /\ map[n][a] = None
  /\ map' = [map EXCEPT ![n][conn[c].addr] = None, ![n][a] = l]
  /\ conn' = [Silent(c) EXCEPT ![c].addr = a, ![c].session = Got(n, l).session]
  /\ Stays(n, l, IF Got(n, l).kind = "hello" THEN "answer" ELSE "shut")
  /\ UNCHANGED <<box, config, comm, admin, tcp, posted, inbox, pings>>
DeletesItself(n, l) ==
  LET c == <<n, l>> IN
  /\ Receives(n, l) /\ IsGreeting(n, l)
  /\ map[n][Got(n, l).who] # None
  /\ map' = [map EXCEPT ![n][conn[c].addr] = None]
  /\ conn' = [conn EXCEPT ![c] = Deleted(c)]
  /\ tcp' = Down(l)
  /\ Stays(n, l, "shut")
  /\ UNCHANGED <<box, config, comm, admin, posted, inbox, pings>>

(* The state changes before the answer is in the queue.                    *)
Answers(n) ==
  LET l == aio[n].link IN
  /\ Inside(n, "answer")
  /\ conn' = [conn EXCEPT ![<<n, l>>].state = "connected"]
  /\ Stays(n, l, "reply")
  /\ UNCHANGED <<box, map, config, comm, admin, tcp, wire, posted, inbox, pings>>
Replies(n) ==
  LET l == aio[n].link c == <<n, l>>
      welcome == Message("welcome", n, 0, conn[c].session)
  IN
  /\ Inside(n, "reply")
  /\ conn' = Pushed(c, welcome)
  /\ Stays(n, l, IF conn' = conn THEN "shut" ELSE "done")
  /\ UNCHANGED <<box, map, config, comm, admin, tcp, wire, posted, inbox, pings>>

(* A user's message goes to the communicator (comm_msg), which may refuse. *)
Forwards(n, l) ==
  LET m == [Got(n, l) EXCEPT !.session = None] IN
  /\ Receives(n, l) /\ Known(n, l) /\ m.kind = "post"
  /\ IF Accepts(box[n], m) THEN box' = [box EXCEPT ![n] = With(@, m)] /\ Stays(n, l, "done")
     ELSE UNCHANGED box /\ Stays(n, l, "shut")
  /\ conn' = Silent(<<n, l>>)
  /\ UNCHANGED <<map, config, comm, admin, tcp, posted, inbox, pings>>
DoneDeaf(n) ==                             \* mutant: the next receive is not begun
  /\ Inside(n, "done")
  /\ Leaves(n)
  /\ UNCHANGED <<box, map, config, comm, admin, conn, tcp, wire, posted, inbox, pings>>
Done(n) ==
  /\ Inside(n, "done")
  /\ conn' = ReceivesAgain(<<n, aio[n].link>>)
  /\ Leaves(n)
  /\ UNCHANGED <<box, map, config, comm, admin, tcp, wire, posted, inbox, pings>>

(* A ping is destroyed, and the next receive begins.                       *)
Pinged(n, l) ==
  /\ Receives(n, l) /\ Known(n, l) /\ Got(n, l).kind = "ping"
  /\ UNCHANGED <<box, map, config, comm, aio, admin, conn, tcp, posted, inbox, pings>>

(* Anything else throws, and the connection is shut down.                  *)
Throws(n, l) ==
  /\ Receives(n, l)
  /\ ~IsAnswer(n, l) /\ ~IsGreeting(n, l)
  /\ ~(Known(n, l) /\ Got(n, l).kind \in {"ping", "post"})
  /\ conn' = Silent(<<n, l>>)
  /\ Stays(n, l, "shut")
  /\ UNCHANGED <<box, map, config, comm, admin, tcp, posted, inbox, pings>>

-----------------------------------------------------------------------------
(* The network breaks a link, and loses what it likes: an operation may    *)
(* then fail although data could still be received.                        *)
Break(l) ==
  /\ l \in Fragile /\ tcp[l].is = "up"
  /\ tcp' = Down(l)
  /\ UNCHANGED <<box, map, config, comm, aio, admin, conn, wire, posted, inbox, pings>>

-----------------------------------------------------------------------------
CommStep(n) ==
  \/ CommClose(n) \/ CommDeliver(n) \/ CommRoute(n) \/ CommRefuse(n)
  \/ CommConnect(n) \/ CommAdd(n) \/ CommDuplicate(n) \/ CommPush(n)
Callback(n, l) ==
  \/ Accept(n, l) \/ OnConnect(n, l) \/ OnSend(n, l) \/ OnError(n, l)
  \/ Answered(n, l) \/ Readdress(n, l) \/ DeletesItself(n, l)
  \/ Forwards(n, l) \/ Pinged(n, l) \/ Throws(n, l)
AioStep(n) ==
  \/ \E l \in Links : Callback(n, l)
  \/ SentWakes(n) \/ Greeted(n) \/ Answers(n) \/ Replies(n) \/ Done(n) \/ AioShut(n)
ThreadStep(n, l) ==
  ThreadAsk(n, l) \/ ThreadSend(n, l) \/ ThreadRefused(n, l) \/ ThreadShut(n, l)

Next ==
  \/ \E i \in Posts : MakePost(i)
  \/ \E n \in Nodes : CommStep(n) \/ AioStep(n) \/ AdminShut(n) \/ \E m \in Nodes : Remove(n, m)
  \/ \E n \in Nodes, l \in Links : ThreadStep(n, l) \/ Ping(n, l)
  \/ \E l \in Links : Break(l)

Spec == Init /\ [][Next]_vars

(* Every thread keeps running; the users, the administrators, the clock    *)
(* and the network owe nothing.  One condition does for all threads: with  *)
(* Posts, Links and MaxPings finite no step can be repeated for ever.      *)
ThreadsStep ==
  \/ \E n \in Nodes : CommStep(n) \/ AioStep(n) \/ AdminShut(n)
  \/ \E n \in Nodes, l \in Links : ThreadStep(n, l)
Fairness == WF_vars(ThreadsStep)
FairSpec == Spec /\ Fairness

-----------------------------------------------------------------------------
(* An actor is inside a deleted connection: what it does next is undefined *)
(* and not modelled, so it takes no further step.                          *)
Astray(c) ==
  /\ conn[c].life = "deleted"
  /\ \/ conn[c].thread # "asleep"
     \/ \E actor \in {aio, admin} : actor[c[1]].at # "idle" /\ actor[c[1]].link = c[2]

(* One message is in flight at a time: the thread finds a job only when    *)
(* _msg_send is free, nothing takes it from the queue meanwhile            *)
(* (msg_sock.cpp:301-306), and a message stays in _msg_send exactly as     *)
(* long as the socket sends it or the connection is being shut down.       *)
OneInFlight ==
  \A c \in Ends : Live(c) =>
    /\ conn[c].thread = "job" => conn[c].out = None /\ Queue!Peek(conn[c].queue)
    /\ "send" \in conn[c].ops => conn[c].out # None
    /\ conn[c].out # None =>
         \/ "send" \in conn[c].ops \/ conn[c].thread \in {"shut", "revoke"} \/ conn[c].blocked
         \/ aio[c[1]] = At("shut", c[2])

(* A connection that is not being shut down listens: v_on_connect,         *)
(* accept() and every v_on_receive leave one receive under way.            *)
StillListens ==
  \A c \in Ends : Live(c) /\ ~conn[c].blocked =>
    \/ conn[c].ops \cap {"connect", "recv"} # {}
    \/ aio[c[1]].link = c[2]

(* The map holds live connections, each at its own address, and all of     *)
(* them but the one the communicator is about to add; the pointer that     *)
(* _connect returned is good when the message is pushed                    *)
(* (msg_comm.cpp:960-973), although no mutex was held.                     *)
MapHoldsLive ==
  /\ \A n \in Nodes : \A a \in DOMAIN map[n] :
       map[n][a] # None => Live(<<n, map[n][a]>>) /\ conn[<<n, map[n][a]>>].addr = a
  /\ \A c \in Ends : Live(c) =>
       \/ map[c[1]][conn[c].addr] = c[2]
       \/ comm[c[1]].at = "add" /\ comm[c[1]].link = c[2]
  /\ \A n \in Nodes : comm[n].at # "idle" => Live(<<n, comm[n].link>>)

(* v_has_job holds everything but the handshake back until the connection  *)
(* is connected: the accepting side never hears anything else first.       *)
GreetingFirst ==
  \A c \in Ends : conn[c].state = "receiver" /\ wire[c] # <<>> => Head(wire[c]).kind = "hello"

(* The same of the connecting side and the answer to its handshake: "ready *)
(* for sending/receiving messages" (msg_conn.h:63) comes with the answer   *)
(* ahead of all messages.  It does not hold, and no run checks it: README,  *)
(* section 6.                                                              *)
AnswerFirst ==
  \A c \in Ends : conn[c].state = "initiator" /\ wire[c] # <<>> => Head(wire[c]).kind = "welcome"

(* Messages of one sender are delivered in the order they were posted, and *)
(* once each, across as many connections as it takes - provided only one   *)
(* of two nodes can connect to the other.  If both can, a connection just  *)
(* accepted may deliver what was posted after messages that are still      *)
(* unread on an older one (README, section 6).                             *)
OneSided == \A e \in Configured : <<e[2], e[1]>> \notin Configured
DeliveredInOrder ==
  OneSided =>
    \A n \in Nodes : \A j \in DOMAIN inbox[n] : \A k \in 1 .. j - 1 :
      From[inbox[n][k]] = From[inbox[n][j]] => inbox[n][k] < inbox[n][j]

(* A close destroys no connection but one that was shut down ("gives the   *)
(* order to destroy connection", msg_comm.h:131).  It does not hold either. *)
CloseHitsOwn ==
  [][\A n \in Nodes, l \in Links :
       CommClose(n) /\ Live(<<n, l>>) /\ ~Live(<<n, l>>)' => conn[<<n, l>>].blocked]_vars

(* A connection that is shut down is deleted in the end.                   *)
ShutdownEnds == <>[](\A c \in Ends : ~(Live(c) /\ conn[c].blocked))

(* The wake-ups suffice: what is queued on a connected connection leaves,  *)
(* unless it is shut down.  Nothing is said of a node one of whose actors, *)
(* be it a pool thread, the callbacks or the administrator, is inside any  *)
(* deleted connection of that node.                                        *)
QueuedLeaves ==
  <>[](\A n \in Nodes, l \in Links :
         Live(<<n, l>>) /\ conn[<<n, l>>].state = "connected" /\ Queue!Peek(conn[<<n, l>>].queue)
           => conn[<<n, l>>].blocked \/ \E k \in Links : Astray(<<n, k>>))
=============================================================================
