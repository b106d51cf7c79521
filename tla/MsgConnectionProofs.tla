------------------------- MODULE MsgConnectionProofs ------------------------
(***************************************************************************)
(* Proofs about MsgConnection for every number of nodes, links and posts,  *)
(* every capacity, and whatever is configured or breaks.                   *)
(***************************************************************************)
EXTENDS MsgConnection, ListProofs

Addresses == Nodes \cup Links
Queues == [0 .. 2 -> Seq(Messages)]

Conns ==
  [life : {"none", "live", "deleted"}, state : {"none", "initiator", "receiver", "connected"},
   blocked : BOOLEAN, addr : Addresses \cup {None}, session : Links \cup {None},
   queue : Queues, out : Messages \cup {None}, ops : SUBSET {"connect", "recv", "send"},
   bell : BOOLEAN, thread : {"asleep", "job", "shut", "revoke"}]
Actors == [at : {"idle", "shut", "revoke", "wake", "greeted", "answer", "reply", "done"},
           link : Links \cup {None}]

ConnTypes ==
  /\ conn \in [Ends -> Conns]
  /\ tcp \in [Links -> [is : {"none", "up", "down"}, from : Nodes \cup {None}, to : Nodes \cup {None}]]
  /\ wire \in [Ends -> Seq(Messages)]
BoxTypes ==
  /\ box \in [Nodes -> Queues]
  /\ \A n \in Nodes : \A p \in 0 .. 2 : \A m \in Elements(box[n][p]) :
       m.kind = "post" => m.post \in Posts
NodeTypes ==
  /\ map \in [Nodes -> [Addresses -> Links \cup {None}]]
  /\ comm \in [Nodes -> [at : {"idle", "add", "push"}, link : Links \cup {None}, post : Posts \cup {0}]]
  /\ aio \in [Nodes -> Actors]
  /\ admin \in [Nodes -> Actors]
  /\ \A n \in Nodes : comm[n].at # "idle" => comm[n].link \in Links /\ comm[n].post \in Posts
  /\ \A n \in Nodes : aio[n].at = "idle" <=> aio[n].link = None
  /\ \A n \in Nodes : admin[n].at = "idle" <=> admin[n].link = None

(* A link that is not used has no ends; one that is has two different ones, *)
(* and the end that connected and the end that accepted stay what they are. *)
LinkOf(l) ==
  /\ tcp[l].is = "none" => \A n \in Nodes : conn[<<n, l>>] = NoConn /\ wire[<<n, l>>] = <<>>
  /\ tcp[l].is # "none" => tcp[l].from \in Nodes /\ tcp[l].to \in Nodes /\ tcp[l].from # tcp[l].to
Connects(n, l) ==
  /\ n = tcp[l].from /\ conn[<<n, l>>].addr = tcp[l].to
  /\ conn[<<n, l>>].state \in {"initiator", "connected"}
Listens(n, l) ==
  /\ n = tcp[l].to /\ conn[<<n, l>>].addr \in Nodes \cup {l}
  /\ conn[<<n, l>>].state \in {"receiver", "connected"}
RoleOf(n, l) ==
  /\ conn[<<n, l>>].life = "none" => conn[<<n, l>>] = NoConn
  /\ conn[<<n, l>>].life = "deleted" => conn[<<n, l>>].state = "none"
  /\ Live(<<n, l>>) => tcp[l].is # "none" /\ (Connects(n, l) \/ Listens(n, l))

(* The map and what the communicator is about to put there.                *)
MapOf(n) ==
  /\ \A a \in Addresses, l \in Links :
       map[n][a] = l => Live(<<n, l>>) /\ conn[<<n, l>>].addr = a
  /\ \A l \in Links : Live(<<n, l>>) =>
       \/ map[n][conn[<<n, l>>].addr] = l
       \/ comm[n].at = "add" /\ comm[n].link = l
  /\ comm[n].at # "idle" => Live(<<n, comm[n].link>>) /\ tcp[comm[n].link].from = n
  /\ comm[n].at = "add" => \A a \in Addresses : map[n][a] # comm[n].link

(* What an end may have sent.  Nothing but the handshake passes before the *)
(* accepting end is connected, or gone.                                    *)
Established(l) ==
  /\ tcp[l].is # "none"
  /\ \/ conn[<<tcp[l].to, l>>].state = "connected"
     \/ conn[<<tcp[l].to, l>>].life = "deleted"
Carries(n, l, m) ==
  /\ m.kind # "close"
  /\ m.kind = "post" => m.post \in Posts
  /\ m.kind = "hello" => n = tcp[l].from /\ m.who = n
  /\ m.kind = "welcome" => n = tcp[l].to /\ m.who = n /\ Established(l)
Far(n, l) == IF n = tcp[l].from THEN tcp[l].to ELSE tcp[l].from
CarryOf(n, l) ==
  /\ \A p \in 0 .. 2 : \A m \in Elements(conn[<<n, l>>].queue[p]) :
       Priority(m) = p /\ Carries(n, l, m)
  /\ conn[<<n, l>>].out # None => Carries(n, l, conn[<<n, l>>].out)
  /\ \A m \in Elements(wire[<<n, l>>]) : Carries(Far(n, l), l, m)
SilenceOf(l) ==
  tcp[l].is # "none" /\ ~Established(l) =>
    /\ conn[<<tcp[l].from, l>>].state # "connected"
    /\ conn[<<tcp[l].from, l>>].out # None => conn[<<tcp[l].from, l>>].out.kind = "hello"
    /\ \A m \in Elements(wire[<<tcp[l].to, l>>]) : m.kind = "hello"

(* The thread of the pool and the operations of one end.                   *)
FlightOf(n, l) ==
  LET c == conn[<<n, l>>] IN
  Live(<<n, l>>) =>
    /\ c.thread = "job" =>
         c.out = None /\ Queue!Peek(c.queue) /\ (c.state = "connected" \/ c.queue[0] # <<>>)
    /\ c.thread = "revoke" => c.blocked
    /\ "connect" \in c.ops => n = tcp[l].from
    /\ "send" \in c.ops => c.out # None
    /\ c.out # None =>
         \/ "send" \in c.ops \/ c.thread \in {"shut", "revoke"} \/ c.blocked
         \/ aio[n] = At("shut", l)
Hears(n, l) == conn[<<n, l>>].blocked \/ conn[<<n, l>>].ops \cap {"connect", "recv"} # {}
ListenOf(n, l) ==
  Live(<<n, l>>) =>
    /\ Hears(n, l) \/ aio[n].link = l
    /\ aio[n] = At("wake", l) => Hears(n, l)
    /\ aio[n] = At("revoke", l) => conn[<<n, l>>].blocked
AioOf(n) ==
  aio[n].at # "idle" =>
    LET l == aio[n].link IN
    /\ conn[<<n, l>>].life # "none"
    /\ aio[n].at \in {"answer", "reply"} => tcp[l].to = n
    /\ aio[n].at = "reply" => Established(l)

Types == ConnTypes /\ BoxTypes /\ NodeTypes
ConnInv ==
  /\ Types
  /\ \A l \in Links : LinkOf(l) /\ SilenceOf(l)
  /\ \A n \in Nodes : MapOf(n) /\ AioOf(n)
  /\ \A n \in Nodes, l \in Links :
       RoleOf(n, l) /\ CarryOf(n, l) /\ FlightOf(n, l) /\ ListenOf(n, l)

-----------------------------------------------------------------------------
(* The queue.                                                              *)

LEMMA QueuePushes ==
  ASSUME NEW q \in Queues, NEW m \in Messages
  PROVE  /\ With(q, m) \in Queues /\ Queue!Peek(With(q, m))
         /\ \A p \in 0 .. 2 : \A x \in Elements(With(q, m)[p]) :
              x \in Elements(q[p]) \/ (x = m /\ p = Priority(m))
         /\ q[0] # <<>> => With(q, m)[0] # <<>>
<1>1. PICK r \in 0 .. 2 : r = Priority(m) /\ r # 1
  BY DEF Priority
<1>2. With(q, m) = [q EXCEPT ![r] = Append(q[r], m)]
  <2>1. Queue!Check(r) = r
    BY DEF Queue!Check
  <2>. QED
    BY <1>1, <2>1, Zenon DEF With, Queue!Push
<1>3. DOMAIN q = 0 .. 2 /\ q[r] \in Seq(Messages)
  BY DEF Queues
<1>4. /\ Append(q[r], m) \in Seq(Messages) /\ Append(q[r], m) # <<>>
      /\ Elements(Append(q[r], m)) = Elements(q[r]) \cup {m}
  <2>1. Append(q[r], m) \in Seq(Messages) /\ Elements(Append(q[r], m)) = Elements(q[r]) \cup {m}
    BY <1>3, ListGrows
  <2>2. Append(q[r], m) # <<>>
    BY <1>3
  <2>. QED
    BY <2>1, <2>2
<1>5. With(q, m) \in Queues /\ DOMAIN With(q, m) = 0 .. 2
  BY <1>2, <1>4 DEF Queues
<1>6. /\ With(q, m)[r] = Append(q[r], m)
      /\ \A p \in 0 .. 2 : p # r => With(q, m)[p] = q[p]
  BY <1>2, <1>3
<1>7. Queue!Peek(With(q, m))
  BY <1>4, <1>5, <1>6 DEF Queue!Peek
<1>8. ASSUME NEW p \in 0 .. 2, NEW x \in Elements(With(q, m)[p])
      PROVE  x \in Elements(q[p]) \/ (x = m /\ p = Priority(m))
  <2>1. CASE p = r
    <3>1. x \in Elements(q[r]) \cup {m}
      BY <1>4, <1>6, <2>1
    <3>. QED
      BY <1>1, <2>1, <3>1
  <2>2. CASE p # r
    BY <1>6, <2>2
  <2>. QED
    BY <2>1, <2>2
<1>9. q[0] # <<>> => With(q, m)[0] # <<>>
  BY <1>4, <1>6
<1>. QED
  BY <1>5, <1>7, <1>8, <1>9

LEMMA QueueTouches ==
  ASSUME NEW q \in Queues, Queue!Peek(q)
  PROVE  /\ Queue!Touch(q) \in 0 .. 2 /\ q[Queue!Touch(q)] # <<>>
         /\ q[0] # <<>> => Queue!Touch(q) = 0
         /\ Queue!Touch(q) = 0 => q[0] # <<>>
<1>1. DOMAIN q = 0 .. 2
  BY DEF Queues
<1>2. \E p \in DOMAIN q : q[p] # <<>> /\ \A r \in 0 .. p - 1 : q[r] = <<>>
  <2>1. CASE q[0] # <<>>
    BY <1>1, <2>1
  <2>2. CASE q[0] = <<>> /\ q[1] # <<>>
    BY <1>1, <2>2
  <2>3. CASE q[0] = <<>> /\ q[1] = <<>>
    BY <1>1, <2>3 DEF Queue!Peek
  <2>. QED
    BY <2>1, <2>2, <2>3
<1>3. /\ Queue!Touch(q) \in DOMAIN q /\ q[Queue!Touch(q)] # <<>>
      /\ \A r \in 0 .. Queue!Touch(q) - 1 : q[r] = <<>>
  BY <1>2 DEF Queue!Touch
<1>. QED
  BY <1>1, <1>3

LEMMA QueuePops ==
  ASSUME NEW q \in Queues, Queue!Peek(q)
  PROVE  /\ Queue!Pop(q) \in Queues /\ Queue!Front(q) \in Messages
         /\ \E p \in 0 .. 2 : Queue!Front(q) \in Elements(q[p]) /\ (q[0] # <<>> => p = 0)
         /\ \A p \in 0 .. 2 : Elements(Queue!Pop(q)[p]) \subseteq Elements(q[p])
<1>1. PICK r \in 0 .. 2 : r = Queue!Touch(q)
  BY QueueTouches
<1>2. q[r] # <<>> /\ (q[0] # <<>> => r = 0)
  BY <1>1, QueueTouches
<1>3. Queue!Pop(q) = [q EXCEPT ![r] = Tail(q[r])] /\ Queue!Front(q) = Head(q[r])
  BY <1>1 DEF Queue!Pop, Queue!Front, Queues
<1>4. q[r] \in Seq(Messages)
  BY DEF Queues
<1>5. /\ Tail(q[r]) \in Seq(Messages) /\ Head(q[r]) \in Messages
      /\ Head(q[r]) \in Elements(q[r]) /\ Elements(Tail(q[r])) \subseteq Elements(q[r])
  BY <1>2, <1>4, HeadAndTail
<1>. QED
  BY <1>2, <1>3, <1>5 DEF Queues

LEMMA ClearHolds == Queue!Clear \in Queues /\ \A p \in 0 .. 2 : Elements(Queue!Clear[p]) = {}
BY DEF Queue!Clear, Queues, Elements

-----------------------------------------------------------------------------
(* Steps that leave every link and every end in its place.                 *)

\* Only the end of n changes, and not its place; it may have received something.
Keeps(n, l) ==
  /\ \A d \in Ends : d # <<n, l>> => conn'[d] = conn[d] /\ wire'[d] = wire[d]
  /\ conn'[<<n, l>>].life = conn[<<n, l>>].life
  /\ conn'[<<n, l>>].state = conn[<<n, l>>].state
  /\ conn'[<<n, l>>].addr = conn[<<n, l>>].addr
  /\ Elements(wire'[<<n, l>>]) \subseteq Elements(wire[<<n, l>>])
  /\ UNCHANGED <<map, tcp>>
  /\ \A k \in Nodes : comm'[k] = comm[k] \/ (comm[k].at # "add" /\ comm'[k].at = "idle")
\* The working thread of n is busy with this end or with none.
AioTurns(n, l) ==
  /\ \A k \in Nodes : k # n => aio'[k] = aio[k]
  /\ aio'[n] # aio[n] => aio[n].link \in {None, l} /\ aio'[n].link \in {None, l}
\* What is put in the queue, and what is sent, may be.
Speaks(n, l) ==
  LET c == conn[<<n, l>>] d == conn'[<<n, l>>] IN
  /\ \A p \in 0 .. 2 : \A m \in Elements(d.queue[p]) :
       m \in Elements(c.queue[p]) \/ (Priority(m) = p /\ Carries(n, l, m))
  /\ \/ d.out \in {None, c.out}
     \/ Carries(n, l, d.out) /\ (n = tcp[l].from /\ ~Established(l) => d.out.kind = "hello")

LEMMA EndMoves ==
  ASSUME ConnInv, Types', NEW n \in Nodes, NEW l \in Links, Live(<<n, l>>),
         Keeps(n, l), AioTurns(n, l), Speaks(n, l),
         FlightOf(n, l)', ListenOf(n, l)', AioOf(n)'
  PROVE  ConnInv'
<1>1. \A k \in Nodes, j \in Links : <<k, j>> \in Ends /\ (k # n \/ j # l => <<k, j>> # <<n, l>>)
  BY DEF Ends
<1>2. /\ \A k \in Nodes, j \in Links :
           /\ conn'[<<k, j>>].life = conn[<<k, j>>].life
           /\ conn'[<<k, j>>].state = conn[<<k, j>>].state
           /\ conn'[<<k, j>>].addr = conn[<<k, j>>].addr
           /\ k # n \/ j # l => conn'[<<k, j>>] = conn[<<k, j>>] /\ wire'[<<k, j>>] = wire[<<k, j>>]
           /\ Elements(wire'[<<k, j>>]) \subseteq Elements(wire[<<k, j>>])
      /\ map' = map /\ tcp' = tcp
      /\ \A k \in Nodes : comm'[k] = comm[k] \/ (comm[k].at # "add" /\ comm'[k].at = "idle")
  BY <1>1 DEF Keeps
<1>3. tcp[l].is # "none" /\ tcp[l].from \in Nodes /\ tcp[l].to \in Nodes
  BY DEF ConnInv, RoleOf, LinkOf
<1>4. \A j \in Links : Established(j)' <=> Established(j)
  BY <1>2 DEF ConnInv, LinkOf, Established
<1>5. \A k \in Nodes, j \in Links : Live(<<k, j>>)' <=> Live(<<k, j>>)
  BY <1>2 DEF Live
<1>6. \A k \in Nodes, j \in Links : \A m : Carries(k, j, m)' <=> Carries(k, j, m)
  BY <1>2, <1>4 DEF Carries
<1>7. \A j \in Links : LinkOf(j)'
  <2>. SUFFICES ASSUME NEW j \in Links PROVE LinkOf(j)'
    OBVIOUS
  <2>1. CASE j = l
    BY <1>2, <1>3, <2>1 DEF LinkOf, ConnInv
  <2>2. CASE j # l
    BY <1>2, <2>2 DEF LinkOf, ConnInv
  <2>. QED
    BY <2>1, <2>2
<1>8. \A k \in Nodes, j \in Links : RoleOf(k, j)'
  <2>. SUFFICES ASSUME NEW k \in Nodes, NEW j \in Links PROVE RoleOf(k, j)'
    OBVIOUS
  <2>1. CASE k = n /\ j = l
    BY <1>2, <2>1 DEF RoleOf, Connects, Listens, Live, ConnInv
  <2>2. CASE k # n \/ j # l
    BY <1>2, <2>2 DEF RoleOf, Connects, Listens, Live, ConnInv
  <2>. QED
    BY <2>1, <2>2
<1>9. \A k \in Nodes : MapOf(k)'
  <2>. SUFFICES ASSUME NEW k \in Nodes PROVE MapOf(k)'
    OBVIOUS
  <2>1. comm'[k] = comm[k] \/ (comm[k].at # "add" /\ comm'[k].at = "idle")
    BY <1>2
  <2>2. /\ map[k] \in [Addresses -> Links \cup {None}]
        /\ comm[k].at # "idle" => comm[k].link \in Links
    BY DEF ConnInv, Types, NodeTypes
  <2>3. MapOf(k)
    BY DEF ConnInv
  <2>. QED
    BY <1>2, <2>1, <2>2, <2>3 DEF MapOf, Live
<1>10. \A k \in Nodes : AioOf(k)'
  <2>. SUFFICES ASSUME NEW k \in Nodes, k # n PROVE AioOf(k)'
    OBVIOUS
  <2>1. aio'[k] = aio[k] /\ AioOf(k)
    BY DEF AioTurns, ConnInv
  <2>2. aio[k].at # "idle" => aio[k].link \in Links
    BY DEF ConnInv, Types, NodeTypes, Actors
  <2>. QED
    BY <1>2, <1>4, <2>1, <2>2 DEF AioOf
<1>11. \A k \in Nodes, j \in Links : k # n \/ j # l => FlightOf(k, j)' /\ ListenOf(k, j)'
  <2>. SUFFICES ASSUME NEW k \in Nodes, NEW j \in Links, k # n \/ j # l
                PROVE  FlightOf(k, j)' /\ ListenOf(k, j)'
    OBVIOUS
  <2>1. conn'[<<k, j>>] = conn[<<k, j>>] /\ FlightOf(k, j) /\ ListenOf(k, j)
    BY <1>2 DEF ConnInv
  <2>2. \/ aio'[k] = aio[k]
        \/ aio[k].link # j /\ aio'[k].link # j
    BY NodesAssumption DEF AioTurns
  <2>3. \A x : At(x, j).link = j
    BY DEF At
  <2>4. CASE aio'[k] = aio[k]
    BY <1>2, <2>1, <2>4 DEF FlightOf, ListenOf, Hears, Live
  <2>5. CASE aio[k].link # j /\ aio'[k].link # j
    BY <1>2, <2>1, <2>3, <2>5 DEF FlightOf, ListenOf, Hears, Live
  <2>. QED
    BY <2>2, <2>4, <2>5
<1>12. \A k \in Nodes, j \in Links : CarryOf(k, j)'
  <2>. SUFFICES ASSUME NEW k \in Nodes, NEW j \in Links PROVE CarryOf(k, j)'
    OBVIOUS
  <2>1. CarryOf(k, j) /\ Far(k, j)' = Far(k, j) /\ Far(k, j) \in Nodes \cup {None}
    BY <1>2 DEF ConnInv, Types, ConnTypes, Far
  <2>2. \A m \in Elements(wire'[<<k, j>>]) : Carries(Far(k, j), j, m)'
    <3>1. \A m \in Elements(wire'[<<k, j>>]) : Carries(Far(k, j), j, m)
      BY <1>2, <2>1 DEF CarryOf
    <3>. QED
      BY <1>2, <1>4, <2>1, <3>1 DEF Carries
  <2>3. CASE k = n /\ j = l
    BY <1>6, <2>1, <2>2, <2>3 DEF CarryOf, Speaks
  <2>4. CASE k # n \/ j # l
    BY <1>2, <1>6, <2>1, <2>2, <2>4 DEF CarryOf
  <2>. QED
    BY <2>3, <2>4
<1>13. \A j \in Links : SilenceOf(j)'
  <2>. SUFFICES ASSUME NEW j \in Links, tcp[j].is # "none", ~Established(j) PROVE SilenceOf(j)'
    BY <1>2, <1>4 DEF SilenceOf
  <2>1. SilenceOf(j) /\ tcp[j].from \in Nodes /\ tcp[j].to \in Nodes
    BY DEF ConnInv, LinkOf
  <2>2. CASE j = l /\ n = tcp[j].from
    BY <1>2, <2>1, <2>2 DEF SilenceOf, Speaks
  <2>3. CASE j # l \/ n # tcp[j].from
    BY <1>2, <2>1, <2>3 DEF SilenceOf
  <2>. QED
    BY <2>2, <2>3
<1>. QED
  BY <1>7, <1>8, <1>9, <1>10, <1>11, <1>12, <1>13 DEF ConnInv

\* A link that is in use keeps its ends.
LinkKept(l) ==
  tcp[l].is # "none" =>
    tcp'[l].is # "none" /\ tcp'[l].from = tcp[l].from /\ tcp'[l].to = tcp[l].to

\* Or a link breaks.
LEMMA NothingMoves ==
  ASSUME ConnInv, Types', UNCHANGED <<map, comm, aio, conn, wire>>,
         \A l \in Links : LinkKept(l) /\ (tcp[l].is = "none" => tcp'[l] = tcp[l])
  PROVE  ConnInv'
<1>1. \A l \in Links : /\ tcp'[l].from = tcp[l].from /\ tcp'[l].to = tcp[l].to
                       /\ tcp'[l].is = "none" <=> tcp[l].is = "none"
  BY DEF LinkKept
<1>2. \A l \in Links : Established(l)' <=> Established(l)
  BY <1>1 DEF Established
<1>3. \A n : \A l \in Links : \A m : Carries(n, l, m)' <=> Carries(n, l, m)
  BY <1>1, <1>2 DEF Carries
<1>4. \A l \in Links : LinkOf(l)' /\ SilenceOf(l)'
  <2>. SUFFICES ASSUME NEW l \in Links PROVE LinkOf(l)' /\ SilenceOf(l)'
    OBVIOUS
  <2>1. LinkOf(l) /\ SilenceOf(l)
    BY DEF ConnInv
  <2>. QED
    BY <1>1, <1>2, <2>1 DEF LinkOf, SilenceOf
<1>5. \A n \in Nodes : MapOf(n)' /\ AioOf(n)'
  <2>. SUFFICES ASSUME NEW n \in Nodes PROVE MapOf(n)' /\ AioOf(n)'
    OBVIOUS
  <2>1. MapOf(n) /\ AioOf(n)
    BY DEF ConnInv
  <2>2. /\ comm[n].at # "idle" => comm[n].link \in Links
        /\ aio[n].at # "idle" => aio[n].link \in Links
    BY DEF ConnInv, Types, NodeTypes, Actors
  <2>3. MapOf(n)'
    BY <1>1, <2>1, <2>2 DEF MapOf, Live
  <2>4. AioOf(n)'
    BY <1>1, <1>2, <2>1, <2>2 DEF AioOf
  <2>. QED
    BY <2>3, <2>4
<1>6. \A n \in Nodes, l \in Links : RoleOf(n, l)'
  BY <1>1, ZenonT(40) DEF ConnInv, RoleOf, Connects, Listens, Live
<1>7. \A n \in Nodes, l \in Links : FlightOf(n, l)' /\ ListenOf(n, l)'
  <2>. SUFFICES ASSUME NEW n \in Nodes, NEW l \in Links PROVE FlightOf(n, l)' /\ ListenOf(n, l)'
    OBVIOUS
  <2>1. FlightOf(n, l) /\ ListenOf(n, l)
    BY DEF ConnInv
  <2>. QED
    BY <1>1, <2>1 DEF FlightOf, ListenOf, Hears, Live
<1>8. \A n \in Nodes, l \in Links : CarryOf(n, l)'
  <2>1. \A n : \A l \in Links : Far(n, l)' = Far(n, l)
    BY <1>1 DEF Far
  <2>2. SUFFICES ASSUME NEW n \in Nodes, NEW l \in Links PROVE CarryOf(n, l)'
    OBVIOUS
  <2>3. CarryOf(n, l)
    BY DEF ConnInv
  <2>. QED
    BY <1>3, <2>1, <2>3 DEF CarryOf
<1>. QED
  BY <1>4, <1>5, <1>6, <1>7, <1>8 DEF ConnInv

LEMMA BreakStep ==
  ASSUME ConnInv, NEW l \in Links, Break(l)
  PROVE  ConnInv'
<1>1. tcp' = [tcp EXCEPT ![l].is = "down"] /\ tcp[l].is = "up"
  BY DEF Break, Down
<1>2. UNCHANGED <<box, map, comm, aio, admin, conn, wire>>
  BY DEF Break
<1>3. Types'
  <2>1. ConnTypes'
    BY <1>1, <1>2 DEF ConnInv, Types, ConnTypes
  <2>. QED
    BY <1>2, <2>1 DEF ConnInv, Types, BoxTypes, NodeTypes
<1>4. \A j \in Links : LinkKept(j) /\ (tcp[j].is = "none" => tcp'[j] = tcp[j])
  BY <1>1 DEF LinkKept, ConnInv, Types, ConnTypes
<1>. QED
  BY <1>2, <1>3, <1>4, NothingMoves

LEMMA NothingMovesAtAll ==
  ASSUME ConnInv, Types', UNCHANGED <<map, comm, aio, conn, tcp, wire>>
  PROVE  ConnInv'
<1>1. \A l \in Links : LinkKept(l) /\ (tcp[l].is = "none" => tcp'[l] = tcp[l])
  BY DEF LinkKept
<1>. QED
  BY <1>1, NothingMoves


-----------------------------------------------------------------------------
(* The communicator's queue.                                               *)

\* Something may be added to the queue of n.
BoxGains(n, m) == box' = box \/ box' = [box EXCEPT ![n] = With(@, m)]

LEMMA BoxGrows ==
  ASSUME BoxTypes, NEW n \in Nodes, NEW m \in Messages, m.kind = "post" => m.post \in Posts,
         BoxGains(n, m)
  PROVE  BoxTypes'
<1>1. CASE box' = box
  BY <1>1 DEF BoxTypes
<1>2. CASE box' = [box EXCEPT ![n] = With(@, m)]
  <2>1. PICK q \in Queues : q = box[n]
    BY DEF BoxTypes
  <2>2. /\ With(q, m) \in Queues
        /\ \A p \in 0 .. 2 : \A x \in Elements(With(q, m)[p]) : x \in Elements(q[p]) \/ x = m
    BY QueuePushes
  <2>3. PICK r \in Queues : r = With(q, m)
    BY <2>2
  <2>4. box' = [box EXCEPT ![n] = r]
    BY <1>2, <2>1, <2>3
  <2>5. \A p \in 0 .. 2 : \A x \in Elements(r[p]) : x.kind = "post" => x.post \in Posts
    BY <2>1, <2>2, <2>3 DEF BoxTypes
  <2>6. box' \in [Nodes -> Queues] /\ box'[n] = r /\ \A k \in Nodes : k # n => box'[k] = box[k]
    BY <2>4 DEF BoxTypes
  <2>. QED
    BY <2>5, <2>6 DEF BoxTypes
<1>. QED
  BY <1>1, <1>2 DEF BoxGains

LEMMA BoxIsTaken ==
  ASSUME ConnInv, NEW n \in Nodes, CommFree(n), Taken(n)
  PROVE  /\ BoxTypes' /\ Taking(n) \in Messages
         /\ IsPost(n) => Taking(n).post \in Posts /\ Goal(n) \in Nodes
         /\ comm[n].at = "idle"
<1>1. PICK q \in Queues : q = box[n] /\ Queue!Peek(q)
  BY DEF ConnInv, Types, BoxTypes, CommFree
<1>2. /\ Queue!Pop(q) \in Queues /\ Queue!Front(q) \in Messages
      /\ \E p \in 0 .. 2 : Queue!Front(q) \in Elements(q[p])
      /\ \A p \in 0 .. 2 : Elements(Queue!Pop(q)[p]) \subseteq Elements(q[p])
  BY <1>1, QueuePops
<1>3. PICK r \in Queues, m \in Messages : r = Queue!Pop(q) /\ m = Queue!Front(q)
  BY <1>2
<1>4. box' = [box EXCEPT ![n] = r] /\ Taking(n) = m
  BY <1>1, <1>3 DEF Taken, Taking
<1>5. /\ \A p \in 0 .. 2 : \A x \in Elements(r[p]) : x.kind = "post" => x.post \in Posts
      /\ m.kind = "post" => m.post \in Posts
  BY <1>1, <1>2, <1>3 DEF ConnInv, Types, BoxTypes
<1>6. BoxTypes'
  <2>1. box' \in [Nodes -> Queues] /\ box'[n] = r /\ \A k \in Nodes : k # n => box'[k] = box[k]
    BY <1>4 DEF BoxTypes, ConnInv, Types
  <2>. QED
    BY <1>5, <2>1 DEF BoxTypes, ConnInv, Types
<1>. QED
  BY <1>4, <1>5, <1>6, PostsAssumption DEF IsPost, Goal, CommFree

-----------------------------------------------------------------------------
(* Steps that touch no connection.                                         *)

LEMMA PostIsMessage == \A i \in Posts : Post(i) \in Messages /\ Post(i).kind = "post" /\ Post(i).post = i
BY PostsAssumption DEF Post, Message, Messages

LEMMA MakePostStep ==
  ASSUME ConnInv, NEW i \in Posts, MakePost(i)
  PROVE  ConnInv'
<1>1. From[i] \in Nodes
  BY PostsAssumption
<1>2. BoxTypes'
  <2>1. BoxGains(From[i], Post(i))
    BY DEF MakePost, BoxGains
  <2>. QED
    BY <1>1, <2>1, BoxGrows, PostIsMessage DEF ConnInv, Types
<1>3. UNCHANGED <<map, comm, aio, admin, conn, tcp, wire>>
  BY DEF MakePost
<1>4. Types'
  BY <1>2, <1>3 DEF ConnInv, Types, ConnTypes, NodeTypes
<1>. QED
  BY <1>3, <1>4, NothingMovesAtAll

LEMMA RemoveStep ==
  ASSUME ConnInv, NEW n \in Nodes, NEW m \in Nodes, Remove(n, m)
  PROVE  ConnInv'
<1>1. map[n][m] \in Links \cup {None}
  BY DEF ConnInv, Types, NodeTypes, Addresses
<1>2. PICK x \in Actors : /\ admin' = [admin EXCEPT ![n] = x]
                          /\ x.at = "idle" <=> x.link = None
  <2>1. Idle \in Actors /\ Idle.at = "idle" /\ Idle.link = None
    BY DEF Idle, Actors
  <2>2. ASSUME NEW l \in Links
        PROVE  At("shut", l) \in Actors /\ At("shut", l).at # "idle" /\ At("shut", l).link # None
    BY NodesAssumption DEF At, Actors
  <2>. QED
    BY <1>1, <2>1, <2>2 DEF Remove
<1>3. UNCHANGED <<box, map, comm, aio, conn, tcp, wire>>
  BY DEF Remove
<1>4. Types'
  BY <1>2, <1>3 DEF ConnInv, Types, ConnTypes, NodeTypes, BoxTypes
<1>. QED
  BY <1>3, <1>4, NothingMovesAtAll

LEMMA DeliverStep ==
  ASSUME ConnInv, NEW n \in Nodes, CommDeliver(n) \/ CommRefuse(n)
  PROVE  ConnInv'
<1>1. CommFree(n) /\ Taken(n)
  BY DEF CommDeliver, CommRefuse, MustConnect
<1>2. UNCHANGED <<map, comm, aio, admin, conn, tcp, wire>>
  BY DEF CommDeliver, CommRefuse
<1>3. Types'
  BY <1>1, <1>2, BoxIsTaken DEF ConnInv, Types, ConnTypes, NodeTypes
<1>. QED
  BY <1>2, <1>3, NothingMovesAtAll

-----------------------------------------------------------------------------
(* Steps of an end that stays in its place.                                *)

\* The end of n changes neither what it is doing nor what it is waiting for.
Steady(n, l) ==
  LET c == conn[<<n, l>>] d == conn'[<<n, l>>] IN
  /\ d.life = c.life /\ d.state = c.state /\ d.addr = c.addr
  /\ d.blocked = c.blocked /\ d.thread = c.thread /\ d.ops = c.ops /\ d.out = c.out
  /\ Queue!Peek(c.queue) => Queue!Peek(d.queue)
  /\ c.queue[0] # <<>> => d.queue[0] # <<>>

LEMMA SteadyFlies ==
  ASSUME ConnInv, NEW n \in Nodes, NEW l \in Links, Steady(n, l), aio' = aio, tcp' = tcp
  PROVE  FlightOf(n, l)' /\ ListenOf(n, l)' /\ AioTurns(n, l)
<1>1. FlightOf(n, l) /\ ListenOf(n, l)
  BY DEF ConnInv
<1>2. FlightOf(n, l)'
  BY <1>1 DEF FlightOf, Live, Steady
<1>3. ListenOf(n, l)'
  BY <1>1 DEF ListenOf, Hears, Live, Steady
<1>. QED
  BY <1>2, <1>3 DEF AioTurns

\* The working thread does not lose its place when a connection keeps its own.
LEMMA AioStays ==
  ASSUME ConnInv, NEW n \in Nodes, NEW l \in Links, Keeps(n, l), Live(<<n, l>>), aio'[n] = aio[n]
  PROVE  AioOf(n)'
<1>1. CASE aio[n].at = "idle"
  BY <1>1 DEF AioOf
<1>2. CASE aio[n].at # "idle"
  <2>1. PICK j \in Links : j = aio[n].link
    BY <1>2 DEF ConnInv, Types, NodeTypes, Actors
  <2>2. AioOf(n) /\ tcp' = tcp /\ LinkOf(j)
    BY DEF ConnInv, Keeps
  <2>3. \A k \in Nodes : /\ conn'[<<k, j>>].life = conn[<<k, j>>].life
                         /\ conn'[<<k, j>>].state = conn[<<k, j>>].state
    BY DEF Keeps, Ends
  <2>4. Established(j) => Established(j)'
    BY <2>2, <2>3 DEF Established, LinkOf
  <2>. QED
    BY <2>1, <2>2, <2>3, <2>4 DEF AioOf
<1>. QED
  BY <1>1, <1>2

\* A message may be put in the queue of the end of n.
Gains(n, l, m) ==
  \/ conn' = conn
  \/ conn' = [conn EXCEPT ![<<n, l>>].queue = With(@, m), ![<<n, l>>].bell = TRUE]

LEMMA PushKeeps ==
  ASSUME ConnInv, NEW n \in Nodes, NEW l \in Links, NEW m \in Messages, Carries(n, l, m),
         Gains(n, l, m)
  PROVE  /\ conn' \in [Ends -> Conns]
         /\ \A d \in Ends : d # <<n, l>> => conn'[d] = conn[d]
         /\ Steady(n, l) /\ Speaks(n, l)
<1>1. PICK c \in Ends : c = <<n, l>>
  BY DEF Ends
<1>2. conn \in [Ends -> Conns]
  BY DEF ConnInv, Types, ConnTypes
<1>3. PICK x \in Conns : x = conn[c]
  BY <1>2
<1>4. CASE conn' = conn
  BY <1>1, <1>2, <1>4 DEF Steady, Speaks
<1>5. CASE conn' = [conn EXCEPT ![c].queue = With(@, m), ![c].bell = TRUE]
  <2>1. PICK q \in Queues : q = x.queue
    BY DEF Conns
  <2>2. /\ With(q, m) \in Queues /\ Queue!Peek(With(q, m))
        /\ \A p \in 0 .. 2 : \A y \in Elements(With(q, m)[p]) :
             y \in Elements(q[p]) \/ (y = m /\ p = Priority(m))
        /\ q[0] # <<>> => With(q, m)[0] # <<>>
    BY QueuePushes
  <2>3. PICK r \in Queues : r = With(q, m)
    BY <2>2
  <2>4. conn'[c] = [x EXCEPT !.queue = r, !.bell = TRUE]
    BY <1>2, <1>3, <1>5, <2>1, <2>3
  <2>5. [x EXCEPT !.queue = r, !.bell = TRUE] \in Conns
    BY DEF Conns
  <2>6. conn' \in [Ends -> Conns] /\ \A d \in Ends : d # c => conn'[d] = conn[d]
    BY <1>2, <1>5, <2>4, <2>5
  <2>7. Steady(n, l)
    BY <1>1, <1>3, <2>1, <2>2, <2>3, <2>4 DEF Steady, Conns
  <2>8. Speaks(n, l)
    <3>1. /\ conn'[<<n, l>>].queue = r /\ conn'[<<n, l>>].out = conn[<<n, l>>].out
          /\ conn[<<n, l>>].queue = q
      BY <1>1, <1>3, <2>1, <2>4 DEF Conns
    <3>2. \A p \in 0 .. 2 : \A y \in Elements(r[p]) :
            y \in Elements(q[p]) \/ (Priority(y) = p /\ Carries(n, l, y))
      BY <2>2, <2>3
    <3>. QED
      BY <3>1, <3>2 DEF Speaks
  <2>. QED
    BY <1>1, <2>6, <2>7, <2>8
<1>. QED
  BY <1>1, <1>4, <1>5 DEF Gains

\* And nothing else of the connections changes.
LEMMA PushMoves ==
  ASSUME ConnInv, NEW n \in Nodes, NEW l \in Links, NEW m \in Messages, Carries(n, l, m),
         Gains(n, l, m), Live(<<n, l>>), BoxTypes', NodeTypes',
         UNCHANGED <<map, tcp, wire, aio>>,
         \A k \in Nodes : comm'[k] = comm[k] \/ (comm[k].at # "add" /\ comm'[k].at = "idle")
  PROVE  ConnInv'
<1>1. /\ conn' \in [Ends -> Conns]
      /\ \A d \in Ends : d # <<n, l>> => conn'[d] = conn[d]
      /\ Steady(n, l) /\ Speaks(n, l)
  BY PushKeeps
<1>2. Keeps(n, l)
  BY <1>1 DEF Keeps, Steady
<1>3. Types'
  BY <1>1 DEF Types, ConnTypes, ConnInv
<1>4. FlightOf(n, l)' /\ ListenOf(n, l)' /\ AioTurns(n, l) /\ AioOf(n)'
  BY <1>1, <1>2, SteadyFlies, AioStays
<1>. QED
  BY <1>1, <1>2, <1>3, <1>4, EndMoves

LEMMA PingStep ==
  ASSUME ConnInv, NEW n \in Nodes, NEW l \in Links, Ping(n, l)
  PROVE  ConnInv'
<1>1. PICK m \in Messages : m = Message("ping", n, 0, None)
  BY DEF Message, Messages
<1>2. Carries(n, l, m)
  BY <1>1 DEF Carries, Message
<1>3. Gains(n, l, m) /\ Live(<<n, l>>) /\ UNCHANGED <<box, map, comm, aio, admin, tcp, wire>>
  BY <1>1 DEF Ping, Gains
<1>4. BoxTypes' /\ NodeTypes'
  BY <1>3 DEF ConnInv, Types, BoxTypes, NodeTypes
<1>. QED
  BY <1>2, <1>3, <1>4, PushMoves

LEMMA RouteStep ==
  ASSUME ConnInv, NEW n \in Nodes, CommRoute(n)
  PROVE  ConnInv'
<1>1. CommFree(n) /\ Taken(n) /\ IsPost(n)
  BY DEF CommRoute
<1>2. BoxTypes' /\ Taking(n) \in Messages /\ Taking(n).post \in Posts /\ Goal(n) \in Nodes
  BY <1>1, BoxIsTaken
<1>3. PICK m \in Messages : m = Taking(n) /\ m.kind = "post" /\ m.post \in Posts
  BY <1>1, <1>2 DEF IsPost
<1>4. PICK l \in Links : l = map[n][Goal(n)] /\ Live(<<n, l>>)
  <2>1. PICK a \in Addresses : a = Goal(n)
    BY <1>2 DEF Addresses
  <2>2. map[n][a] \in Links \cup {None} /\ map[n][a] # None /\ MapOf(n)
    BY <2>1 DEF CommRoute, ConnInv, Types, NodeTypes
  <2>. QED
    BY <2>1, <2>2 DEF MapOf
<1>5. Gains(n, l, m) /\ UNCHANGED <<map, comm, aio, admin, tcp, wire>>
  BY <1>3, <1>4 DEF CommRoute, Pushed, Gains
<1>6. NodeTypes'
  BY <1>5 DEF ConnInv, Types, NodeTypes
<1>7. Carries(n, l, m)
  BY <1>3 DEF Carries
<1>. QED
  BY <1>2, <1>4, <1>5, <1>6, <1>7, PushMoves

LEMMA CommPushStep ==
  ASSUME ConnInv, NEW n \in Nodes, CommPush(n)
  PROVE  ConnInv'
<1>1. PICK l \in Links, i \in Posts : l = comm[n].link /\ i = comm[n].post
  BY DEF ConnInv, Types, NodeTypes, CommPush
<1>2. PICK m \in Messages : m = Post(i) /\ m.kind = "post" /\ m.post = i
  BY PostIsMessage
<1>3. /\ Gains(n, l, m) /\ Live(<<n, l>>) /\ comm[n].at = "push"
      /\ comm' = [comm EXCEPT ![n] = CommIdle] /\ UNCHANGED <<box, map, aio, admin, tcp, wire>>
  BY <1>1, <1>2 DEF CommPush, Pushed, Gains
<1>4. BoxTypes' /\ NodeTypes'
  BY <1>3 DEF ConnInv, Types, BoxTypes, NodeTypes, CommIdle
<1>5. Carries(n, l, m)
  BY <1>2 DEF Carries
<1>6. \A k \in Nodes : comm'[k] = comm[k] \/ (comm[k].at # "add" /\ comm'[k].at = "idle")
  BY <1>3 DEF ConnInv, Types, NodeTypes, CommIdle
<1>. QED
  BY <1>3, <1>4, <1>5, <1>6, PushMoves

-----------------------------------------------------------------------------
(* The thread of the pool.                                                 *)

\* The end of n becomes y, and nothing else of the connections changes.
Becomes(n, l, y) ==
  /\ y \in Conns
  /\ conn' = [conn EXCEPT ![<<n, l>>] = y]
  /\ y.life = conn[<<n, l>>].life /\ y.state = conn[<<n, l>>].state
  /\ y.addr = conn[<<n, l>>].addr

LEMMA BecomesKeeps ==
  ASSUME ConnInv, NEW n \in Nodes, NEW l \in Links, NEW y, Becomes(n, l, y),
         UNCHANGED <<map, comm, tcp>>,
         \A d \in Ends : d # <<n, l>> => wire'[d] = wire[d],
         Elements(wire'[<<n, l>>]) \subseteq Elements(wire[<<n, l>>])
  PROVE  /\ Keeps(n, l) /\ conn' \in [Ends -> Conns] /\ conn'[<<n, l>>] = y
<1>1. <<n, l>> \in Ends /\ conn \in [Ends -> Conns]
  BY DEF Ends, ConnInv, Types, ConnTypes
<1>. QED
  BY <1>1 DEF Becomes, Keeps

LEMMA ThreadMoves ==
  ASSUME ConnInv, NEW n \in Nodes, NEW l \in Links, Live(<<n, l>>), NEW y, Becomes(n, l, y),
         BoxTypes', NodeTypes', UNCHANGED <<map, comm, aio, tcp, wire>>,
         Speaks(n, l), FlightOf(n, l)',
         y.blocked = conn[<<n, l>>].blocked \/ y.blocked,
         conn[<<n, l>>].ops \subseteq y.ops
  PROVE  ConnInv'
<1>1. Keeps(n, l) /\ conn' \in [Ends -> Conns] /\ conn'[<<n, l>>] = y
  BY BecomesKeeps
<1>2. Types'
  BY <1>1 DEF ConnInv, Types, ConnTypes
<1>3. AioTurns(n, l) /\ AioOf(n)'
  BY <1>1, AioStays DEF AioTurns
<1>4. ListenOf(n, l)'
  <2>1. ListenOf(n, l)
    BY DEF ConnInv
  <2>. QED
    BY <1>1, <2>1 DEF ListenOf, Hears, Live, Becomes
<1>. QED
  BY <1>1, <1>2, <1>3, <1>4, EndMoves

LEMMA ThreadAskStep ==
  ASSUME ConnInv, NEW n \in Nodes, NEW l \in Links, ThreadAsk(n, l)
  PROVE  ConnInv'
<1>1. PICK x \in Conns : x = conn[<<n, l>>]
  BY DEF ConnInv, Types, ConnTypes, Ends
<1>2. PICK t \in {"job", "asleep"} :
        /\ conn' = [conn EXCEPT ![<<n, l>>] = [x EXCEPT !.bell = FALSE, !.thread = t]]
        /\ t = "job" => HasJob(<<n, l>>)
  <2>1. \/ conn' = [conn EXCEPT ![<<n, l>>] = [x EXCEPT !.bell = FALSE, !.thread = "job"]]
           /\ HasJob(<<n, l>>)
        \/ conn' = [conn EXCEPT ![<<n, l>>] = [x EXCEPT !.bell = FALSE, !.thread = "asleep"]]
    BY <1>1 DEF ThreadAsk, ConnInv, Types, ConnTypes, Ends
  <2>. QED
    BY <2>1
<1>3. PICK y \in Conns : y = [x EXCEPT !.bell = FALSE, !.thread = t]
  BY DEF Conns
<1>4. Becomes(n, l, y)
  BY <1>1, <1>2, <1>3 DEF Becomes, Conns
<1>5. Live(<<n, l>>) /\ UNCHANGED <<box, map, comm, aio, admin, tcp, wire>>
  BY DEF ThreadAsk
<1>6. BoxTypes' /\ NodeTypes'
  BY <1>5 DEF ConnInv, Types, BoxTypes, NodeTypes
<1>7. conn'[<<n, l>>] = y
  BY <1>4, <1>5, BecomesKeeps
<1>8. Speaks(n, l)
  BY <1>1, <1>3, <1>7 DEF Speaks, Conns
<1>9. FlightOf(n, l)'
  <2>1. FlightOf(n, l) /\ x.thread = "asleep"
    BY <1>1 DEF ConnInv, ThreadAsk
  <2>2. t = "job" => /\ Queue!Peek(x.queue) /\ x.out = None
                     /\ x.state = "connected" \/ x.queue[0] # <<>>
    BY <1>1, <1>2, QueueTouches DEF HasJob, Conns
  <2>. QED
    BY <1>1, <1>3, <1>5, <1>7, <2>1, <2>2 DEF FlightOf, Live, Conns
<1>10. y.blocked = x.blocked /\ y.ops = x.ops
  BY <1>3 DEF Conns
<1>. QED
  BY <1>1, <1>4, <1>5, <1>6, <1>8, <1>9, <1>10, ThreadMoves

\* What the thread takes from the queue may be sent.
LEMMA TakesWhatMayBeSent ==
  ASSUME ConnInv, NEW n \in Nodes, NEW l \in Links, Live(<<n, l>>), conn[<<n, l>>].thread = "job",
         NEW q \in Queues, q = conn[<<n, l>>].queue,
         NEW s, s = Signed(<<n, l>>, Queue!Front(q))
  PROVE  /\ Queue!Pop(q) \in Queues /\ s \in Messages /\ s # None /\ Carries(n, l, s)
         /\ n = tcp[l].from /\ ~Established(l) => s.kind = "hello"
         /\ \A p \in 0 .. 2 : Elements(Queue!Pop(q)[p]) \subseteq Elements(q[p])
<1>1. Queue!Peek(q) /\ (conn[<<n, l>>].state = "connected" \/ q[0] # <<>>)
  BY DEF ConnInv, FlightOf
<1>2. /\ Queue!Pop(q) \in Queues /\ Queue!Front(q) \in Messages
      /\ \E p \in 0 .. 2 : Queue!Front(q) \in Elements(q[p]) /\ (q[0] # <<>> => p = 0)
      /\ \A p \in 0 .. 2 : Elements(Queue!Pop(q)[p]) \subseteq Elements(q[p])
  BY <1>1, QueuePops
<1>3. PICK f \in Messages, p \in 0 .. 2 :
        f = Queue!Front(q) /\ f \in Elements(q[p]) /\ (q[0] # <<>> => p = 0)
  BY <1>2
<1>4. Priority(f) = p /\ Carries(n, l, f)
  BY <1>3 DEF ConnInv, CarryOf
<1>5. conn[<<n, l>>].session \in Links \cup {None}
  BY DEF ConnInv, Types, ConnTypes, Conns, Ends
<1>6. /\ s \in Messages /\ s.kind = f.kind /\ s.who = f.who /\ s.post = f.post
  BY <1>3, <1>5 DEF Signed, Messages
<1>7. s # None
  BY <1>6, NoneAssumption
<1>8. Carries(n, l, s)
  BY <1>4, <1>6 DEF Carries
<1>9. ASSUME n = tcp[l].from, ~Established(l)
      PROVE  s.kind = "hello"
  <2>1. tcp[l].is # "none" /\ tcp[l].from # tcp[l].to /\ conn[<<n, l>>].state # "connected"
    BY <1>9 DEF ConnInv, RoleOf, LinkOf, SilenceOf
  <2>2. Priority(f) = 0
    BY <1>1, <1>3, <1>4, <2>1
  <2>3. f.kind \in {"hello", "welcome", "close"}
    BY <2>2 DEF Priority
  <2>. QED
    BY <1>4, <1>6, <1>9, <2>1, <2>3 DEF Carries
<1>. QED
  BY <1>2, <1>6, <1>7, <1>8, <1>9

\* The message s goes from the queue to _msg_send: the end becomes y.
Takes(n, l, x, y, s, r) ==
  /\ y \in Conns /\ conn' = [conn EXCEPT ![<<n, l>>] = y]
  /\ y.life = x.life /\ y.state = x.state /\ y.addr = x.addr /\ y.blocked = x.blocked
  /\ y.out = s /\ y.queue = r /\ y.ops \in {x.ops, x.ops \cup {"send"}}
  /\ \/ "send" \in y.ops /\ y.thread = "asleep"
     \/ y.thread = "shut"

LEMMA ThreadTakes ==
  ASSUME ConnInv, NEW n \in Nodes, NEW l \in Links, ThreadSend(n, l) \/ ThreadRefused(n, l),
         NEW x \in Conns, x = conn[<<n, l>>], NEW q \in Queues, q = x.queue,
         NEW s \in Messages, s = Signed(<<n, l>>, Queue!Front(q)),
         NEW r \in Queues, r = Queue!Pop(q)
  PROVE  \E y \in Conns : Takes(n, l, x, y, s, r)
<1>1. r \in Queues /\ s \in Messages
  OBVIOUS
<1>2. PICK c \in Ends : c = <<n, l>> /\ conn \in [Ends -> Conns]
  BY DEF ConnInv, Types, ConnTypes, Ends
<1>3. Popped(c) = [conn EXCEPT ![c].out = s, ![c].queue = r]
  BY <1>2, Zenon DEF Popped
<1>4. CASE ThreadSend(n, l)
  <2>1. PICK o \in SUBSET {"connect", "recv", "send"} : o = x.ops \cup {"send"}
    BY DEF Conns
  <2>2. PICK y \in Conns : y = [x EXCEPT !.out = s, !.queue = r, !.ops = o,
                                         !.thread = "asleep", !.bell = TRUE]
    BY <1>1 DEF Conns
  <2>3. PICK f \in [Ends -> Conns] :
          /\ f = Popped(c) /\ f[c] = [x EXCEPT !.out = s, !.queue = r]
          /\ \A d \in Ends : d # c => f[d] = conn[d]
    <3>1. [x EXCEPT !.out = s, !.queue = r] \in Conns
      BY <1>1 DEF Conns
    <3>2. PICK z \in Conns : z = [x EXCEPT !.out = s, !.queue = r]
      BY <3>1
    <3>3. Popped(c) \in [Ends -> Conns] /\ Popped(c)[c] = z
          /\ \A d \in Ends : d # c => Popped(c)[d] = conn[d]
      BY <1>2, <1>3, <3>2
    <3>. QED
      BY <3>2, <3>3, Zenon
  <2>4. conn' = [f EXCEPT ![c].ops = @ \cup {"send"}, ![c].thread = "asleep", ![c].bell = TRUE]
    BY <1>2, <1>4, <2>3, Zenon DEF ThreadSend
  <2>5. conn'[c] = y /\ DOMAIN conn' = Ends /\ \A d \in Ends : d # c => conn'[d] = conn[d]
    <3>1. conn'[c] = [f[c] EXCEPT !.ops = @ \cup {"send"}, !.thread = "asleep", !.bell = TRUE]
      BY <2>3, <2>4
    <3>2. f[c].ops \cup {"send"} = o
      BY <2>1, <2>3 DEF Conns
    <3>3. [f[c] EXCEPT !.ops = o, !.thread = "asleep", !.bell = TRUE] = y
      BY <2>2, <2>3 DEF Conns
    <3>4. DOMAIN conn' = Ends /\ \A d \in Ends : d # c => conn'[d] = conn[d]
      BY <2>3, <2>4
    <3>. QED
      BY <3>1, <3>2, <3>3, <3>4
  <2>6. conn' = [conn EXCEPT ![c] = y]
    BY <1>2, <2>4, <2>5
  <2>7. /\ y.life = x.life /\ y.state = x.state /\ y.addr = x.addr /\ y.blocked = x.blocked
        /\ y.out = s /\ y.queue = r /\ y.ops \in {x.ops, x.ops \cup {"send"}}
        /\ "send" \in y.ops /\ y.thread = "asleep"
    BY <2>1, <2>2 DEF Conns
  <2>8. y \in Conns /\ conn' = [conn EXCEPT ![<<n, l>>] = y]
    BY <1>2, <2>2, <2>6
  <2>. QED
    BY <2>7, <2>8, Zenon DEF Takes
<1>5. CASE ThreadRefused(n, l)
  <2>1. PICK y \in Conns : y = [x EXCEPT !.out = s, !.queue = r, !.thread = "shut"]
    BY <1>1 DEF Conns
  <2>2. conn' = [conn EXCEPT ![c] = y]
    BY <1>2, <1>3, <1>5, <2>1 DEF ThreadRefused
  <2>3. /\ y.life = x.life /\ y.state = x.state /\ y.addr = x.addr /\ y.blocked = x.blocked
        /\ y.out = s /\ y.queue = r /\ y.ops = x.ops /\ y.thread = "shut"
    BY <2>1 DEF Conns
  <2>4. y \in Conns /\ conn' = [conn EXCEPT ![<<n, l>>] = y]
    BY <1>2, <2>1, <2>2
  <2>5. y.ops \in {x.ops, x.ops \cup {"send"}}
    BY <2>3, Zenon
  <2>. QED
    BY <2>3, <2>4, <2>5, Zenon DEF Takes
<1>. QED
  BY <1>4, <1>5

LEMMA ThreadSendStep ==
  ASSUME ConnInv, NEW n \in Nodes, NEW l \in Links, ThreadSend(n, l) \/ ThreadRefused(n, l)
  PROVE  ConnInv'
<1>1. PICK x \in Conns : x = conn[<<n, l>>]
  BY DEF ConnInv, Types, ConnTypes, Ends
<1>2. PICK q \in Queues : q = x.queue
  BY <1>1 DEF Conns
<1>3. PICK s : s = Signed(<<n, l>>, Queue!Front(q))
  OBVIOUS
<1>4. Live(<<n, l>>) /\ x.thread = "job" /\ UNCHANGED <<box, map, comm, aio, admin, tcp, wire>>
  BY <1>1 DEF ThreadSend, ThreadRefused
<1>5. /\ Queue!Pop(q) \in Queues /\ s \in Messages /\ s # None /\ Carries(n, l, s)
      /\ n = tcp[l].from /\ ~Established(l) => s.kind = "hello"
      /\ \A p \in 0 .. 2 : Elements(Queue!Pop(q)[p]) \subseteq Elements(q[p])
  BY <1>1, <1>2, <1>3, <1>4, TakesWhatMayBeSent
<1>6. PICK r \in Queues : r = Queue!Pop(q)
  BY <1>5
<1>7. PICK y \in Conns : Takes(n, l, x, y, s, r)
  BY <1>1, <1>2, <1>3, <1>5, <1>6, ThreadTakes
<1>8. /\ conn' = [conn EXCEPT ![<<n, l>>] = y]
      /\ y.life = x.life /\ y.state = x.state /\ y.addr = x.addr /\ y.blocked = x.blocked
      /\ y.out = s /\ y.queue = r /\ y.ops \in {x.ops, x.ops \cup {"send"}}
      /\ \/ "send" \in y.ops /\ y.thread = "asleep"
         \/ y.thread = "shut"
  BY <1>7 DEF Takes
<1>9. Becomes(n, l, y)
  BY <1>1, <1>8 DEF Becomes
<1>10. BoxTypes' /\ NodeTypes'
  BY <1>4 DEF ConnInv, Types, BoxTypes, NodeTypes
<1>11. conn'[<<n, l>>] = y
  BY <1>4, <1>9, BecomesKeeps
<1>12. Speaks(n, l)
  BY <1>1, <1>2, <1>5, <1>6, <1>8, <1>11 DEF Speaks
<1>13. FlightOf(n, l)'
  <2>1. FlightOf(n, l)
    BY DEF ConnInv
  <2>. QED
    BY <1>1, <1>4, <1>5, <1>8, <1>11, <2>1 DEF FlightOf, Live
<1>. QED
  BY <1>1, <1>4, <1>8, <1>9, <1>10, <1>12, <1>13, ThreadMoves

\* Closing: the message goes to the communicator's queue.
LEMMA ClosesAreMessages ==
  ASSUME ConnInv, NEW n \in Nodes, NEW l \in Links, Live(<<n, l>>),
         UNCHANGED box \/ TellClose(n, <<n, l>>)
  PROVE  BoxTypes'
<1>1. conn[<<n, l>>].addr \in Addresses
  BY DEF ConnInv, RoleOf, Connects, Listens, LinkOf, Addresses
<1>2. PICK m \in Messages : m = CloseOf(<<n, l>>) /\ m.kind = "close"
  <2>1. \A a \in Addresses : Message("close", a, 0, None) \in Messages
    BY DEF Message, Messages, Addresses
  <2>2. CloseOf(<<n, l>>) \in Messages
    BY <1>1, <2>1, Zenon DEF CloseOf
  <2>. QED
    BY <2>2 DEF CloseOf, Message
<1>3. BoxGains(n, m)
  BY <1>2 DEF TellClose, BoxGains
<1>. QED
  BY <1>2, <1>3, BoxGrows DEF ConnInv, Types

LEMMA ThreadShutStep ==
  ASSUME ConnInv, NEW n \in Nodes, NEW l \in Links, ThreadShut(n, l)
  PROVE  ConnInv'
<1>1. PICK x \in Conns : x = conn[<<n, l>>]
  BY DEF ConnInv, Types, ConnTypes, Ends
<1>2. Live(<<n, l>>) /\ UNCHANGED <<map, comm, aio, admin, tcp, wire>>
  BY <1>1 DEF ThreadShut
<1>3. \/ x.thread = "revoke"
         /\ conn' = [conn EXCEPT ![<<n, l>>] = [x EXCEPT !.bell = FALSE, !.thread = "asleep"]]
      \/ x.thread = "shut" /\ ~x.blocked
         /\ conn' = [conn EXCEPT ![<<n, l>>] = [x EXCEPT !.blocked = TRUE, !.thread = "revoke"]]
      \/ x.thread = "shut" /\ x.blocked
         /\ conn' = [conn EXCEPT ![<<n, l>>] = [x EXCEPT !.thread = "asleep"]]
  <2>1. CASE x.thread = "revoke"
    BY <1>1, <2>1 DEF ThreadShut, AfterShut, Revoked, ConnInv, Types, ConnTypes, Ends
  <2>2. CASE x.thread = "shut" /\ ~x.blocked
    BY <1>1, <2>2 DEF ThreadShut, AfterShut, Blocked, ConnInv, Types, ConnTypes, Ends
  <2>3. CASE x.thread = "shut" /\ x.blocked
    BY <1>1, <2>3 DEF ThreadShut, AfterShut, ConnInv, Types, ConnTypes, Ends
  <2>. QED
    BY <1>1, <2>1, <2>2, <2>3 DEF ThreadShut
<1>4. FlightOf(n, l)
  BY DEF ConnInv
<1>5. x.thread = "revoke" => x.blocked
  BY <1>1, <1>2, <1>4 DEF FlightOf
<1>6. PICK y \in Conns :
        /\ conn' = [conn EXCEPT ![<<n, l>>] = y]
        /\ y.life = x.life /\ y.state = x.state /\ y.addr = x.addr /\ y.blocked
        /\ y.out = x.out /\ y.queue = x.queue /\ y.ops = x.ops
        /\ y.thread \in {"asleep", "revoke"}
  <2>1. CASE x.thread = "revoke"
    <3>1. PICK y \in Conns : y = [x EXCEPT !.bell = FALSE, !.thread = "asleep"]
      BY DEF Conns
    <3>. QED
      BY <1>3, <1>5, <2>1, <3>1 DEF Conns
  <2>2. CASE x.thread = "shut" /\ ~x.blocked
    <3>1. PICK y \in Conns : y = [x EXCEPT !.blocked = TRUE, !.thread = "revoke"]
      BY DEF Conns
    <3>. QED
      BY <1>3, <2>2, <3>1 DEF Conns
  <2>3. CASE x.thread = "shut" /\ x.blocked
    <3>1. PICK y \in Conns : y = [x EXCEPT !.thread = "asleep"]
      BY DEF Conns
    <3>. QED
      BY <1>3, <2>3, <3>1 DEF Conns
  <2>. QED
    BY <1>3, <2>1, <2>2, <2>3
<1>7. Becomes(n, l, y)
  BY <1>1, <1>6 DEF Becomes
<1>8. BoxTypes'
  BY <1>2, ClosesAreMessages DEF ThreadShut
<1>9. NodeTypes'
  BY <1>2 DEF ConnInv, Types, NodeTypes
<1>10. conn'[<<n, l>>] = y
  BY <1>2, <1>7, BecomesKeeps
<1>11. Speaks(n, l)
  BY <1>1, <1>6, <1>10 DEF Speaks
<1>12. FlightOf(n, l)'
  BY <1>1, <1>2, <1>4, <1>6, <1>10 DEF FlightOf, Live
<1>. QED
  BY <1>1, <1>2, <1>6, <1>7, <1>8, <1>9, <1>11, <1>12, ThreadMoves

-----------------------------------------------------------------------------
(* The working thread of aiosock.                                          *)

\* What has been received may have been sent.
Consumes(n, l) == wire[<<n, l>>] # <<>> /\ wire' = [wire EXCEPT ![<<n, l>>] = Tail(@)]

LEMMA WireShrinks ==
  ASSUME ConnInv, NEW n \in Nodes, NEW l \in Links, wire' = wire \/ Consumes(n, l)
  PROVE  /\ wire' \in [Ends -> Seq(Messages)]
         /\ \A d \in Ends : d # <<n, l>> => wire'[d] = wire[d]
         /\ Elements(wire'[<<n, l>>]) \subseteq Elements(wire[<<n, l>>])
         /\ Consumes(n, l) => Got(n, l) \in Messages /\ Carries(Far(n, l), l, Got(n, l))
<1>1. PICK c \in Ends : c = <<n, l>>
  BY DEF Ends
<1>2. wire \in [Ends -> Seq(Messages)]
  BY DEF ConnInv, Types, ConnTypes
<1>3. CASE wire' = wire /\ ~Consumes(n, l)
  BY <1>2, <1>3
<1>4. CASE Consumes(n, l)
  <2>1. PICK s \in Seq(Messages) : s = wire[c]
    BY <1>2
  <2>2. /\ Tail(s) \in Seq(Messages) /\ Head(s) \in Messages
        /\ Head(s) \in Elements(s) /\ Elements(Tail(s)) \subseteq Elements(s)
    BY <1>1, <1>4, <2>1, HeadAndTail DEF Consumes
  <2>3. Carries(Far(n, l), l, Head(s))
    BY <1>1, <2>1, <2>2 DEF ConnInv, CarryOf
  <2>4. PICK t \in Seq(Messages) : t = Tail(s)
    BY <2>2
  <2>5. wire' = [wire EXCEPT ![c] = t] /\ Got(n, l) = Head(s)
    BY <1>1, <1>4, <2>1, <2>4 DEF Consumes, Got
  <2>. QED
    BY <1>1, <1>2, <2>1, <2>2, <2>3, <2>4, <2>5
<1>. QED
  BY <1>3, <1>4

\* The working thread of n goes to x.
Turns(n, l, x) ==
  /\ x \in Actors /\ (x.at = "idle" <=> x.link = None) /\ x.link \in {None, l}
  /\ aio' = [aio EXCEPT ![n] = x]

LEMMA CallbackMoves ==
  ASSUME ConnInv, NEW n \in Nodes, NEW l \in Links, Live(<<n, l>>),
         NEW y, Becomes(n, l, y), NEW x, Turns(n, l, x), x.at \notin {"answer", "reply"},
         aio[n].link \in {None, l}, wire' = wire \/ Consumes(n, l),
         BoxTypes', UNCHANGED <<map, comm, admin, tcp>>,
         Speaks(n, l), FlightOf(n, l)', ListenOf(n, l)'
  PROVE  ConnInv'
<1>1. /\ wire' \in [Ends -> Seq(Messages)]
      /\ \A d \in Ends : d # <<n, l>> => wire'[d] = wire[d]
      /\ Elements(wire'[<<n, l>>]) \subseteq Elements(wire[<<n, l>>])
  BY WireShrinks
<1>2. Keeps(n, l) /\ conn' \in [Ends -> Conns] /\ conn'[<<n, l>>] = y
  BY <1>1, BecomesKeeps
<1>3. /\ aio' \in [Nodes -> Actors] /\ aio'[n] = x
      /\ \A k \in Nodes : k # n => aio'[k] = aio[k]
  BY DEF Turns, ConnInv, Types, NodeTypes
<1>4. NodeTypes'
  <2>1. \A k \in Nodes : aio'[k].at = "idle" <=> aio'[k].link = None
    BY <1>3 DEF Turns, ConnInv, Types, NodeTypes
  <2>. QED
    BY <1>3, <2>1 DEF ConnInv, Types, NodeTypes
<1>5. Types'
  BY <1>1, <1>2, <1>4 DEF ConnInv, Types, ConnTypes
<1>6. AioTurns(n, l)
  BY <1>3 DEF AioTurns, Turns
<1>7. AioOf(n)'
  BY <1>2, <1>3 DEF AioOf, Turns, Live, Becomes
<1>. QED
  BY <1>2, <1>5, <1>6, <1>7, EndMoves

\* Where the working thread may go.
LEMMA Places ==
  /\ Idle \in Actors /\ Idle.at = "idle" /\ Idle.link = None
  /\ \A l \in Links :
       \A w \in {"shut", "revoke", "wake", "greeted", "answer", "reply", "done"} :
         At(w, l) \in Actors /\ At(w, l).at = w /\ At(w, l).at # "idle"
         /\ At(w, l).link = l /\ l # None /\ At(w, l) # Idle
<1>1. \A l \in Links : l # None
  BY NodesAssumption
<1>. QED
  BY <1>1 DEF Idle, At, Actors

\* What the callback of an idle working thread begins with.
LEMMA EntersIdle ==
  ASSUME ConnInv, NEW n \in Nodes, NEW l \in Links, NEW op, Enters(n, l, op)
  PROVE  /\ Live(<<n, l>>) /\ op \in conn[<<n, l>>].ops
         /\ aio[n].at = "idle" /\ aio[n].link = None
         /\ FlightOf(n, l) /\ Hears(n, l)
<1>1. aio[n].at = "idle" /\ aio[n].link = None
  BY DEF Enters, ConnInv, Types, NodeTypes
<1>2. ListenOf(n, l) /\ FlightOf(n, l)
  BY DEF ConnInv
<1>. QED
  BY <1>1, <1>2, NodesAssumption DEF Enters, ListenOf

\* What the working thread finds inside a connection.
LEMMA InsideIs ==
  ASSUME ConnInv, NEW n \in Nodes, aio[n].at # "idle"
  PROVE  aio[n].link \in Links /\ aio[n] \in Actors
BY DEF ConnInv, Types, NodeTypes, Actors

LEMMA ReturnsStep ==
  ASSUME ConnInv, NEW n \in Nodes, SentWakes(n) \/ Greeted(n) \/ Done(n)
  PROVE  ConnInv'
<1>1. PICK l \in Links : l = aio[n].link
  BY InsideIs DEF SentWakes, Greeted, Done, Inside
<1>2. Live(<<n, l>>) /\ aio' = [aio EXCEPT ![n] = Idle]
  BY <1>1 DEF SentWakes, Greeted, Done, Inside, Leaves
<1>3. UNCHANGED <<box, map, comm, admin, tcp, wire>>
  BY DEF SentWakes, Greeted, Done
<1>4. PICK x \in Conns : x = conn[<<n, l>>] /\ conn \in [Ends -> Conns] /\ <<n, l>> \in Ends
  BY DEF ConnInv, Types, ConnTypes, Ends
<1>5. FlightOf(n, l) /\ ListenOf(n, l)
  BY DEF ConnInv
<1>6. PICK y \in Conns :
        /\ conn' = [conn EXCEPT ![<<n, l>>] = y]
        /\ y.life = x.life /\ y.state = x.state /\ y.addr = x.addr /\ y.blocked = x.blocked
        /\ y.out = x.out /\ y.queue = x.queue /\ y.thread = x.thread
        /\ y.ops \in {x.ops, x.ops \cup {"recv"}}
        /\ y.blocked \/ y.ops \cap {"connect", "recv"} # {}
  <2>1. CASE SentWakes(n)
    <3>1. PICK y \in Conns : y = [x EXCEPT !.bell = TRUE]
      BY DEF Conns
    <3>2. conn' = [conn EXCEPT ![<<n, l>>] = y]
      BY <1>1, <1>4, <2>1, <3>1 DEF SentWakes
    <3>3. aio[n] = At("wake", l)
      BY <1>1, <2>1, InsideIs DEF SentWakes, Inside, At, Actors
    <3>4. x.blocked \/ x.ops \cap {"connect", "recv"} # {}
      BY <1>2, <1>4, <1>5, <3>3 DEF ListenOf, Hears
    <3>. QED
      BY <3>1, <3>2, <3>4 DEF Conns
  <2>2. CASE Greeted(n) \/ Done(n)
    <3>1. PICK o \in SUBSET {"connect", "recv", "send"} : o = x.ops \cup {"recv"}
      BY DEF Conns
    <3>2. PICK b \in BOOLEAN, y \in Conns :
            y = [x EXCEPT !.ops = o, !.bell = b] /\ conn' = [conn EXCEPT ![<<n, l>>] = y]
      <4>1. CASE Greeted(n)
        <5>1. PICK y \in Conns : y = [x EXCEPT !.ops = o, !.bell = TRUE]
          BY DEF Conns
        <5>2. conn' = [conn EXCEPT ![<<n, l>>].ops = o, ![<<n, l>>].bell = TRUE]
          BY <1>1, <1>4, <3>1, <4>1 DEF Greeted, ReceivesAgain
        <5>. QED
          BY <1>4, <5>1, <5>2
      <4>2. CASE Done(n)
        <5>1. PICK y \in Conns : y = [x EXCEPT !.ops = o, !.bell = x.bell]
          BY DEF Conns
        <5>2. conn' = [conn EXCEPT ![<<n, l>>].ops = o]
          BY <1>1, <1>4, <3>1, <4>2 DEF Done, ReceivesAgain
        <5>3. conn' = [conn EXCEPT ![<<n, l>>] = y] /\ x.bell \in BOOLEAN
          BY <1>4, <5>1, <5>2, ZenonT(40) DEF Conns
        <5>. QED
          BY <5>1, <5>3
      <4>. QED
        BY <2>2, <4>1, <4>2
    <3>3. /\ y.life = x.life /\ y.state = x.state /\ y.addr = x.addr /\ y.blocked = x.blocked
          /\ y.out = x.out /\ y.queue = x.queue /\ y.thread = x.thread /\ y.ops = o
      BY <3>2 DEF Conns
    <3>4. o \in {x.ops, x.ops \cup {"recv"}} /\ o \cap {"connect", "recv"} # {}
      BY <3>1
    <3>. QED
      BY <3>2, <3>3, <3>4
  <2>. QED
    BY <2>1, <2>2
<1>7. Becomes(n, l, y)
  BY <1>4, <1>6 DEF Becomes
<1>8. Turns(n, l, Idle) /\ Idle.at \notin {"answer", "reply"} /\ aio'[n] = Idle
  BY <1>2, Places DEF Turns, ConnInv, Types, NodeTypes
<1>9. conn'[<<n, l>>] = y
  BY <1>4, <1>6
<1>10. Speaks(n, l)
  BY <1>4, <1>6, <1>9 DEF Speaks
<1>11. aio[n].at # "shut" /\ At("shut", l).at = "shut"
  BY DEF SentWakes, Greeted, Done, Inside, At
<1>12. FlightOf(n, l)'
  BY <1>2, <1>3, <1>4, <1>5, <1>6, <1>9, <1>11 DEF FlightOf, Live
<1>13. ListenOf(n, l)'
  BY <1>6, <1>8, <1>9, Places DEF ListenOf, Hears
<1>14. BoxTypes'
  BY <1>3 DEF BoxTypes, ConnInv, Types
<1>. QED
  BY <1>1, <1>2, <1>3, <1>7, <1>8, <1>10, <1>12, <1>13, <1>14, CallbackMoves

\* A callback that leaves the queue and what is being sent alone.
LEMMA OpsMove ==
  ASSUME ConnInv, NEW n \in Nodes, NEW l \in Links, Live(<<n, l>>), aio[n].link = None,
         NEW y, Becomes(n, l, y), NEW x, Turns(n, l, x), x.at \in {"idle", "shut", "done"},
         y.queue = conn[<<n, l>>].queue, y.out = conn[<<n, l>>].out,
         y.thread = conn[<<n, l>>].thread, y.blocked = conn[<<n, l>>].blocked,
         y.ops \subseteq conn[<<n, l>>].ops,
         \/ x.link = l
         \/ y.ops = conn[<<n, l>>].ops,
         \/ x = At("shut", l)
         \/ "send" \in conn[<<n, l>>].ops => "send" \in y.ops,
         wire' = wire \/ Consumes(n, l), BoxTypes', UNCHANGED <<map, comm, admin, tcp>>
  PROVE  ConnInv'
<1>1. FlightOf(n, l) /\ ListenOf(n, l)
  BY DEF ConnInv
<1>2. conn'[<<n, l>>] = y /\ aio'[n] = x
  BY DEF Becomes, Turns, ConnInv, Types, ConnTypes, NodeTypes, Ends
<1>3. Speaks(n, l)
  BY <1>2 DEF Speaks
<1>4. FlightOf(n, l)'
  <2>1. aio[n] # At("shut", l)
    BY Places, NodesAssumption
  <2>. QED
    BY <1>1, <1>2, <2>1 DEF FlightOf, Live, Becomes
<1>5. ListenOf(n, l)'
  <2>1. x # At("wake", l) /\ x # At("revoke", l)
    BY Places
  <2>2. Hears(n, l)
    BY <1>1, NodesAssumption DEF ListenOf
  <2>. QED
    BY <1>2, <2>1, <2>2 DEF ListenOf, Hears
<1>. QED
  BY <1>3, <1>4, <1>5, CallbackMoves

LEMMA OnErrorStep ==
  ASSUME ConnInv, NEW n \in Nodes, NEW l \in Links, OnError(n, l)
  PROVE  ConnInv'
<1>1. PICK op \in conn[<<n, l>>].ops :
        /\ Enters(n, l, op)
        /\ conn' = [conn EXCEPT ![<<n, l>>].ops = @ \ {op}]
  BY DEF OnError
<1>2. /\ Live(<<n, l>>) /\ aio[n].link = None
  BY <1>1, EntersIdle
<1>3. PICK x \in Conns : x = conn[<<n, l>>] /\ conn \in [Ends -> Conns] /\ <<n, l>> \in Ends
  BY DEF ConnInv, Types, ConnTypes, Ends
<1>4. PICK o \in SUBSET {"connect", "recv", "send"} : o = x.ops \ {op}
  BY DEF Conns
<1>5. PICK y \in Conns : y = [x EXCEPT !.ops = o] /\ conn' = [conn EXCEPT ![<<n, l>>] = y]
  <2>1. [x EXCEPT !.ops = o] \in Conns
    BY DEF Conns
  <2>. QED
    BY <1>1, <1>3, <1>4, <2>1
<1>6. Becomes(n, l, y)
  BY <1>3, <1>5 DEF Becomes, Conns
<1>7. /\ y.queue = x.queue /\ y.out = x.out /\ y.thread = x.thread /\ y.blocked = x.blocked
      /\ y.ops \subseteq x.ops
  BY <1>4, <1>5 DEF Conns
<1>8. PICK z : z = At("shut", l)
  OBVIOUS
<1>9. Turns(n, l, z) /\ z.at \in {"idle", "shut", "done"} /\ z.link = l
  BY <1>8, Places DEF OnError, Stays, Turns
<1>10. BoxTypes' /\ UNCHANGED <<map, comm, admin, tcp, wire>>
  BY DEF OnError, BoxTypes, ConnInv, Types
<1>. QED
  BY <1>2, <1>3, <1>6, <1>7, <1>8, <1>9, <1>10, OpsMove

LEMMA PingedStep ==
  ASSUME ConnInv, NEW n \in Nodes, NEW l \in Links, Pinged(n, l)
  PROVE  ConnInv'
<1>1. Enters(n, l, "recv") /\ Consumes(n, l)
  BY DEF Pinged, Receives, Consumes
<1>2. Live(<<n, l>>) /\ aio[n].link = None /\ aio[n].at = "idle"
  BY <1>1, EntersIdle
<1>3. PICK x \in Conns : x = conn[<<n, l>>] /\ conn \in [Ends -> Conns] /\ <<n, l>> \in Ends
  BY DEF ConnInv, Types, ConnTypes, Ends
<1>4. Becomes(n, l, x)
  BY <1>3 DEF Becomes, Pinged
<1>5. PICK z \in Actors : z = aio[n] /\ aio \in [Nodes -> Actors]
  BY DEF ConnInv, Types, NodeTypes
<1>6. Turns(n, l, z) /\ z.at \in {"idle", "shut", "done"}
  BY <1>2, <1>5 DEF Turns, Pinged
<1>7. BoxTypes' /\ UNCHANGED <<map, comm, admin, tcp>>
  BY DEF Pinged, BoxTypes, ConnInv, Types
<1>. QED
  BY <1>1, <1>2, <1>3, <1>4, <1>6, <1>7, OpsMove

LEMMA ForwardsStep ==
  ASSUME ConnInv, NEW n \in Nodes, NEW l \in Links, Forwards(n, l) \/ Throws(n, l)
  PROVE  ConnInv'
<1>1. Enters(n, l, "recv") /\ Consumes(n, l)
  BY DEF Forwards, Throws, Receives, Consumes
<1>2. Live(<<n, l>>) /\ aio[n].link = None
  BY <1>1, EntersIdle
<1>3. PICK x \in Conns : x = conn[<<n, l>>] /\ conn \in [Ends -> Conns] /\ <<n, l>> \in Ends
  BY DEF ConnInv, Types, ConnTypes, Ends
<1>4. PICK o \in SUBSET {"connect", "recv", "send"} : o = x.ops \ {"recv"}
  BY DEF Conns
<1>5. PICK y \in Conns : y = [x EXCEPT !.ops = o] /\ conn' = [conn EXCEPT ![<<n, l>>] = y]
  <2>1. [x EXCEPT !.ops = o] \in Conns
    BY DEF Conns
  <2>2. conn' = [conn EXCEPT ![<<n, l>>].ops = @ \ {"recv"}]
    BY DEF Forwards, Throws, Silent
  <2>. QED
    BY <1>3, <1>4, <2>1, <2>2
<1>6. Becomes(n, l, y)
  BY <1>3, <1>5 DEF Becomes, Conns
<1>7. /\ y.queue = x.queue /\ y.out = x.out /\ y.thread = x.thread /\ y.blocked = x.blocked
      /\ y.ops \subseteq x.ops /\ ("send" \in x.ops => "send" \in y.ops)
  BY <1>4, <1>5 DEF Conns
<1>8. PICK w \in {"shut", "done"} : aio' = [aio EXCEPT ![n] = At(w, l)]
  BY DEF Forwards, Throws, Stays
<1>9. PICK z : z = At(w, l)
  OBVIOUS
<1>10. Turns(n, l, z) /\ z.at \in {"idle", "shut", "done"} /\ z.link = l
  BY <1>8, <1>9, Places DEF Turns
<1>11. BoxTypes'
  <2>1. CASE UNCHANGED box
    BY <2>1 DEF BoxTypes, ConnInv, Types
  <2>2. CASE Forwards(n, l)
    <3>1. PICK g \in Messages : g = Got(n, l) /\ g.kind = "post" /\ g.post \in Posts
      <4>1. Got(n, l) \in Messages /\ Carries(Far(n, l), l, Got(n, l))
        BY <1>1, WireShrinks
      <4>2. [Got(n, l) EXCEPT !.session = None].kind = "post"
        BY <2>2 DEF Forwards
      <4>. QED
        BY <4>1, <4>2 DEF Carries, Messages
    <3>2. PICK m \in Messages : m = [g EXCEPT !.session = None] /\ m.post \in Posts
      <4>1. [g EXCEPT !.session = None] \in Messages
        BY DEF Messages
      <4>2. [g EXCEPT !.session = None].post = g.post
        BY DEF Messages
      <4>. QED
        BY <3>1, <4>1, <4>2
    <3>3. BoxGains(n, m)
      BY <2>2, <3>1, <3>2 DEF Forwards, BoxGains
    <3>. QED
      BY <3>2, <3>3, BoxGrows DEF ConnInv, Types
  <2>. QED
    BY <2>1, <2>2 DEF Throws
<1>12. UNCHANGED <<map, comm, admin, tcp>>
  BY DEF Forwards, Throws
<1>. QED
  BY <1>1, <1>2, <1>3, <1>6, <1>7, <1>10, <1>11, <1>12, OpsMove

\* v_on_connect: the handshake of the end that connects.
LEMMA OnConnectStep ==
  ASSUME ConnInv, NEW n \in Nodes, NEW l \in Links, OnConnect(n, l)
  PROVE  ConnInv'
<1>1. Enters(n, l, "connect")
  BY DEF OnConnect
<1>2. /\ Live(<<n, l>>) /\ aio[n].at = "idle" /\ aio[n].link = None /\ FlightOf(n, l)
      /\ "connect" \in conn[<<n, l>>].ops
  BY <1>1, EntersIdle
<1>3. PICK x \in Conns : x = conn[<<n, l>>] /\ conn \in [Ends -> Conns] /\ <<n, l>> \in Ends
  BY DEF ConnInv, Types, ConnTypes, Ends
<1>4. UNCHANGED <<box, map, comm, admin, tcp, wire>>
  BY DEF OnConnect
<1>5. PICK hello \in Messages : hello = Message("hello", n, 0, l)
  BY DEF Message, Messages
<1>6. Carries(n, l, hello)
  BY <1>2, <1>5 DEF Carries, Message, FlightOf
<1>7. BoxTypes'
  BY <1>4 DEF BoxTypes, ConnInv, Types
<1>8. CASE /\ conn' = [conn EXCEPT ![<<n, l>>].session = l, ![<<n, l>>].ops = @ \ {"connect"}]
           /\ Stays(n, l, "shut")
  <2>1. PICK o \in SUBSET {"connect", "recv", "send"} : o = x.ops \ {"connect"}
    BY DEF Conns
  <2>2. PICK y \in Conns : y = [x EXCEPT !.session = l, !.ops = o]
    BY DEF Conns
  <2>3. conn' = [conn EXCEPT ![<<n, l>>] = y]
    BY <1>3, <1>8, <2>1, <2>2
  <2>4. Becomes(n, l, y)
    BY <1>3, <2>2, <2>3 DEF Becomes, Conns
  <2>5. /\ y.queue = x.queue /\ y.out = x.out /\ y.thread = x.thread /\ y.blocked = x.blocked
        /\ y.ops \subseteq x.ops /\ ("send" \in x.ops => "send" \in y.ops)
    BY <2>1, <2>2 DEF Conns
  <2>6. PICK z : z = At("shut", l)
    OBVIOUS
  <2>7. Turns(n, l, z) /\ z.at \in {"idle", "shut", "done"} /\ z.link = l
    BY <1>8, <2>6, Places DEF Stays, Turns
  <2>. QED
    BY <1>2, <1>3, <1>4, <1>7, <2>4, <2>5, <2>7, OpsMove
<1>9. CASE /\ conn' = [conn EXCEPT ![<<n, l>>].session = l,
                                   ![<<n, l>>].ops = (@ \ {"connect"}) \cup {"recv"},
                                   ![<<n, l>>].queue = With(@, hello), ![<<n, l>>].bell = TRUE]
           /\ UNCHANGED aio
  <2>1. PICK o \in SUBSET {"connect", "recv", "send"} : o = (x.ops \ {"connect"}) \cup {"recv"}
    BY DEF Conns
  <2>2. PICK q \in Queues : q = x.queue
    BY DEF Conns
  <2>3. /\ With(q, hello) \in Queues /\ Queue!Peek(With(q, hello))
        /\ \A p \in 0 .. 2 : \A e \in Elements(With(q, hello)[p]) :
             e \in Elements(q[p]) \/ (e = hello /\ p = Priority(hello))
        /\ q[0] # <<>> => With(q, hello)[0] # <<>>
    BY QueuePushes
  <2>4. PICK r \in Queues : r = With(q, hello)
    BY <2>3
  <2>5. PICK y \in Conns : y = [x EXCEPT !.session = l, !.ops = o, !.queue = r, !.bell = TRUE]
    BY DEF Conns
  <2>6. conn' = [conn EXCEPT ![<<n, l>>] = y]
    BY <1>3, <1>9, <2>1, <2>2, <2>4, <2>5
  <2>7. /\ y.life = x.life /\ y.state = x.state /\ y.addr = x.addr /\ y.blocked = x.blocked
        /\ y.out = x.out /\ y.thread = x.thread /\ y.ops = o /\ y.queue = r
    BY <2>5 DEF Conns
  <2>8. Becomes(n, l, y) /\ conn'[<<n, l>>] = y
    BY <1>3, <2>6, <2>7 DEF Becomes
  <2>9. Speaks(n, l)
    <3>1. \A p \in 0 .. 2 : \A e \in Elements(r[p]) :
            e \in Elements(q[p]) \/ (Priority(e) = p /\ Carries(n, l, e))
      BY <1>6, <2>3, <2>4
    <3>. QED
      BY <1>3, <2>2, <2>7, <2>8, <3>1 DEF Speaks
  <2>10. FlightOf(n, l)'
    BY <1>2, <1>3, <1>4, <1>9, <2>1, <2>2, <2>3, <2>4, <2>7, <2>8 DEF FlightOf, Live
  <2>11. ListenOf(n, l)'
    <3>1. aio'[n] # At("wake", l) /\ aio'[n] # At("revoke", l)
      BY <1>2, <1>9, Places
    <3>2. o \cap {"connect", "recv"} # {}
      BY <2>1
    <3>. QED
      BY <2>7, <2>8, <3>1, <3>2 DEF ListenOf, Hears
  <2>12. PICK z \in Actors : z = aio[n] /\ aio \in [Nodes -> Actors]
    BY DEF ConnInv, Types, NodeTypes
  <2>13. Turns(n, l, z) /\ z.at \notin {"answer", "reply"}
    BY <1>2, <1>9, <2>12 DEF Turns
  <2>. QED
    BY <1>2, <1>4, <1>7, <2>8, <2>9, <2>10, <2>11, <2>13, CallbackMoves
<1>. QED
  BY <1>5, <1>8, <1>9 DEF OnConnect

\* The answer to the handshake of the end that accepted.
LEMMA RepliesStep ==
  ASSUME ConnInv, NEW n \in Nodes, Replies(n)
  PROVE  ConnInv'
<1>1. PICK l \in Links : l = aio[n].link /\ aio[n].at = "reply"
  BY InsideIs DEF Replies, Inside
<1>2. Live(<<n, l>>)
  BY <1>1 DEF Replies, Inside
<1>3. PICK m \in Messages : /\ m = Message("welcome", n, 0, conn[<<n, l>>].session)
                            /\ m.kind = "welcome" /\ m.who = n
  <2>1. PICK s \in Links \cup {None} : s = conn[<<n, l>>].session
    BY DEF ConnInv, Types, ConnTypes, Conns, Ends
  <2>2. Message("welcome", n, 0, s) \in Messages
    BY DEF Message, Messages
  <2>. QED
    BY <2>1, <2>2 DEF Message
<1>4. Carries(n, l, m)
  <2>1. AioOf(n)
    BY DEF ConnInv
  <2>. QED
    BY <1>1, <1>3, <2>1 DEF AioOf, Carries
<1>5. Gains(n, l, m)
  BY <1>1, <1>3 DEF Replies, Pushed, Gains
<1>6. /\ conn' \in [Ends -> Conns]
      /\ \A d \in Ends : d # <<n, l>> => conn'[d] = conn[d]
      /\ Steady(n, l) /\ Speaks(n, l)
  BY <1>4, <1>5, PushKeeps
<1>7. UNCHANGED <<box, map, comm, admin, tcp, wire>>
  BY DEF Replies
<1>8. PICK x \in Actors : /\ aio' = [aio EXCEPT ![n] = x]
                          /\ x \in {At("shut", l), At("done", l)}
  BY <1>1, Places DEF Replies, Stays
<1>9. /\ aio' \in [Nodes -> Actors] /\ aio'[n] = x /\ x.link = l /\ x.at \in {"shut", "done"}
      /\ \A k \in Nodes : k # n => aio'[k] = aio[k]
  BY <1>8, Places DEF ConnInv, Types, NodeTypes
<1>10. Types'
  <2>1. NodeTypes'
    <3>1. l # None
      BY NodesAssumption
    <3>2. \A k \in Nodes : aio'[k].at = "idle" <=> aio'[k].link = None
      BY <1>9, <3>1, SMTT(30) DEF ConnInv, Types, NodeTypes
    <3>. QED
      BY <1>7, <1>9, <3>2 DEF ConnInv, Types, NodeTypes
  <2>. QED
    BY <1>6, <1>7, <2>1 DEF ConnInv, Types, ConnTypes, BoxTypes
<1>11. Keeps(n, l) /\ AioTurns(n, l)
  BY <1>1, <1>6, <1>7, <1>9 DEF Keeps, Steady, AioTurns
<1>12. AioOf(n)'
  BY <1>2, <1>6, <1>9 DEF AioOf, Steady, Live
<1>13. FlightOf(n, l) /\ ListenOf(n, l)
  BY DEF ConnInv
<1>14. FlightOf(n, l)'
  <2>1. aio[n] # At("shut", l)
    BY <1>1, Places
  <2>. QED
    BY <1>7, <1>6, <1>13, <2>1 DEF FlightOf, Live, Steady
<1>15. ListenOf(n, l)'
  <2>1. aio'[n] # At("wake", l) /\ aio'[n] # At("revoke", l)
    BY <1>9, Places
  <2>. QED
    BY <1>9, <2>1 DEF ListenOf
<1>. QED
  BY <1>2, <1>6, <1>10, <1>11, <1>12, <1>14, <1>15, EndMoves

-----------------------------------------------------------------------------
(* shutdown_connection of the working thread and of the administrator.     *)

\* What it does to the connection.
LEMMA ShutChanges ==
  ASSUME ConnInv, NEW n \in Nodes, NEW l \in Links, NEW at \in {"shut", "revoke"},
         ShutStep(n, l, at)
  PROVE  /\ Live(<<n, l>>) /\ BoxTypes'
         /\ \E y \in Conns :
              /\ Becomes(n, l, y) /\ conn'[<<n, l>>] = y
              /\ y.queue = conn[<<n, l>>].queue /\ y.out = conn[<<n, l>>].out
              /\ y.ops = conn[<<n, l>>].ops /\ y.thread = conn[<<n, l>>].thread
              /\ y.blocked = IF at = "shut" THEN TRUE ELSE conn[<<n, l>>].blocked
<1>1. Live(<<n, l>>)
  BY DEF ShutStep
<1>2. BoxTypes'
  BY <1>1, ClosesAreMessages DEF ShutStep
<1>3. PICK x \in Conns : x = conn[<<n, l>>] /\ conn \in [Ends -> Conns] /\ <<n, l>> \in Ends
  BY DEF ConnInv, Types, ConnTypes, Ends
<1>4. PICK y \in Conns :
        /\ conn' = [conn EXCEPT ![<<n, l>>] = y]
        /\ y.life = x.life /\ y.state = x.state /\ y.addr = x.addr
        /\ y.queue = x.queue /\ y.out = x.out /\ y.ops = x.ops /\ y.thread = x.thread
        /\ y.blocked = IF at = "shut" THEN TRUE ELSE x.blocked
  <2>1. CASE at = "shut" /\ x.blocked
    <3>1. conn' = [conn EXCEPT ![<<n, l>>] = x]
      BY <1>3, <2>1 DEF ShutStep
    <3>. QED
      BY <2>1, <3>1 DEF Conns
  <2>2. CASE at = "shut" /\ ~x.blocked
    <3>1. PICK y \in Conns : y = [x EXCEPT !.blocked = TRUE]
      BY DEF Conns
    <3>2. conn' = [conn EXCEPT ![<<n, l>>] = y]
      BY <1>3, <2>2, <3>1 DEF ShutStep, Blocked
    <3>. QED
      BY <2>2, <3>1, <3>2 DEF Conns
  <2>3. CASE at = "revoke"
    <3>1. PICK y \in Conns : y = [x EXCEPT !.bell = FALSE]
      BY DEF Conns
    <3>2. conn' = [conn EXCEPT ![<<n, l>>] = y]
      BY <1>3, <2>3, <3>1 DEF ShutStep, Revoked
    <3>. QED
      BY <2>3, <3>1, <3>2 DEF Conns
  <2>. QED
    BY <2>1, <2>2, <2>3
<1>5. Becomes(n, l, y) /\ conn'[<<n, l>>] = y
  BY <1>3, <1>4 DEF Becomes
<1>. QED
  BY <1>1, <1>2, <1>3, <1>4, <1>5

LEMMA AioShutStep ==
  ASSUME ConnInv, NEW n \in Nodes, AioShut(n)
  PROVE  ConnInv'
<1>1. PICK l \in Links, at \in {"shut", "revoke"} : l = aio[n].link /\ at = aio[n].at
  BY InsideIs DEF AioShut, ShutByActor
<1>2. ShutStep(n, l, at) /\ UNCHANGED <<map, comm, admin, tcp, wire>>
  BY <1>1 DEF AioShut, ShutByActor
<1>3. /\ Live(<<n, l>>) /\ BoxTypes'
      /\ \E y \in Conns :
           /\ Becomes(n, l, y) /\ conn'[<<n, l>>] = y
           /\ y.queue = conn[<<n, l>>].queue /\ y.out = conn[<<n, l>>].out
           /\ y.ops = conn[<<n, l>>].ops /\ y.thread = conn[<<n, l>>].thread
           /\ y.blocked = IF at = "shut" THEN TRUE ELSE conn[<<n, l>>].blocked
  BY <1>2, ShutChanges
<1>4. PICK y \in Conns :
           /\ Becomes(n, l, y) /\ conn'[<<n, l>>] = y
           /\ y.queue = conn[<<n, l>>].queue /\ y.out = conn[<<n, l>>].out
           /\ y.ops = conn[<<n, l>>].ops /\ y.thread = conn[<<n, l>>].thread
           /\ y.blocked = IF at = "shut" THEN TRUE ELSE conn[<<n, l>>].blocked
  BY <1>3
<1>5. FlightOf(n, l) /\ ListenOf(n, l)
  BY DEF ConnInv
<1>6. aio[n] = At(at, l)
  BY <1>1, InsideIs DEF At, Actors
<1>7. y.blocked
  BY <1>3, <1>4, <1>5, <1>6 DEF ListenOf
<1>8. PICK x \in {Idle, At("revoke", l)} : aio' = [aio EXCEPT ![n] = x]
  BY <1>1 DEF AioShut, Rests, AfterShut
<1>9. Turns(n, l, x) /\ x.at \notin {"answer", "reply"}
  BY <1>8, Places DEF Turns
<1>10. Speaks(n, l)
  BY <1>4 DEF Speaks
<1>11. FlightOf(n, l)'
  BY <1>2, <1>3, <1>4, <1>5, <1>7 DEF FlightOf, Live, Becomes
<1>12. ListenOf(n, l)'
  BY <1>4, <1>7 DEF ListenOf, Hears
<1>. QED
  BY <1>1, <1>2, <1>3, <1>4, <1>9, <1>10, <1>11, <1>12, CallbackMoves

LEMMA AdminShutStep ==
  ASSUME ConnInv, NEW n \in Nodes, AdminShut(n)
  PROVE  ConnInv'
<1>1. PICK l \in Links, at \in {"shut", "revoke"} : l = admin[n].link /\ at = admin[n].at
  BY DEF AdminShut, ShutByActor, ConnInv, Types, NodeTypes, Actors
<1>2. ShutStep(n, l, at) /\ UNCHANGED <<map, comm, aio, tcp, wire>>
  BY <1>1 DEF AdminShut, ShutByActor
<1>3. /\ Live(<<n, l>>) /\ BoxTypes'
      /\ \E y \in Conns :
           /\ Becomes(n, l, y) /\ conn'[<<n, l>>] = y
           /\ y.queue = conn[<<n, l>>].queue /\ y.out = conn[<<n, l>>].out
           /\ y.ops = conn[<<n, l>>].ops /\ y.thread = conn[<<n, l>>].thread
           /\ y.blocked = IF at = "shut" THEN TRUE ELSE conn[<<n, l>>].blocked
  BY <1>2, ShutChanges
<1>4. PICK y \in Conns :
           /\ Becomes(n, l, y) /\ conn'[<<n, l>>] = y
           /\ y.queue = conn[<<n, l>>].queue /\ y.out = conn[<<n, l>>].out
           /\ y.ops = conn[<<n, l>>].ops /\ y.thread = conn[<<n, l>>].thread
           /\ y.blocked = IF at = "shut" THEN TRUE ELSE conn[<<n, l>>].blocked
  BY <1>3
<1>5. PICK b \in BOOLEAN : b = conn[<<n, l>>].blocked
  BY DEF ConnInv, Types, ConnTypes, Conns, Ends
<1>6. y.blocked = conn[<<n, l>>].blocked \/ y.blocked
  BY <1>4
<1>7. PICK x \in {Idle, At("revoke", l)} : admin' = [admin EXCEPT ![n] = x]
  BY <1>1 DEF AdminShut, Rests, AfterShut
<1>8. NodeTypes'
  <2>1. x \in Actors /\ (x.at = "idle" <=> x.link = None)
    BY <1>7, Places
  <2>. QED
    BY <1>2, <1>7, <2>1 DEF ConnInv, Types, NodeTypes
<1>9. Speaks(n, l)
  BY <1>4 DEF Speaks
<1>10. FlightOf(n, l)'
  <2>1. FlightOf(n, l)
    BY DEF ConnInv
  <2>2. /\ y.state = conn[<<n, l>>].state /\ y.queue = conn[<<n, l>>].queue
        /\ y.out = conn[<<n, l>>].out /\ y.ops = conn[<<n, l>>].ops
        /\ y.thread = conn[<<n, l>>].thread
        /\ conn[<<n, l>>].blocked => y.blocked
    BY <1>4, <1>5 DEF Becomes
  <2>3. conn'[<<n, l>>] = y /\ aio' = aio /\ tcp' = tcp /\ Live(<<n, l>>)
    BY <1>2, <1>3, <1>4
  <2>. QED
    BY <2>1, <2>2, <2>3 DEF FlightOf, Live
<1>. QED
  BY <1>2, <1>3, <1>4, <1>6, <1>8, <1>9, <1>10, ThreadMoves

-----------------------------------------------------------------------------
(* Steps that change the place of an end.                                  *)

\* Nothing changes but the end of n, its link, and n.
Alone(n, l) ==
  /\ \A d \in Ends : d # <<n, l>> => conn'[d] = conn[d]
  /\ \A k \in Nodes, j \in Links : j # l => wire'[<<k, j>>] = wire[<<k, j>>]
  /\ \A j \in Links : j # l => tcp'[j] = tcp[j]
  /\ \A k \in Nodes : k # n => map'[k] = map[k] /\ comm'[k] = comm[k]
  /\ LinkKept(l) /\ (Established(l) => Established(l)')
  /\ AioTurns(n, l)
\* What is left to show.
Local(n, l) ==
  /\ LinkOf(l) /\ SilenceOf(l) /\ MapOf(n) /\ AioOf(n)
  /\ \A k \in Nodes : RoleOf(k, l) /\ CarryOf(k, l)
  /\ FlightOf(n, l) /\ ListenOf(n, l)

LEMMA EndChanges ==
  ASSUME ConnInv, Types', NEW n \in Nodes, NEW l \in Links, Alone(n, l), Local(n, l)'
  PROVE  ConnInv'
<1>1. /\ \A k \in Nodes, j \in Links : k # n \/ j # l => conn'[<<k, j>>] = conn[<<k, j>>]
      /\ \A k \in Nodes, j \in Links : j # l => wire'[<<k, j>>] = wire[<<k, j>>]
      /\ \A j \in Links : j # l => tcp'[j] = tcp[j]
      /\ \A k \in Nodes : k # n => map'[k] = map[k] /\ comm'[k] = comm[k] /\ aio'[k] = aio[k]
      /\ \A j \in Links : LinkKept(j)
  BY DEF Alone, AioTurns, Ends, LinkKept
<1>2. \A j \in Links : j # l => (Established(j)' <=> Established(j))
  BY <1>1 DEF ConnInv, LinkOf, Established
<1>3. \A k \in Nodes, j \in Links : k # n \/ j # l => (Live(<<k, j>>)' <=> Live(<<k, j>>))
  BY <1>1 DEF Live
<1>4. \A j \in Links : LinkOf(j)' /\ SilenceOf(j)'
  <2>. SUFFICES ASSUME NEW j \in Links, j # l PROVE LinkOf(j)' /\ SilenceOf(j)'
    BY DEF Local
  <2>1. LinkOf(j) /\ SilenceOf(j)
    BY DEF ConnInv
  <2>2. LinkOf(j)'
    BY <1>1, <2>1 DEF LinkOf
  <2>3. SilenceOf(j)'
    BY <1>1, <1>2, <2>1 DEF SilenceOf, LinkOf
  <2>. QED
    BY <2>2, <2>3
<1>5. \A k \in Nodes, j \in Links : RoleOf(k, j)' /\ CarryOf(k, j)'
  <2>. SUFFICES ASSUME NEW k \in Nodes, NEW j \in Links, j # l PROVE RoleOf(k, j)' /\ CarryOf(k, j)'
    BY DEF Local
  <2>1. RoleOf(k, j) /\ CarryOf(k, j)
    BY DEF ConnInv
  <2>2. RoleOf(k, j)'
    BY <1>1, <2>1 DEF RoleOf, Connects, Listens, Live
  <2>3. \A i, m : Carries(i, j, m)' <=> Carries(i, j, m)
    BY <1>1, <1>2 DEF Carries
  <2>4. \A i : Far(i, j)' = Far(i, j)
    BY <1>1 DEF Far
  <2>5. CarryOf(k, j)'
    BY <1>1, <2>1, <2>3, <2>4 DEF CarryOf
  <2>. QED
    BY <2>2, <2>5
<1>6. \A k \in Nodes, j \in Links : FlightOf(k, j)' /\ ListenOf(k, j)'
  <2>. SUFFICES ASSUME NEW k \in Nodes, NEW j \in Links, k # n \/ j # l
                PROVE  FlightOf(k, j)' /\ ListenOf(k, j)'
    BY DEF Local
  <2>1. conn'[<<k, j>>] = conn[<<k, j>>] /\ FlightOf(k, j) /\ ListenOf(k, j) /\ RoleOf(k, j)
    BY <1>1 DEF ConnInv
  <2>2. \/ aio'[k] = aio[k]
        \/ aio[k].link # j /\ aio'[k].link # j
    BY NodesAssumption DEF Alone, AioTurns
  <2>3. \A x : At(x, j).link = j
    BY DEF At
  <2>4. Live(<<k, j>>) => tcp'[j].from = tcp[j].from
    BY <1>1, <2>1 DEF RoleOf, LinkKept
  <2>5. CASE aio'[k] = aio[k]
    BY <2>1, <2>4, <2>5 DEF FlightOf, ListenOf, Hears, Live
  <2>6. CASE aio[k].link # j /\ aio'[k].link # j
    BY <2>1, <2>3, <2>4, <2>6 DEF FlightOf, ListenOf, Hears, Live
  <2>. QED
    BY <2>2, <2>5, <2>6
<1>7. \A k \in Nodes : MapOf(k)' /\ AioOf(k)'
  <2>. SUFFICES ASSUME NEW k \in Nodes, k # n PROVE MapOf(k)' /\ AioOf(k)'
    BY DEF Local
  <2>1. MapOf(k) /\ AioOf(k) /\ \A j \in Links : RoleOf(k, j) /\ LinkOf(j)
    BY DEF ConnInv
  <2>2. /\ comm[k].at # "idle" => comm[k].link \in Links
        /\ aio[k].at # "idle" => aio[k].link \in Links
        /\ map[k] \in [Addresses -> Links \cup {None}]
    BY DEF ConnInv, Types, NodeTypes, Actors
  <2>3. MapOf(k)'
    BY <1>1, <1>3, <2>1, <2>2 DEF MapOf, RoleOf, LinkKept
  <2>4. AioOf(k)'
    <3>. SUFFICES ASSUME aio[k].at # "idle" PROVE AioOf(k)'
      BY <1>1 DEF AioOf
    <3>1. PICK j \in Links : j = aio[k].link
      BY <2>2
    <3>2. Established(j) => Established(j)'
      BY <1>2 DEF Alone
    <3>3. tcp[j].is # "none"
      BY <2>1, <3>1 DEF AioOf, LinkOf, NoConn
    <3>. QED
      BY <1>1, <2>1, <3>1, <3>2, <3>3 DEF AioOf, LinkKept
  <2>. QED
    BY <2>3, <2>4
<1>. QED
  BY <1>4, <1>5, <1>6, <1>7 DEF ConnInv

LEMMA CarriesOn ==
  ASSUME NEW l \in Links, tcp[l].is # "none", LinkKept(l), Established(l) => Established(l)'
  PROVE  /\ \A n, m : Carries(n, l, m) => Carries(n, l, m)'
         /\ \A n : Far(n, l)' = Far(n, l)
BY DEF LinkKept, Carries, Far

LEMMA CommAddStep ==
  ASSUME ConnInv, NEW n \in Nodes, CommAdd(n)
  PROVE  ConnInv'
<1>1. PICK l \in Links : l = comm[n].link
  BY DEF CommAdd, ConnInv, Types, NodeTypes
<1>2. PICK x \in Conns : x = conn[<<n, l>>] /\ conn \in [Ends -> Conns] /\ <<n, l>> \in Ends
  BY DEF ConnInv, Types, ConnTypes, Ends
<1>3. Live(<<n, l>>) /\ comm[n].at = "add" /\ UNCHANGED <<box, aio, admin, tcp, wire>>
  BY <1>1 DEF CommAdd
<1>4. MapOf(n) /\ RoleOf(n, l) /\ LinkOf(l) /\ SilenceOf(l) /\ FlightOf(n, l) /\ ListenOf(n, l)
  BY DEF ConnInv
<1>5. PICK a \in Addresses : a = x.addr
  BY <1>2, <1>3, <1>4 DEF RoleOf, Connects, Listens, LinkOf, Addresses
<1>6. /\ map[n][a] = None /\ map' = [map EXCEPT ![n][a] = l]
      /\ conn' = [conn EXCEPT ![<<n, l>>].bell = TRUE] /\ comm' = [comm EXCEPT ![n].at = "push"]
  BY <1>1, <1>2, <1>5 DEF CommAdd
<1>7. PICK y \in Conns : y = [x EXCEPT !.bell = TRUE]
  BY DEF Conns
<1>8. /\ conn' \in [Ends -> Conns] /\ conn'[<<n, l>>] = y
      /\ \A d \in Ends : d # <<n, l>> => conn'[d] = conn[d]
  BY <1>2, <1>6, <1>7
<1>9. /\ y.life = x.life /\ y.state = x.state /\ y.addr = x.addr /\ y.blocked = x.blocked
      /\ y.out = x.out /\ y.queue = x.queue /\ y.thread = x.thread /\ y.ops = x.ops
  BY <1>7 DEF Conns
<1>10. /\ map' \in [Nodes -> [Addresses -> Links \cup {None}]]
       /\ map'[n][a] = l /\ \A b \in Addresses : b # a => map'[n][b] = map[n][b]
       /\ \A k \in Nodes : k # n => map'[k] = map[k] /\ comm'[k] = comm[k]
       /\ comm'[n].at = "push" /\ comm'[n].link = l /\ comm'[n].post = comm[n].post
       /\ comm' \in [Nodes -> [at : {"idle", "add", "push"}, link : Links \cup {None},
                               post : Posts \cup {0}]]
  BY <1>1, <1>6, ZenonT(40) DEF ConnInv, Types, NodeTypes
<1>11. Types'
  <2>1. NodeTypes'
    <3>1. \A k \in Nodes : comm'[k].at # "idle" => comm'[k].link \in Links /\ comm'[k].post \in Posts
      BY <1>3, <1>10 DEF ConnInv, Types, NodeTypes
    <3>. QED
      BY <1>3, <1>10, <3>1 DEF ConnInv, Types, NodeTypes
  <2>. QED
    BY <1>3, <1>8, <2>1 DEF ConnInv, Types, ConnTypes, BoxTypes
<1>12. \A k \in Nodes : /\ conn'[<<k, l>>].life = conn[<<k, l>>].life
                        /\ conn'[<<k, l>>].state = conn[<<k, l>>].state
                        /\ conn'[<<k, l>>].addr = conn[<<k, l>>].addr
                        /\ conn'[<<k, l>>].queue = conn[<<k, l>>].queue
                        /\ conn'[<<k, l>>].out = conn[<<k, l>>].out
                        /\ k # n => conn'[<<k, l>>] = conn[<<k, l>>]
  BY <1>2, <1>8, <1>9 DEF Ends
<1>13. tcp[l].is # "none" /\ tcp[l].from \in Nodes /\ tcp[l].to \in Nodes
  BY <1>3, <1>4 DEF RoleOf, LinkOf
<1>14. Established(l)' <=> Established(l)
  BY <1>3, <1>12, <1>13 DEF Established
<1>15. Alone(n, l)
  BY <1>3, <1>8, <1>10, <1>14 DEF Alone, AioTurns, LinkKept
<1>16. LinkOf(l)' /\ SilenceOf(l)'
  BY <1>3, <1>4, <1>12, <1>13, <1>14 DEF LinkOf, SilenceOf
<1>17. \A k \in Nodes : RoleOf(k, l)'
  <2>. SUFFICES ASSUME NEW k \in Nodes PROVE RoleOf(k, l)'
    OBVIOUS
  <2>1. RoleOf(k, l)
    BY DEF ConnInv
  <2>2. CASE k = n
    BY <1>2, <1>3, <1>4, <1>12, <2>2 DEF RoleOf, Connects, Listens, Live
  <2>3. CASE k # n
    BY <1>3, <1>12, <2>1, <2>3 DEF RoleOf, Connects, Listens, Live
  <2>. QED
    BY <2>2, <2>3
<1>18. \A k \in Nodes : CarryOf(k, l)'
  <2>. SUFFICES ASSUME NEW k \in Nodes PROVE CarryOf(k, l)'
    OBVIOUS
  <2>1. CarryOf(k, l)
    BY DEF ConnInv
  <2>2. /\ \A i, m : Carries(i, l, m) => Carries(i, l, m)'
        /\ \A i : Far(i, l)' = Far(i, l)
    BY <1>3, <1>13, <1>14, CarriesOn DEF LinkKept
  <2>. QED
    BY <1>3, <1>12, <2>1, <2>2 DEF CarryOf
<1>19. FlightOf(n, l)' /\ ListenOf(n, l)'
  BY <1>2, <1>3, <1>4, <1>8, <1>9 DEF FlightOf, ListenOf, Hears, Live
<1>20. AioOf(n)'
  <2>1. AioOf(n) /\ (aio[n].at # "idle" => aio[n].link \in Links)
    BY DEF ConnInv, Types, NodeTypes, Actors
  <2>2. \A j \in Links : /\ conn'[<<n, j>>].life = conn[<<n, j>>].life
                         /\ Established(j)' <=> Established(j)
    BY <1>3, <1>8, <1>12, <1>14 DEF Ends, Established, ConnInv, LinkOf
  <2>. QED
    BY <1>3, <2>1, <2>2 DEF AioOf
<1>21. MapOf(n)'
  <2>1. \A j \in Links : /\ Live(<<n, j>>)' <=> Live(<<n, j>>)
                         /\ conn'[<<n, j>>].addr = conn[<<n, j>>].addr
    BY <1>8, <1>12 DEF Live, Ends
  <2>2. ASSUME NEW b \in Addresses, NEW j \in Links, map'[n][b] = j
        PROVE  Live(<<n, j>>)' /\ conn'[<<n, j>>].addr = b
    <3>1. CASE b = a
      BY <1>2, <1>3, <1>5, <1>10, <2>1, <2>2, <3>1
    <3>2. CASE b # a
      BY <1>4, <1>10, <2>1, <2>2, <3>2 DEF MapOf
    <3>. QED
      BY <3>1, <3>2
  <2>3. \A j \in Links : Live(<<n, j>>)' => map'[n][conn'[<<n, j>>].addr] = j
    <3>. SUFFICES ASSUME NEW j \in Links, Live(<<n, j>>) PROVE map'[n][conn[<<n, j>>].addr] = j
      BY <2>1
    <3>1. CASE j = l
      BY <1>2, <1>5, <1>10, <3>1
    <3>2. CASE j # l
      <4>1. map[n][conn[<<n, j>>].addr] = j /\ RoleOf(n, j) /\ LinkOf(j)
        BY <1>1, <1>4, <3>2 DEF MapOf, ConnInv
      <4>2. conn[<<n, j>>].addr \in Addresses
        BY <4>1 DEF RoleOf, Connects, Listens, LinkOf, Addresses
      <4>3. conn[<<n, j>>].addr # a
        BY <1>6, <4>1, NodesAssumption
      <4>. QED
        BY <1>10, <4>1, <4>2, <4>3
    <3>. QED
      BY <3>1, <3>2
  <2>. QED
    <3>1. Live(<<n, l>>)' /\ tcp'[l].from = n
      BY <1>1, <1>3, <1>4, <2>1 DEF MapOf
    <3>. QED
      BY <1>10, <2>2, <2>3, <3>1 DEF MapOf
<1>. QED
  BY <1>11, <1>15, <1>16, <1>17, <1>18, <1>19, <1>20, <1>21, EndChanges DEF Local

\* What the step of one end leaves to the other.
LEMMA OtherEnd ==
  ASSUME ConnInv, NEW n \in Nodes, NEW l \in Links, tcp[l].is # "none",
         LinkKept(l), Established(l) => Established(l)', wire' = wire \/ Consumes(n, l),
         \A d \in Ends : d # <<n, l>> => conn'[d] = conn[d]
  PROVE  /\ LinkOf(l)'
         /\ \A k \in Nodes : k # n => RoleOf(k, l)' /\ CarryOf(k, l)'
         /\ \A m \in Elements(wire'[<<n, l>>]) : Carries(Far(n, l), l, m)'
         /\ \A i, m : Carries(i, l, m) => Carries(i, l, m)'
         /\ \A i : Far(i, l)' = Far(i, l)
         /\ \A k \in Nodes : Elements(wire'[<<k, l>>]) \subseteq Elements(wire[<<k, l>>])
         /\ \A k \in Nodes, j \in Links : j # l => wire'[<<k, j>>] = wire[<<k, j>>]
<1>1. /\ \A i, m : Carries(i, l, m) => Carries(i, l, m)'
      /\ \A i : Far(i, l)' = Far(i, l)
  BY CarriesOn
<1>2. /\ wire' \in [Ends -> Seq(Messages)]
      /\ \A d \in Ends : d # <<n, l>> => wire'[d] = wire[d]
      /\ Elements(wire'[<<n, l>>]) \subseteq Elements(wire[<<n, l>>])
  BY WireShrinks
<1>3. /\ \A k \in Nodes : k # n => /\ conn'[<<k, l>>] = conn[<<k, l>>]
                                   /\ wire'[<<k, l>>] = wire[<<k, l>>]
      /\ \A k \in Nodes, j \in Links : j # l => wire'[<<k, j>>] = wire[<<k, j>>]
  BY <1>2 DEF Ends
<1>4. LinkOf(l)'
  BY DEF LinkOf, LinkKept, ConnInv
<1>5. ASSUME NEW k \in Nodes, k # n PROVE RoleOf(k, l)'
  <2>1. RoleOf(k, l)
    BY DEF ConnInv
  <2>. QED
    BY <1>3, <1>5, <2>1 DEF RoleOf, Connects, Listens, Live, LinkKept
<1>6. ASSUME NEW k \in Nodes, k # n PROVE CarryOf(k, l)'
  <2>1. CarryOf(k, l)
    BY DEF ConnInv
  <2>. QED
    BY <1>1, <1>3, <1>6, <2>1 DEF CarryOf
<1>7. \A m \in Elements(wire'[<<n, l>>]) : Carries(Far(n, l), l, m)'
  <2>1. PICK f : f = Far(n, l)
    OBVIOUS
  <2>2. \A m \in Elements(wire'[<<n, l>>]) : Carries(f, l, m)
    BY <1>2, <2>1 DEF ConnInv, CarryOf
  <2>3. \A m \in Elements(wire'[<<n, l>>]) : Carries(f, l, m)'
    BY <1>1, <2>2
  <2>4. Far(n, l)' = f
    BY <1>1, <2>1
  <2>. QED
    BY <2>3, <2>4 DEF Carries
<1>8. \A k \in Nodes : Elements(wire'[<<k, l>>]) \subseteq Elements(wire[<<k, l>>])
  BY <1>2, <1>3
<1>. QED
  BY <1>1, <1>3, <1>4, <1>5, <1>6, <1>7, <1>8

\* An end that is live and stays so, while its link stays up and is listed where it is.
LEMMA LiveLocal ==
  ASSUME ConnInv, NEW n \in Nodes, NEW l \in Links, Live(<<n, l>>), NEW y \in Conns, NEW w,
         w \in {"shut", "revoke", "wake", "greeted", "answer", "reply", "done"},
         conn' = [conn EXCEPT ![<<n, l>>] = y], y.life = "live",
         y.queue = conn[<<n, l>>].queue, y.out = conn[<<n, l>>].out,
         y.thread = conn[<<n, l>>].thread, y.blocked = conn[<<n, l>>].blocked,
         y.ops \subseteq conn[<<n, l>>].ops, "send" \in conn[<<n, l>>].ops => "send" \in y.ops,
         y.state = conn[<<n, l>>].state \/ y.state = "connected",
         w # "wake", w # "revoke", aio[n].link \in {None, l}, aio[n].at # "shut",
         aio' = [aio EXCEPT ![n] = At(w, l)],
         Established(l) => Established(l)', RoleOf(n, l)', SilenceOf(l)', MapOf(n)',
         w \in {"answer", "reply"} => tcp[l].to = n,
         w = "reply" => Established(l)',
         wire' = wire \/ Consumes(n, l),
         map' \in [Nodes -> [Addresses -> Links \cup {None}]],
         \A k \in Nodes : k # n => map'[k] = map[k],
         UNCHANGED <<box, comm, admin, tcp>>
  PROVE  ConnInv'
<1>1. /\ conn' \in [Ends -> Conns] /\ conn'[<<n, l>>] = y
      /\ \A d \in Ends : d # <<n, l>> => conn'[d] = conn[d]
  BY DEF ConnInv, Types, ConnTypes, Ends
<1>2. PICK x \in Actors : /\ x = At(w, l) /\ x.at = w /\ x.link = l /\ w # "idle" /\ l # None
                          /\ x # At("revoke", l) /\ x # At("wake", l)
  BY Places
<1>3. /\ aio' \in [Nodes -> Actors] /\ aio'[n] = x
      /\ \A k \in Nodes : k # n => aio'[k] = aio[k]
  BY <1>2 DEF ConnInv, Types, NodeTypes
<1>4. wire' \in [Ends -> Seq(Messages)]
  BY WireShrinks
<1>5. Types'
  <2>1. \A k \in Nodes : aio'[k].at = "idle" <=> aio'[k].link = None
    BY <1>2, <1>3 DEF ConnInv, Types, NodeTypes
  <2>2. NodeTypes'
    BY <1>3, <2>1 DEF ConnInv, Types, NodeTypes
  <2>. QED
    BY <1>1, <1>4, <2>2 DEF ConnInv, Types, ConnTypes, BoxTypes
<1>6. LinkKept(l) /\ tcp[l].is # "none"
  BY DEF LinkKept, ConnInv, RoleOf
<1>7. /\ LinkOf(l)'
      /\ \A k \in Nodes : k # n => RoleOf(k, l)' /\ CarryOf(k, l)'
      /\ \A m \in Elements(wire'[<<n, l>>]) : Carries(Far(n, l), l, m)'
      /\ \A i, m : Carries(i, l, m) => Carries(i, l, m)'
      /\ \A k \in Nodes, j \in Links : j # l => wire'[<<k, j>>] = wire[<<k, j>>]
  BY <1>1, <1>6, OtherEnd
<1>8. CarryOf(n, l)'
  <2>1. CarryOf(n, l)
    BY DEF ConnInv
  <2>. QED
    BY <1>1, <1>7, <2>1 DEF CarryOf
<1>9. FlightOf(n, l)'
  <2>1. FlightOf(n, l) /\ aio[n] # At("shut", l)
    BY Places DEF ConnInv
  <2>. QED
    BY <1>1, <2>1 DEF FlightOf, Live
<1>10. ListenOf(n, l)'
  BY <1>2, <1>3 DEF ListenOf
<1>11. AioOf(n)'
  BY <1>1, <1>2, <1>3 DEF AioOf
<1>12. Alone(n, l)
  BY <1>1, <1>2, <1>3, <1>6, <1>7 DEF Alone, AioTurns
<1>13. Local(n, l)'
  <2>1. \A k \in Nodes : RoleOf(k, l)' /\ CarryOf(k, l)'
    BY <1>7, <1>8
  <2>. QED
    BY <1>7, <1>9, <1>10, <1>11, <2>1 DEF Local
<1>. QED
  BY <1>5, <1>12, <1>13, EndChanges

\* What is received at one end was sent by the other.
LEMMA GotWasCarried ==
  ASSUME ConnInv, NEW n \in Nodes, NEW l \in Links, wire[<<n, l>>] # <<>>
  PROVE  Got(n, l) \in Messages /\ Got(n, l) \in Elements(wire[<<n, l>>]) /\ Carries(Far(n, l), l, Got(n, l))
<1>1. wire[<<n, l>>] \in Seq(Messages)
  BY DEF ConnInv, Types, ConnTypes, Ends
<1>2. Head(wire[<<n, l>>]) \in Messages /\ Head(wire[<<n, l>>]) \in Elements(wire[<<n, l>>])
  BY <1>1, HeadAndTail
<1>. QED
  BY <1>2 DEF Got, ConnInv, CarryOf

LEMMA AnsweredStep ==
  ASSUME ConnInv, NEW n \in Nodes, NEW l \in Links, Answered(n, l)
  PROVE  ConnInv'
<1>1. /\ Live(<<n, l>>) /\ aio[n].at = "idle" /\ aio[n].link = None /\ aio[n].at # "shut"
      /\ Consumes(n, l) /\ conn[<<n, l>>].state = "initiator" /\ Got(n, l).kind = "welcome"
      /\ UNCHANGED <<box, map, comm, admin, tcp>>
      /\ aio' = [aio EXCEPT ![n] = At("greeted", l)]
  BY DEF Answered, Receives, Enters, IsAnswer, Stays, Consumes, ConnInv, Types, NodeTypes
<1>2. PICK x \in Conns : x = conn[<<n, l>>] /\ conn \in [Ends -> Conns] /\ <<n, l>> \in Ends
  BY DEF ConnInv, Types, ConnTypes, Ends
<1>3. RoleOf(n, l) /\ LinkOf(l) /\ SilenceOf(l) /\ MapOf(n)
  BY DEF ConnInv
<1>4. tcp[l].is # "none" /\ Connects(n, l) /\ tcp[l].to \in Nodes /\ tcp[l].from # tcp[l].to
  BY <1>1, <1>3 DEF RoleOf, Listens, LinkOf
<1>5. Got(n, l).who = tcp[l].to /\ Established(l)
  BY <1>1, <1>4, GotWasCarried DEF Consumes, Carries, Far, Connects
<1>6. PICK y \in Conns : y = [x EXCEPT !.ops = x.ops \ {"recv"}, !.state = "connected"]
  BY DEF Conns
<1>7. x.addr = tcp[l].to /\ x.addr = Got(n, l).who
  BY <1>2, <1>4, <1>5 DEF Connects
<1>8. conn' = [conn EXCEPT ![<<n, l>>] = y]
  <2>1. [x EXCEPT !.ops = x.ops \ {"recv"}, !.state = "connected", !.addr = Got(n, l).who] = y
    BY <1>6, <1>7 DEF Conns
  <2>. QED
    BY <1>2, <2>1 DEF Answered, Silent
<1>9. /\ y.life = x.life /\ y.addr = x.addr /\ y.blocked = x.blocked /\ y.out = x.out
      /\ y.queue = x.queue /\ y.thread = x.thread /\ y.ops = x.ops \ {"recv"}
      /\ y.state = "connected"
  BY <1>6 DEF Conns
<1>10. conn'[<<n, l>>] = y /\ \A d \in Ends : d # <<n, l>> => conn'[d] = conn[d]
  BY <1>2, <1>8
<1>11. Established(l)'
  BY <1>1, <1>4, <1>5, <1>9, <1>10 DEF Established, Connects, Ends
<1>12. SilenceOf(l)'
  BY <1>11 DEF SilenceOf
<1>13. RoleOf(n, l)'
  BY <1>1, <1>2, <1>4, <1>9, <1>10 DEF RoleOf, Connects, Live
<1>14. MapOf(n)'
  <2>1. \A j \in Links : /\ Live(<<n, j>>)' <=> Live(<<n, j>>)
                         /\ conn'[<<n, j>>].addr = conn[<<n, j>>].addr
    BY <1>2, <1>9, <1>10 DEF Live, Ends
  <2>2. comm[n].at # "idle" => comm[n].link \in Links
    BY DEF ConnInv, Types, NodeTypes
  <2>. QED
    BY <1>1, <1>3, <2>1, <2>2 DEF MapOf
<1>15. map' \in [Nodes -> [Addresses -> Links \cup {None}]] /\ \A k \in Nodes : k # n => map'[k] = map[k]
  BY <1>1 DEF ConnInv, Types, NodeTypes
<1>16. /\ y.life = "live" /\ y.ops \subseteq conn[<<n, l>>].ops
       /\ "send" \in conn[<<n, l>>].ops => "send" \in y.ops
  BY <1>1, <1>2, <1>9 DEF Live
<1>. QED
  BY <1>1, <1>2, <1>8, <1>9, <1>11, <1>12, <1>13, <1>14, <1>15, <1>16, LiveLocal

LEMMA AnswersStep ==
  ASSUME ConnInv, NEW n \in Nodes, Answers(n)
  PROVE  ConnInv'
<1>1. PICK l \in Links : l = aio[n].link /\ Inside(n, "answer")
  BY DEF Answers, Inside, ConnInv, Types, NodeTypes, Actors
<1>2. /\ Live(<<n, l>>) /\ aio[n].at = "answer" /\ aio[n].at # "shut"
      /\ UNCHANGED <<box, map, comm, admin, tcp, wire>>
      /\ aio' = [aio EXCEPT ![n] = At("reply", l)]
  BY <1>1 DEF Answers, Inside, Stays
<1>3. PICK x \in Conns : x = conn[<<n, l>>] /\ conn \in [Ends -> Conns] /\ <<n, l>> \in Ends
  BY DEF ConnInv, Types, ConnTypes, Ends
<1>4. RoleOf(n, l) /\ LinkOf(l) /\ MapOf(n) /\ AioOf(n)
  BY DEF ConnInv
<1>5. tcp[l].is # "none" /\ tcp[l].to = n /\ tcp[l].from # tcp[l].to
  BY <1>1, <1>2, <1>4 DEF RoleOf, LinkOf, AioOf
<1>6. PICK y \in Conns : y = [x EXCEPT !.state = "connected"]
  BY DEF Conns
<1>7. conn' = [conn EXCEPT ![<<n, l>>] = y]
  BY <1>1, <1>3, <1>6 DEF Answers
<1>8. /\ y.life = x.life /\ y.addr = x.addr /\ y.blocked = x.blocked /\ y.out = x.out
      /\ y.queue = x.queue /\ y.thread = x.thread /\ y.ops = x.ops
      /\ y.state = "connected"
  BY <1>6 DEF Conns
<1>9. conn'[<<n, l>>] = y /\ \A d \in Ends : d # <<n, l>> => conn'[d] = conn[d]
  BY <1>3, <1>7
<1>10. Established(l)'
  BY <1>2, <1>5, <1>8, <1>9 DEF Established
<1>11. SilenceOf(l)'
  BY <1>10 DEF SilenceOf
<1>12. RoleOf(n, l)'
  BY <1>2, <1>3, <1>4, <1>5, <1>8, <1>9 DEF RoleOf, Connects, Listens, Live
<1>13. MapOf(n)'
  <2>1. \A j \in Links : /\ Live(<<n, j>>)' <=> Live(<<n, j>>)
                         /\ conn'[<<n, j>>].addr = conn[<<n, j>>].addr
    BY <1>3, <1>8, <1>9 DEF Live, Ends
  <2>2. comm[n].at # "idle" => comm[n].link \in Links
    BY DEF ConnInv, Types, NodeTypes
  <2>. QED
    BY <1>2, <1>4, <2>1, <2>2 DEF MapOf
<1>14. map' \in [Nodes -> [Addresses -> Links \cup {None}]] /\ \A k \in Nodes : k # n => map'[k] = map[k]
  BY <1>2 DEF ConnInv, Types, NodeTypes
<1>15. /\ y.life = "live" /\ y.ops \subseteq conn[<<n, l>>].ops
       /\ "send" \in conn[<<n, l>>].ops => "send" \in y.ops
  BY <1>2, <1>3, <1>8 DEF Live
<1>. QED
  BY <1>1, <1>2, <1>3, <1>5, <1>7, <1>8, <1>10, <1>11, <1>12, <1>13, <1>14, <1>15, LiveLocal

LEMMA ReaddressStep ==
  ASSUME ConnInv, NEW n \in Nodes, NEW l \in Links, Readdress(n, l)
  PROVE  ConnInv'
<1>1. PICK w \in {"answer", "shut"} :
      /\ w = IF Got(n, l).kind = "hello" THEN "answer" ELSE "shut"
      /\ Live(<<n, l>>) /\ aio[n].at = "idle" /\ aio[n].link = None /\ aio[n].at # "shut"
      /\ Consumes(n, l) /\ conn[<<n, l>>].state = "receiver"
      /\ Got(n, l).kind \in {"hello", "welcome"}
      /\ UNCHANGED <<box, comm, admin, tcp>>
      /\ aio' = [aio EXCEPT ![n] = At(w, l)]
  BY DEF Readdress, Receives, Enters, IsGreeting, Stays, Consumes, ConnInv, Types, NodeTypes
<1>2. PICK x \in Conns : x = conn[<<n, l>>] /\ conn \in [Ends -> Conns] /\ <<n, l>> \in Ends
  BY DEF ConnInv, Types, ConnTypes, Ends
<1>3. RoleOf(n, l) /\ LinkOf(l) /\ SilenceOf(l) /\ MapOf(n)
  BY DEF ConnInv
<1>4. /\ tcp[l].is # "none" /\ Listens(n, l) /\ tcp[l].from \in Nodes /\ tcp[l].from # tcp[l].to
      /\ n = tcp[l].to
  BY <1>1, <1>3 DEF RoleOf, Connects, Listens, LinkOf
<1>5. PICK a \in Nodes : a = Got(n, l).who
  BY <1>1, <1>4, GotWasCarried DEF Consumes, Carries, Far
<1>6. PICK b \in Nodes \cup {l} : b = x.addr
  BY <1>2, <1>4 DEF Listens
<1>7. PICK s \in Links \cup {None} : s = Got(n, l).session
  BY <1>1, GotWasCarried DEF Consumes, Messages
<1>8. PICK y \in Conns : y = [x EXCEPT !.ops = x.ops \ {"recv"}, !.addr = a, !.session = s]
  BY DEF Conns, Addresses
<1>9. conn' = [conn EXCEPT ![<<n, l>>] = y]
  BY <1>2, <1>5, <1>7, <1>8 DEF Readdress, Silent
<1>10. /\ y.life = x.life /\ y.addr = a /\ y.blocked = x.blocked /\ y.out = x.out
       /\ y.queue = x.queue /\ y.thread = x.thread /\ y.ops = x.ops \ {"recv"}
       /\ y.state = x.state
  BY <1>8 DEF Conns
<1>11. conn'[<<n, l>>] = y /\ \A d \in Ends : d # <<n, l>> => conn'[d] = conn[d]
  BY <1>2, <1>9
<1>12. \A k \in Nodes : /\ conn'[<<k, l>>].state = conn[<<k, l>>].state
                        /\ conn'[<<k, l>>].life = conn[<<k, l>>].life
                        /\ conn'[<<k, l>>].out = conn[<<k, l>>].out
  BY <1>2, <1>10, <1>11 DEF Ends
<1>13. Established(l)' <=> Established(l)
  BY <1>1, <1>4, <1>12 DEF Established
<1>14. SilenceOf(l)'
  <2>1. LinkKept(l)
    BY <1>1 DEF LinkKept
  <2>2. \A k \in Nodes : Elements(wire'[<<k, l>>]) \subseteq Elements(wire[<<k, l>>])
    BY <1>1, <1>4, <1>11, <1>13, <2>1, OtherEnd
  <2>. QED
    BY <1>1, <1>3, <1>4, <1>12, <1>13, <2>2 DEF SilenceOf
<1>15. RoleOf(n, l)'
  BY <1>1, <1>2, <1>4, <1>10, <1>11 DEF RoleOf, Listens, Live
<1>16. /\ map[n] \in [Addresses -> Links \cup {None}]
       /\ map[n][a] = None /\ map' = [map EXCEPT ![n][b] = None, ![n][a] = l]
  BY <1>2, <1>5, <1>6 DEF Readdress, ConnInv, Types, NodeTypes
<1>17. /\ map' \in [Nodes -> [Addresses -> Links \cup {None}]]
       /\ \A k \in Nodes : k # n => map'[k] = map[k]
       /\ map'[n][a] = l
       /\ \A e \in Addresses : e # a => map'[n][e] = IF e = b THEN None ELSE map[n][e]
  BY <1>16 DEF ConnInv, Types, NodeTypes, Addresses
<1>18. MapOf(n)'
  <2>1. \A j \in Links : /\ Live(<<n, j>>)' <=> Live(<<n, j>>)
                         /\ j # l => conn'[<<n, j>>].addr = conn[<<n, j>>].addr
    BY <1>2, <1>10, <1>11 DEF Live, Ends
  <2>2. comm[n].at # "idle" => comm[n].link \in Links /\ comm[n].link # l
    BY <1>3, <1>4 DEF MapOf, ConnInv, Types, NodeTypes
  <2>3. map[n][b] = l
    BY <1>1, <1>2, <1>3, <1>6, <2>2 DEF MapOf
  <2>4. ASSUME NEW e \in Addresses, NEW j \in Links, map'[n][e] = j
        PROVE  Live(<<n, j>>)' /\ conn'[<<n, j>>].addr = e
    <3>1. CASE e = a
      BY <1>1, <1>10, <1>11, <1>17, <2>1, <2>4, <3>1
    <3>2. CASE e # a
      <4>1. e # b /\ map[n][e] = j
        BY <1>17, <2>4, <3>2, NodesAssumption
      <4>2. Live(<<n, j>>) /\ conn[<<n, j>>].addr = e
        BY <1>3, <4>1 DEF MapOf
      <4>3. j # l
        BY <1>2, <1>6, <4>1, <4>2
      <4>. QED
        BY <2>1, <4>2, <4>3
    <3>. QED
      BY <3>1, <3>2
  <2>5. ASSUME NEW j \in Links, Live(<<n, j>>)'
        PROVE  \/ map'[n][conn'[<<n, j>>].addr] = j
               \/ comm[n].at = "add" /\ comm[n].link = j
    <3>1. CASE j = l
      BY <1>10, <1>11, <1>17, <3>1
    <3>2. CASE j # l /\ ~(comm[n].at = "add" /\ comm[n].link = j)
      <4>1. map[n][conn[<<n, j>>].addr] = j /\ RoleOf(n, j) /\ LinkOf(j) /\ Live(<<n, j>>)
        BY <1>3, <2>1, <2>5, <3>2 DEF MapOf, ConnInv
      <4>2. conn[<<n, j>>].addr \in Addresses
        BY <4>1 DEF RoleOf, Connects, Listens, LinkOf, Addresses
      <4>3. conn[<<n, j>>].addr # a /\ conn[<<n, j>>].addr # b
        BY <1>16, <2>3, <3>2, <4>1, NodesAssumption
      <4>. QED
        BY <1>17, <2>1, <3>2, <4>1, <4>2, <4>3
    <3>. QED
      BY <3>1, <3>2
  <2>6. comm[n].at = "add" => \A e \in Addresses : map'[n][e] # comm[n].link
    BY <1>3, <1>17, <2>2, NodesAssumption DEF MapOf
  <2>. QED
    BY <1>1, <1>3, <2>1, <2>2, <2>4, <2>5, <2>6 DEF MapOf
<1>19. /\ y.life = "live" /\ y.ops \subseteq conn[<<n, l>>].ops
       /\ "send" \in conn[<<n, l>>].ops => "send" \in y.ops
  BY <1>1, <1>2, <1>10 DEF Live
<1>. QED
  BY <1>1, <1>2, <1>4, <1>9, <1>10, <1>13, <1>14, <1>15, <1>17, <1>18, <1>19, LiveLocal, ZenonT(40)

\* The two ends of a link.
LEMMA FarIsOther ==
  ASSUME ConnInv, NEW n \in Nodes, NEW l \in Links, Live(<<n, l>>)
  PROVE  /\ tcp[l].is # "none" /\ tcp[l].from \in Nodes /\ tcp[l].to \in Nodes
         /\ n \in {tcp[l].from, tcp[l].to} /\ tcp[l].from # tcp[l].to
         /\ Far(n, l) \in Nodes /\ Far(n, l) # n /\ Far(Far(n, l), l) = n
<1>1. RoleOf(n, l) /\ LinkOf(l)
  BY DEF ConnInv
<1>. QED
  BY <1>1 DEF RoleOf, LinkOf, Connects, Listens, Far

LEMMA OnSendStep ==
  ASSUME ConnInv, NEW n \in Nodes, NEW l \in Links, OnSend(n, l)
  PROVE  ConnInv'
<1>1. /\ Live(<<n, l>>) /\ "send" \in conn[<<n, l>>].ops /\ aio[n].link = None
      /\ FlightOf(n, l) /\ Hears(n, l)
      /\ UNCHANGED <<box, map, comm, admin, tcp>>
  BY EntersIdle DEF OnSend
<1>2. PICK x \in Conns : x = conn[<<n, l>>] /\ conn \in [Ends -> Conns] /\ <<n, l>> \in Ends
  BY DEF ConnInv, Types, ConnTypes, Ends
<1>3. PICK f \in Nodes : f = Far(n, l) /\ f # n /\ Far(f, l) = n /\ FarEnd(n, l) = <<f, l>>
  BY <1>1, FarIsOther DEF Far, FarEnd
<1>4. /\ tcp[l].is # "none" /\ tcp[l].from \in Nodes /\ tcp[l].to \in Nodes
      /\ n \in {tcp[l].from, tcp[l].to} /\ tcp[l].from # tcp[l].to
  BY <1>1, FarIsOther
<1>5. PICK m \in Messages : m = x.out /\ Carries(n, l, m)
  <2>1. x.out # None /\ x.out \in Messages \cup {None}
    BY <1>1, <1>2 DEF FlightOf, Conns
  <2>. QED
    BY <1>2, <2>1 DEF ConnInv, CarryOf
<1>6. PICK y \in Conns : y = [x EXCEPT !.ops = x.ops \ {"send"}, !.out = None]
  BY DEF Conns
<1>7. conn' = [conn EXCEPT ![<<n, l>>] = y]
  BY <1>2, <1>6 DEF OnSend
<1>8. /\ y.life = x.life /\ y.addr = x.addr /\ y.blocked = x.blocked /\ y.out = None
      /\ y.queue = x.queue /\ y.thread = x.thread /\ y.ops = x.ops \ {"send"}
      /\ y.state = x.state
  BY <1>6 DEF Conns
<1>9. /\ conn' \in [Ends -> Conns] /\ conn'[<<n, l>>] = y
      /\ \A d \in Ends : d # <<n, l>> => conn'[d] = conn[d]
  BY <1>2, <1>7
<1>10. PICK s \in Seq(Messages) : /\ s = wire[<<f, l>>] /\ wire \in [Ends -> Seq(Messages)]
                                  /\ <<f, l>> \in Ends
  BY DEF ConnInv, Types, ConnTypes, Ends
<1>11. Append(s, m) \in Seq(Messages) /\ Elements(Append(s, m)) = Elements(s) \cup {m}
  BY ListGrows
<1>12. PICK t \in Seq(Messages) : /\ t \in {s, Append(s, m)}
                                  /\ wire' = [wire EXCEPT ![<<f, l>>] = t]
  BY <1>2, <1>3, <1>5, <1>10, <1>11 DEF OnSend
<1>13. /\ wire' \in [Ends -> Seq(Messages)] /\ wire'[<<f, l>>] = t
       /\ \A d \in Ends : d # <<f, l>> => wire'[d] = wire[d]
       /\ Elements(t) \subseteq Elements(s) \cup {m}
  BY <1>10, <1>11, <1>12
<1>14. PICK w \in Actors : /\ w = At("wake", l) /\ w.at = "wake" /\ w.link = l /\ l # None
                           /\ w # At("revoke", l) /\ w # At("shut", l)
  BY Places
<1>15. /\ aio' = [aio EXCEPT ![n] = w] /\ aio' \in [Nodes -> Actors] /\ aio'[n] = w
       /\ \A k \in Nodes : k # n => aio'[k] = aio[k]
  BY <1>14 DEF OnSend, Stays, ConnInv, Types, NodeTypes
<1>16. Types'
  <2>1. \A k \in Nodes : aio'[k].at = "idle" <=> aio'[k].link = None
    BY <1>14, <1>15 DEF ConnInv, Types, NodeTypes
  <2>2. NodeTypes'
    BY <1>1, <1>15, <2>1 DEF ConnInv, Types, NodeTypes
  <2>. QED
    BY <1>1, <1>9, <1>13, <2>2 DEF ConnInv, Types, ConnTypes, BoxTypes
<1>17. \A k \in Nodes : /\ conn'[<<k, l>>].life = conn[<<k, l>>].life
                        /\ conn'[<<k, l>>].state = conn[<<k, l>>].state
                        /\ conn'[<<k, l>>].addr = conn[<<k, l>>].addr
                        /\ conn'[<<k, l>>].queue = conn[<<k, l>>].queue
                        /\ k # n => conn'[<<k, l>>] = conn[<<k, l>>]
  BY <1>2, <1>8, <1>9 DEF Ends
<1>18. \A k \in Nodes : k # f => wire'[<<k, l>>] = wire[<<k, l>>]
  BY <1>13 DEF Ends
<1>19. Established(l)' <=> Established(l)
  BY <1>1, <1>4, <1>17 DEF Established
<1>20. LinkKept(l) /\ LinkOf(l)'
  BY <1>1, <1>4 DEF LinkKept, LinkOf
<1>21. Alone(n, l)
  <2>1. \A k \in Nodes, j \in Links : j # l => wire'[<<k, j>>] = wire[<<k, j>>]
    BY <1>13 DEF Ends
  <2>2. AioTurns(n, l)
    BY <1>1, <1>14, <1>15 DEF AioTurns
  <2>. QED
    BY <1>1, <1>9, <1>19, <1>20, <2>1, <2>2 DEF Alone
<1>22. \A k \in Nodes : RoleOf(k, l)'
  <2>. SUFFICES ASSUME NEW k \in Nodes PROVE RoleOf(k, l)'
    OBVIOUS
  <2>1. RoleOf(k, l)
    BY DEF ConnInv
  <2>2. CASE k = n
    BY <1>1, <1>17, <2>1, <2>2 DEF RoleOf, Connects, Listens, Live
  <2>3. CASE k # n
    BY <1>1, <1>17, <2>1, <2>3 DEF RoleOf, Connects, Listens, Live
  <2>. QED
    BY <2>2, <2>3
<1>23. \A k \in Nodes : CarryOf(k, l)'
  <2>. SUFFICES ASSUME NEW k \in Nodes PROVE CarryOf(k, l)'
    OBVIOUS
  <2>1. CarryOf(k, l)
    BY DEF ConnInv
  <2>2. /\ \A i, q : Carries(i, l, q) => Carries(i, l, q)'
        /\ \A i : Far(i, l)' = Far(i, l)
    BY <1>4, <1>19, <1>20, CarriesOn
  <2>3. \A q \in Elements(wire'[<<k, l>>]) : Carries(Far(k, l), l, q)
    <3>1. CASE k = f
      BY <1>3, <1>5, <1>10, <1>13, <2>1, <3>1 DEF CarryOf
    <3>2. CASE k # f
      BY <1>18, <2>1, <3>2 DEF CarryOf
    <3>. QED
      BY <3>1, <3>2
  <2>4. \A q \in Elements(wire'[<<k, l>>]) : Carries(Far(k, l), l, q)'
    <3>1. PICK g : g = Far(k, l)
      OBVIOUS
    <3>2. \A q \in Elements(wire'[<<k, l>>]) : Carries(g, l, q)'
      BY <2>2, <2>3, <3>1
    <3>. QED
      BY <2>2, <3>1, <3>2 DEF Carries
  <2>5. conn'[<<k, l>>].out \in {None, conn[<<k, l>>].out}
    BY <1>2, <1>8, <1>9, <1>17
  <2>. QED
    BY <1>17, <2>1, <2>2, <2>4, <2>5 DEF CarryOf
<1>24. SilenceOf(l)'
  <2>. SUFFICES ASSUME ~Established(l) PROVE SilenceOf(l)'
    BY <1>19 DEF SilenceOf
  <2>1. SilenceOf(l)
    BY DEF ConnInv
  <2>2. CASE n = tcp[l].from
    <3>1. m.kind = "hello" /\ f = tcp[l].to
      BY <1>2, <1>3, <1>4, <1>5, <2>1, <2>2, NoneAssumption DEF SilenceOf, Far
    <3>. QED
      BY <1>1, <1>8, <1>9, <1>10, <1>13, <1>17, <2>1, <2>2, <3>1 DEF SilenceOf
  <2>3. CASE n # tcp[l].from
    <3>1. f = tcp[l].from
      BY <1>3, <1>4, <2>3 DEF Far
    <3>. QED
      BY <1>1, <1>4, <1>17, <1>18, <2>1, <2>3, <3>1 DEF SilenceOf
  <2>. QED
    BY <2>2, <2>3
<1>25. FlightOf(n, l)'
  BY <1>1, <1>2, <1>8, <1>9 DEF FlightOf, Live
<1>26. ListenOf(n, l)'
  BY <1>1, <1>2, <1>8, <1>9, <1>14, <1>15 DEF ListenOf, Hears
<1>27. AioOf(n)'
  BY <1>1, <1>14, <1>15, <1>17 DEF AioOf, Live
<1>28. MapOf(n)'
  <2>1. \A j \in Links : /\ Live(<<n, j>>)' <=> Live(<<n, j>>)
                         /\ conn'[<<n, j>>].addr = conn[<<n, j>>].addr
    BY <1>2, <1>8, <1>9 DEF Live, Ends
  <2>2. MapOf(n) /\ (comm[n].at # "idle" => comm[n].link \in Links)
    BY DEF ConnInv, Types, NodeTypes
  <2>. QED
    BY <1>1, <2>1, <2>2 DEF MapOf
<1>. QED
  BY <1>16, <1>20, <1>21, <1>22, <1>23, <1>24, <1>25, <1>26, <1>27, <1>28, EndChanges DEF Local

-----------------------------------------------------------------------------
(* Steps that delete a connection.                                         *)

LEMMA NoConnIs ==
  /\ NoConn \in Conns /\ NoConn.life = "none" /\ NoConn.state = "none" /\ NoConn.out = None
  /\ NoConn.queue = Queue!Clear /\ NoConn.ops = {} /\ NoConn.thread = "asleep"
  /\ NoConn.blocked = FALSE /\ NoConn.addr = None
<1>1. PICK q \in Queues : q = Queue!Clear
  BY ClearHolds
<1>2. NoConn = [life |-> "none", state |-> "none", blocked |-> FALSE, addr |-> None, session |-> None,
                queue |-> q, out |-> None, ops |-> {}, bell |-> FALSE, thread |-> "asleep"]
  BY <1>1 DEF NoConn
<1>. QED
  BY <1>1, <1>2 DEF Conns

LEMMA DeletedIs ==
  ASSUME NEW c \in Ends, conn[c] \in Conns
  PROVE  \E y \in Conns :
           /\ y = Deleted(c) /\ y.life = "deleted" /\ y.state = "none" /\ y.out = None
           /\ \A p \in 0 .. 2 : Elements(y.queue[p]) = {}
<1>1. PICK t : t = conn[c].thread /\ t \in {"asleep", "job", "shut", "revoke"}
  BY DEF Conns
<1>2. PICK z \in Conns : z = NoConn /\ z.queue = Queue!Clear /\ z.state = "none" /\ z.out = None
  BY NoConnIs
<1>3. [z EXCEPT !.life = "deleted", !.thread = t] \in Conns
  BY <1>1, ZenonT(40) DEF Conns
<1>4. PICK y \in Conns : y = [z EXCEPT !.life = "deleted", !.thread = t]
  BY <1>3
<1>5. y = Deleted(c)
  BY <1>1, <1>2, <1>4 DEF Deleted
<1>6. y.life = "deleted" /\ y.state = "none" /\ y.out = None /\ y.queue = Queue!Clear
  BY <1>2, <1>4 DEF Conns
<1>. QED
  BY <1>5, <1>6, ClearHolds

LEMMA EndDies ==
  ASSUME ConnInv, NEW n \in Nodes, NEW l \in Links, Live(<<n, l>>),
         conn' = [conn EXCEPT ![<<n, l>>] = Deleted(<<n, l>>)], tcp' = Down(l),
         wire' = wire \/ Consumes(n, l),
         \A k \in Nodes : k # n => map'[k] = map[k] /\ comm'[k] = comm[k],
         \A b \in Addresses : map'[n][b] = IF map[n][b] = l THEN None ELSE map[n][b],
         \/ comm'[n] = comm[n] /\ (comm[n].at # "idle" => comm[n].link # l)
         \/ comm'[n].at = "idle" /\ comm[n].link = l,
         \/ aio' = aio
         \/ aio[n].link = None /\ aio' = [aio EXCEPT ![n] = At("shut", l)],
         BoxTypes', NodeTypes'
  PROVE  ConnInv'
<1>1. PICK x \in Conns : x = conn[<<n, l>>] /\ conn \in [Ends -> Conns] /\ <<n, l>> \in Ends
  BY DEF ConnInv, Types, ConnTypes, Ends
<1>2. PICK y \in Conns :
        /\ y = Deleted(<<n, l>>) /\ y.life = "deleted" /\ y.state = "none" /\ y.out = None
        /\ \A p \in 0 .. 2 : Elements(y.queue[p]) = {}
  BY <1>1, DeletedIs
<1>3. conn' = [conn EXCEPT ![<<n, l>>] = y]
  BY <1>2
<1>4. /\ conn' \in [Ends -> Conns] /\ conn'[<<n, l>>] = y
      /\ \A d \in Ends : d # <<n, l>> => conn'[d] = conn[d]
  BY <1>1, <1>3
<1>5. /\ tcp[l].is # "none" /\ tcp[l].from \in Nodes /\ tcp[l].to \in Nodes
      /\ n \in {tcp[l].from, tcp[l].to} /\ tcp[l].from # tcp[l].to
  BY FarIsOther
<1>6. /\ tcp' \in [Links -> [is : {"none", "up", "down"}, from : Nodes \cup {None}, to : Nodes \cup {None}]]
      /\ tcp'[l].is # "none" /\ tcp'[l].from = tcp[l].from /\ tcp'[l].to = tcp[l].to
      /\ \A j \in Links : j # l => tcp'[j] = tcp[j]
  BY DEF Down, ConnInv, Types, ConnTypes
<1>7. Types'
  <2>1. wire' \in [Ends -> Seq(Messages)]
    BY WireShrinks
  <2>. QED
    BY <1>4, <1>6, <2>1 DEF Types, ConnTypes
<1>8. LinkKept(l)
  BY <1>6 DEF LinkKept
<1>9. \A k \in Nodes : k # n => conn'[<<k, l>>] = conn[<<k, l>>]
  BY <1>4 DEF Ends
<1>10. /\ Established(l) => Established(l)'
       /\ Established(l)' /\ n = tcp[l].from => Established(l)
  BY <1>2, <1>4, <1>5, <1>6, <1>9 DEF Established
<1>11. n = tcp[l].to => Established(l)'
  BY <1>2, <1>4, <1>5, <1>6 DEF Established
<1>12. /\ LinkOf(l)'
       /\ \A k \in Nodes : k # n => RoleOf(k, l)' /\ CarryOf(k, l)'
       /\ \A m \in Elements(wire'[<<n, l>>]) : Carries(Far(n, l), l, m)'
       /\ \A i, m : Carries(i, l, m) => Carries(i, l, m)'
       /\ \A k \in Nodes : Elements(wire'[<<k, l>>]) \subseteq Elements(wire[<<k, l>>])
       /\ \A k \in Nodes, j \in Links : j # l => wire'[<<k, j>>] = wire[<<k, j>>]
  <2>1. /\ tcp[l].is # "none" /\ (Established(l) => Established(l)')
        /\ \A d \in Ends : d # <<n, l>> => conn'[d] = conn[d]
    BY <1>4, <1>5, <1>10
  <2>. QED
    BY <1>8, <2>1, OtherEnd
<1>13. RoleOf(n, l)' /\ CarryOf(n, l)'
  <2>1. CarryOf(n, l)'
    BY <1>2, <1>4, <1>12 DEF CarryOf
  <2>2. RoleOf(n, l)'
    BY <1>2, <1>4 DEF RoleOf, Live
  <2>. QED
    BY <2>1, <2>2
<1>14. SilenceOf(l)'
  <2>. SUFFICES ASSUME ~Established(l)' PROVE SilenceOf(l)'
    BY DEF SilenceOf
  <2>1. n = tcp[l].from /\ ~Established(l) /\ SilenceOf(l)
    BY <1>5, <1>10, <1>11 DEF ConnInv
  <2>. QED
    BY <1>2, <1>4, <1>5, <1>6, <1>12, <2>1 DEF SilenceOf
<1>15. FlightOf(n, l)' /\ ListenOf(n, l)'
  BY <1>2, <1>4 DEF FlightOf, ListenOf, Live
<1>16. /\ \A k \in Nodes : k # n => aio'[k] = aio[k]
       /\ aio'[n] = aio[n] \/ (aio[n].link = None /\ aio'[n].at = "shut" /\ aio'[n].link = l)
  BY DEF At, ConnInv, Types, NodeTypes
<1>17. Alone(n, l)
  BY <1>4, <1>6, <1>8, <1>10, <1>12, <1>16 DEF Alone, AioTurns
<1>18. AioOf(n)'
  <2>. SUFFICES ASSUME aio'[n] = aio[n], aio[n].at # "idle" PROVE AioOf(n)'
    BY <1>2, <1>4, <1>16 DEF AioOf
  <2>1. PICK j \in Links : j = aio[n].link
    BY InsideIs
  <2>2. AioOf(n) /\ LinkOf(j)
    BY DEF ConnInv
  <2>3. CASE j = l
    BY <1>2, <1>4, <1>6, <1>10, <2>1, <2>2, <2>3 DEF AioOf
  <2>4. CASE j # l
    <3>1. conn'[<<n, j>>] = conn[<<n, j>>] /\ tcp'[j] = tcp[j]
      BY <1>4, <1>6, <2>4 DEF Ends
    <3>2. tcp[j].is # "none" /\ tcp[j].to \in Nodes
      BY <2>1, <2>2 DEF AioOf, LinkOf, NoConn
    <3>3. Established(j)' <=> Established(j)
      BY <1>4, <1>6, <2>4, <3>2 DEF Established, Ends
    <3>. QED
      BY <2>1, <2>2, <3>1, <3>3 DEF AioOf
  <2>. QED
    BY <2>3, <2>4
<1>19. MapOf(n)'
  <2>1. /\ \A j \in Links : j # l => /\ Live(<<n, j>>)' <=> Live(<<n, j>>)
                                     /\ conn'[<<n, j>>].addr = conn[<<n, j>>].addr
                                     /\ tcp'[j] = tcp[j]
        /\ ~Live(<<n, l>>)'
    BY <1>2, <1>4, <1>6 DEF Live, Ends
  <2>2. /\ MapOf(n) /\ (comm[n].at # "idle" => comm[n].link \in Links)
        /\ map[n] \in [Addresses -> Links \cup {None}]
    BY DEF ConnInv, Types, NodeTypes
  <2>3. ASSUME NEW e \in Addresses, NEW j \in Links, map'[n][e] = j
        PROVE  Live(<<n, j>>)' /\ conn'[<<n, j>>].addr = e
    <3>1. map[n][e] = j /\ j # l
      BY <2>2, <2>3, NodesAssumption
    <3>. QED
      BY <2>1, <2>2, <3>1 DEF MapOf
  <2>4. ASSUME NEW j \in Links, Live(<<n, j>>)'
        PROVE  \/ map'[n][conn'[<<n, j>>].addr] = j
               \/ comm'[n].at = "add" /\ comm'[n].link = j
    <3>1. j # l /\ Live(<<n, j>>)
      BY <2>1, <2>4
    <3>2. RoleOf(n, j) /\ LinkOf(j)
      BY DEF ConnInv
    <3>3. conn[<<n, j>>].addr \in Addresses
      BY <3>1, <3>2 DEF RoleOf, Connects, Listens, LinkOf, Addresses
    <3>4. CASE map[n][conn[<<n, j>>].addr] = j
      BY <2>1, <3>1, <3>3, <3>4
    <3>5. CASE comm[n].at = "add" /\ comm[n].link = j
      BY <3>1, <3>5
    <3>. QED
      BY <2>2, <3>1, <3>4, <3>5 DEF MapOf
  <2>5. ASSUME comm'[n].at # "idle"
        PROVE  \E j \in Links :
                 /\ comm'[n].link = j /\ Live(<<n, j>>)' /\ tcp'[j].from = n
                 /\ comm'[n].at = "add" => \A e \in Addresses : map'[n][e] # j
    <3>1. PICK j \in Links : /\ j = comm[n].link /\ comm'[n] = comm[n] /\ j # l
                             /\ comm[n].at # "idle"
      BY <2>2, <2>5
    <3>2. /\ Live(<<n, j>>) /\ tcp[j].from = n
          /\ comm[n].at = "add" => \A e \in Addresses : map[n][e] # j
      BY <2>2, <3>1 DEF MapOf
    <3>3. Live(<<n, j>>)' /\ tcp'[j].from = n
      BY <2>1, <3>1, <3>2
    <3>4. comm[n].at = "add" => \A e \in Addresses : map'[n][e] # j
      BY <3>2, NodesAssumption
    <3>. QED
      BY <3>1, <3>3, <3>4
  <2>6. comm'[n].at # "idle" =>
          /\ conn'[<<n, comm'[n].link>>].life = "live" /\ tcp'[comm'[n].link].from = n
          /\ comm'[n].at = "add" => \A e \in Addresses : map'[n][e] # comm'[n].link
    BY <2>5 DEF Live
  <2>. QED
    BY <2>3, <2>4, <2>6 DEF MapOf, Live
<1>. QED
  BY <1>7, <1>12, <1>13, <1>14, <1>15, <1>17, <1>18, <1>19, EndChanges DEF Local

LEMMA CommCloseStep ==
  ASSUME ConnInv, NEW n \in Nodes, CommClose(n)
  PROVE  ConnInv'
<1>1. CommFree(n) /\ Taken(n) /\ UNCHANGED <<comm, aio, admin, wire>>
  BY DEF CommClose
<1>2. BoxTypes' /\ Taking(n) \in Messages /\ comm[n].at = "idle"
  BY <1>1, BoxIsTaken
<1>3. PICK a \in Addresses : a = Taking(n).who
  BY <1>2 DEF Messages, Addresses
<1>4. /\ map \in [Nodes -> [Addresses -> Links \cup {None}]]
      /\ MapOf(n)
  BY DEF ConnInv, Types, NodeTypes
<1>5. CASE map[n][a] = None
  <2>1. UNCHANGED <<map, conn, tcp>>
    BY <1>3, <1>5 DEF CommClose
  <2>2. Types'
    BY <1>1, <1>2, <2>1 DEF ConnInv, Types, ConnTypes, NodeTypes
  <2>. QED
    BY <1>1, <2>1, <2>2, NothingMovesAtAll
<1>6. CASE map[n][a] # None
  <2>1. PICK l \in Links : l = map[n][a]
    BY <1>4, <1>6
  <2>2. /\ conn' = [conn EXCEPT ![<<n, l>>] = Deleted(<<n, l>>)]
        /\ tcp' = Down(l) /\ map' = [map EXCEPT ![n][a] = None]
    BY <1>3, <1>6, <2>1 DEF CommClose
  <2>3. Live(<<n, l>>) /\ \A b \in Addresses : map[n][b] = l => b = a
    BY <1>4, <2>1 DEF MapOf
  <2>4. /\ map' \in [Nodes -> [Addresses -> Links \cup {None}]]
        /\ \A k \in Nodes : k # n => map'[k] = map[k]
        /\ \A b \in Addresses : map'[n][b] = IF map[n][b] = l THEN None ELSE map[n][b]
    BY <1>4, <2>1, <2>2, <2>3
  <2>5. NodeTypes'
    BY <1>1, <2>4 DEF ConnInv, Types, NodeTypes
  <2>. QED
    BY <1>1, <1>2, <2>2, <2>3, <2>4, <2>5, EndDies
<1>. QED
  BY <1>5, <1>6

LEMMA CommDuplicateStep ==
  ASSUME ConnInv, NEW n \in Nodes, CommDuplicate(n)
  PROVE  ConnInv'
<1>1. PICK l \in Links : l = comm[n].link
  BY DEF CommDuplicate, ConnInv, Types, NodeTypes
<1>2. /\ Live(<<n, l>>) /\ comm[n].at = "add"
      /\ conn' = [conn EXCEPT ![<<n, l>>] = Deleted(<<n, l>>)] /\ tcp' = Down(l)
      /\ comm' = [comm EXCEPT ![n] = CommIdle] /\ UNCHANGED <<box, map, aio, admin, wire>>
  BY <1>1 DEF CommDuplicate
<1>3. \A b \in Addresses : map[n][b] # l
  BY <1>1, <1>2 DEF MapOf, ConnInv
<1>4. /\ comm' \in [Nodes -> [at : {"idle", "add", "push"}, link : Links \cup {None}, post : Posts \cup {0}]]
      /\ comm'[n].at = "idle" /\ \A k \in Nodes : k # n => comm'[k] = comm[k]
  BY <1>2 DEF CommIdle, ConnInv, Types, NodeTypes
<1>5. NodeTypes' /\ BoxTypes'
  <2>1. \A k \in Nodes : comm'[k].at # "idle" => comm'[k].link \in Links /\ comm'[k].post \in Posts
    BY <1>4 DEF ConnInv, Types, NodeTypes
  <2>. QED
    BY <1>2, <1>4, <2>1 DEF ConnInv, Types, NodeTypes, BoxTypes
<1>6. \A b \in Addresses : map'[n][b] = IF map[n][b] = l THEN None ELSE map[n][b]
  BY <1>2, <1>3
<1>. QED
  BY <1>1, <1>2, <1>4, <1>5, <1>6, EndDies

LEMMA DeletesItselfStep ==
  ASSUME ConnInv, NEW n \in Nodes, NEW l \in Links, DeletesItself(n, l)
  PROVE  ConnInv'
<1>1. /\ Live(<<n, l>>) /\ aio[n].link = None
      /\ Consumes(n, l) /\ conn[<<n, l>>].state = "receiver"
      /\ UNCHANGED <<box, comm, admin>>
      /\ conn' = [conn EXCEPT ![<<n, l>>] = Deleted(<<n, l>>)] /\ tcp' = Down(l)
      /\ aio' = [aio EXCEPT ![n] = At("shut", l)]
  BY EntersIdle DEF DeletesItself, Receives, IsGreeting, Stays, Consumes
<1>2. RoleOf(n, l) /\ LinkOf(l) /\ MapOf(n)
  BY DEF ConnInv
<1>3. n = tcp[l].to /\ tcp[l].from # n /\ conn[<<n, l>>].addr \in Addresses
  BY <1>1, <1>2 DEF RoleOf, Connects, Listens, LinkOf, Addresses
<1>4. comm[n].at # "idle" => comm[n].link # l
  BY <1>2, <1>3 DEF MapOf
<1>5. PICK a \in Addresses : a = conn[<<n, l>>].addr
  BY <1>3
<1>6. map[n][a] = l /\ \A b \in Addresses : map[n][b] = l => b = a
  BY <1>1, <1>2, <1>4, <1>5 DEF MapOf
<1>7. /\ map' = [map EXCEPT ![n][a] = None]
      /\ map \in [Nodes -> [Addresses -> Links \cup {None}]]
  BY <1>5 DEF DeletesItself, ConnInv, Types, NodeTypes
<1>8. /\ map' \in [Nodes -> [Addresses -> Links \cup {None}]]
      /\ \A k \in Nodes : k # n => map'[k] = map[k]
      /\ \A b \in Addresses : map'[n][b] = IF map[n][b] = l THEN None ELSE map[n][b]
  BY <1>6, <1>7
<1>9. /\ aio' \in [Nodes -> Actors]
      /\ \A k \in Nodes : aio'[k].at = "idle" <=> aio'[k].link = None
  BY <1>1, Places DEF ConnInv, Types, NodeTypes
<1>10. NodeTypes' /\ BoxTypes'
  BY <1>1, <1>8, <1>9 DEF ConnInv, Types, NodeTypes, BoxTypes
<1>11. /\ \A k \in Nodes : k # n => map'[k] = map[k] /\ comm'[k] = comm[k]
       /\ comm'[n] = comm[n] /\ (comm[n].at # "idle" => comm[n].link # l)
       /\ wire' = wire \/ Consumes(n, l)
       /\ aio[n].link = None /\ aio' = [aio EXCEPT ![n] = At("shut", l)]
  BY <1>1, <1>4, <1>8
<1>. QED
  BY <1>1, <1>8, <1>10, <1>11, EndDies

-----------------------------------------------------------------------------
(* Steps that make a connection.                                           *)

Fresh(y, s, a, o) ==
  /\ y = NewConn(s, a, {o})
  /\ y.life = "live" /\ y.state = s /\ y.addr = a /\ y.ops = {o} /\ y.out = None
  /\ y.thread = "asleep" /\ y.blocked = FALSE
  /\ \A p \in 0 .. 2 : Elements(y.queue[p]) = {}

LEMMA NewConnIs ==
  ASSUME NEW s \in {"initiator", "receiver"}, NEW a \in Addresses, NEW o \in {"connect", "recv"}
  PROVE  \E y \in Conns : Fresh(y, s, a, o)
<1>1. PICK z \in Conns : /\ z = NoConn /\ z.queue = Queue!Clear /\ z.out = None
                         /\ z.thread = "asleep" /\ z.blocked = FALSE
  BY NoConnIs
<1>2. [z EXCEPT !.life = "live", !.state = s, !.addr = a, !.ops = {o}] \in Conns
  BY DEF Conns
<1>3. PICK y \in Conns : y = [z EXCEPT !.life = "live", !.state = s, !.addr = a, !.ops = {o}]
  BY <1>2
<1>4. y = NewConn(s, a, {o})
  BY <1>1, <1>3 DEF NewConn
<1>5. /\ y.life = "live" /\ y.state = s /\ y.addr = a /\ y.ops = {o} /\ y.out = None
      /\ y.thread = "asleep" /\ y.blocked = FALSE /\ y.queue = Queue!Clear
  BY <1>1, <1>3 DEF Conns
<1>. QED
  BY <1>4, <1>5, ClearHolds DEF Fresh

LEMMA AcceptStep ==
  ASSUME ConnInv, NEW n \in Nodes, NEW l \in Links, Accept(n, l)
  PROVE  ConnInv'
<1>1. /\ aio[n].at = "idle" /\ aio[n].link = None /\ conn[<<n, l>>].life = "none"
      /\ tcp[l].is # "none" /\ tcp[l].to = n
      /\ UNCHANGED <<box, comm, aio, admin, tcp, wire>>
  BY DEF Accept, ConnInv, Types, NodeTypes
<1>2. PICK y \in Conns :
        /\ y = [NewConn("receiver", l, {"recv"}) EXCEPT !.bell = TRUE]
        /\ y.life = "live" /\ y.state = "receiver" /\ y.addr = l /\ y.ops = {"recv"} /\ y.out = None
        /\ y.thread = "asleep" /\ y.blocked = FALSE
        /\ \A p \in 0 .. 2 : Elements(y.queue[p]) = {}
  <2>1. l \in Addresses
    BY DEF Addresses
  <2>2. PICK z \in Conns : Fresh(z, "receiver", l, "recv")
    BY <2>1, NewConnIs
  <2>3. PICK y \in Conns : y = [z EXCEPT !.bell = TRUE]
    BY DEF Conns
  <2>4. /\ y.life = z.life /\ y.state = z.state /\ y.addr = z.addr /\ y.ops = z.ops /\ y.out = z.out
        /\ y.thread = z.thread /\ y.blocked = z.blocked /\ y.queue = z.queue
    BY <2>3 DEF Conns
  <2>. QED
    BY <2>2, <2>3, <2>4 DEF Fresh
<1>3. /\ conn' = [conn EXCEPT ![<<n, l>>] = y] /\ map' = [map EXCEPT ![n][l] = l]
      /\ conn \in [Ends -> Conns] /\ <<n, l>> \in Ends
      /\ map \in [Nodes -> [Addresses -> Links \cup {None}]]
  BY <1>2 DEF Accept, Ends, ConnInv, Types, ConnTypes, NodeTypes
<1>4. /\ conn' \in [Ends -> Conns] /\ conn'[<<n, l>>] = y
      /\ \A d \in Ends : d # <<n, l>> => conn'[d] = conn[d]
      /\ \A k \in Nodes : k # n => conn'[<<k, l>>] = conn[<<k, l>>]
  BY <1>3 DEF Ends
<1>5. /\ map' \in [Nodes -> [Addresses -> Links \cup {None}]]
      /\ \A k \in Nodes : k # n => map'[k] = map[k]
      /\ map'[n][l] = l /\ \A b \in Addresses : b # l => map'[n][b] = map[n][b]
  BY <1>3 DEF Addresses
<1>6. Types'
  BY <1>1, <1>4, <1>5 DEF ConnInv, Types, ConnTypes, BoxTypes, NodeTypes
<1>7. LinkOf(l) /\ SilenceOf(l) /\ RoleOf(n, l) /\ MapOf(n)
  BY DEF ConnInv
<1>8. conn[<<n, l>>].state = "none" /\ tcp[l].from \in Nodes /\ tcp[l].from # n
  BY <1>1, <1>7, NoConnIs DEF RoleOf, LinkOf
<1>9. ~Established(l) /\ ~Established(l)'
  BY <1>1, <1>2, <1>4, <1>8 DEF Established
<1>10. LinkKept(l) /\ LinkOf(l)' /\ SilenceOf(l)'
  BY <1>1, <1>4, <1>7, <1>8, <1>9 DEF LinkKept, LinkOf, SilenceOf
<1>11. \A k \in Nodes : RoleOf(k, l)'
  <2>. SUFFICES ASSUME NEW k \in Nodes PROVE RoleOf(k, l)'
    OBVIOUS
  <2>1. RoleOf(k, l)
    BY DEF ConnInv
  <2>2. CASE k = n
    BY <1>1, <1>2, <1>4, <2>2 DEF RoleOf, Listens, Live
  <2>3. CASE k # n
    BY <1>1, <1>4, <2>1, <2>3 DEF RoleOf, Connects, Listens, Live
  <2>. QED
    BY <2>2, <2>3
<1>12. \A k \in Nodes : CarryOf(k, l)'
  <2>. SUFFICES ASSUME NEW k \in Nodes PROVE CarryOf(k, l)'
    OBVIOUS
  <2>1. CarryOf(k, l)
    BY DEF ConnInv
  <2>2. /\ \A i, m : Carries(i, l, m) <=> Carries(i, l, m)'
        /\ \A i : Far(i, l)' = Far(i, l)
    BY <1>1, <1>9 DEF Carries, Far
  <2>3. CASE k = n
    BY <1>1, <1>2, <1>4, <2>1, <2>2, <2>3, ZenonT(40) DEF CarryOf
  <2>4. CASE k # n
    BY <1>1, <1>4, <2>1, <2>2, <2>4 DEF CarryOf
  <2>. QED
    BY <2>3, <2>4
<1>13. FlightOf(n, l)'
  BY <1>2, <1>4 DEF FlightOf
<1>14. ListenOf(n, l)' /\ AioOf(n)'
  <2>1. aio'[n] # At("wake", l) /\ aio'[n] # At("revoke", l)
    BY <1>1, Places
  <2>2. Hears(n, l)'
    BY <1>2, <1>4 DEF Hears
  <2>. QED
    BY <1>1, <2>1, <2>2 DEF ListenOf, AioOf
<1>15. MapOf(n)'
  <2>1. /\ \A j \in Links : j # l => /\ Live(<<n, j>>)' <=> Live(<<n, j>>)
                                     /\ conn'[<<n, j>>].addr = conn[<<n, j>>].addr
        /\ Live(<<n, l>>)' /\ ~Live(<<n, l>>) /\ conn'[<<n, l>>].addr = l
    BY <1>1, <1>2, <1>4 DEF Live, Ends
  <2>2. comm[n].at # "idle" => comm[n].link \in Links /\ comm[n].link # l
    BY <1>7, <2>1 DEF MapOf, ConnInv, Types, NodeTypes
  <2>3. ASSUME NEW e \in Addresses, NEW j \in Links, map'[n][e] = j
        PROVE  Live(<<n, j>>)' /\ conn'[<<n, j>>].addr = e
    <3>1. CASE e = l
      BY <1>5, <2>1, <2>3, <3>1
    <3>2. CASE e # l
      <4>1. map[n][e] = j
        BY <1>5, <2>3, <3>2
      <4>. QED
        BY <1>7, <2>1, <4>1 DEF MapOf
    <3>. QED
      BY <3>1, <3>2
  <2>4. ASSUME NEW j \in Links, Live(<<n, j>>)'
        PROVE  \/ map'[n][conn'[<<n, j>>].addr] = j
               \/ comm[n].at = "add" /\ comm[n].link = j
    <3>1. CASE j = l
      BY <1>5, <2>1, <3>1
    <3>2. CASE j # l /\ ~(comm[n].at = "add" /\ comm[n].link = j)
      <4>1. map[n][conn[<<n, j>>].addr] = j /\ RoleOf(n, j) /\ LinkOf(j) /\ Live(<<n, j>>)
        BY <1>7, <2>1, <2>4, <3>2 DEF MapOf, ConnInv
      <4>2. conn[<<n, j>>].addr \in Addresses /\ conn[<<n, j>>].addr # l
        BY <3>2, <4>1, NodesAssumption DEF RoleOf, Connects, Listens, LinkOf, Addresses
      <4>. QED
        BY <1>5, <2>1, <3>2, <4>1, <4>2
    <3>. QED
      BY <3>1, <3>2
  <2>5. comm[n].at = "add" => \A e \in Addresses : map'[n][e] # comm[n].link
    BY <1>5, <1>7, <2>2 DEF MapOf
  <2>. QED
    BY <1>1, <1>7, <2>1, <2>2, <2>3, <2>4, <2>5 DEF MapOf
<1>16. Alone(n, l)
  BY <1>1, <1>4, <1>5, <1>9, <1>10 DEF Alone, AioTurns
<1>. QED
  BY <1>6, <1>10, <1>11, <1>12, <1>13, <1>14, <1>15, <1>16, EndChanges DEF Local

LEMMA CommConnectStep ==
  ASSUME ConnInv, NEW n \in Nodes, CommConnect(n)
  PROVE  ConnInv'
<1>1. CommFree(n) /\ Taken(n) /\ IsPost(n) /\ UNCHANGED <<map, aio, admin, wire>>
  BY DEF CommConnect, MustConnect
<1>2. /\ BoxTypes' /\ Taking(n) \in Messages /\ comm[n].at = "idle"
      /\ Taking(n).post \in Posts /\ Goal(n) \in Nodes
  BY <1>1, BoxIsTaken
<1>3. PICK g \in Nodes, i \in Posts : g = Goal(n) /\ i = Taking(n).post /\ g # n
  BY <1>2 DEF CommConnect, MustConnect
<1>4. PICK y \in Conns : Fresh(y, "initiator", g, "connect")
  <2>1. g \in Addresses
    BY DEF Addresses
  <2>. QED
    BY <2>1, NewConnIs
<1>5. PICK l \in Links :
        /\ tcp[l].is = "none"
        /\ conn' = [conn EXCEPT ![<<n, l>>] = y]
        /\ tcp' = [tcp EXCEPT ![l] = [is |-> "up", from |-> n, to |-> g]]
        /\ comm' = [comm EXCEPT ![n] = [at |-> "add", link |-> l, post |-> i]]
  BY <1>3, <1>4 DEF CommConnect, Unused, Fresh
<1>6. /\ LinkOf(l) /\ MapOf(n)
      /\ \A k \in Nodes : conn[<<k, l>>] = NoConn /\ wire[<<k, l>>] = <<>>
  BY <1>5 DEF ConnInv, LinkOf
<1>7. /\ conn' \in [Ends -> Conns] /\ conn'[<<n, l>>] = y
      /\ \A d \in Ends : d # <<n, l>> => conn'[d] = conn[d]
      /\ \A k \in Nodes : k # n => conn'[<<k, l>>] = NoConn
  BY <1>5, <1>6 DEF Ends, ConnInv, Types, ConnTypes
<1>8. /\ tcp' \in [Links -> [is : {"none", "up", "down"}, from : Nodes \cup {None}, to : Nodes \cup {None}]]
      /\ tcp'[l].is = "up" /\ tcp'[l].from = n /\ tcp'[l].to = g
      /\ \A j \in Links : j # l => tcp'[j] = tcp[j]
  BY <1>5 DEF ConnInv, Types, ConnTypes
<1>9. /\ comm' \in [Nodes -> [at : {"idle", "add", "push"}, link : Links \cup {None}, post : Posts \cup {0}]]
      /\ comm'[n].at = "add" /\ comm'[n].link = l /\ comm'[n].post = i
      /\ \A k \in Nodes : k # n => comm'[k] = comm[k]
  BY <1>5 DEF ConnInv, Types, NodeTypes
<1>10. Types'
  <2>1. \A k \in Nodes : comm'[k].at # "idle" => comm'[k].link \in Links /\ comm'[k].post \in Posts
    BY <1>9 DEF ConnInv, Types, NodeTypes
  <2>2. NodeTypes'
    BY <1>1, <1>9, <2>1 DEF ConnInv, Types, NodeTypes
  <2>. QED
    BY <1>1, <1>2, <1>7, <1>8, <2>2 DEF ConnInv, Types, ConnTypes
<1>11. ~Established(l) /\ ~Established(l)'
  BY <1>3, <1>5, <1>7, <1>8, NoConnIs DEF Established
<1>12. \A k \in Nodes : wire'[<<k, l>>] = <<>> /\ Elements(wire'[<<k, l>>]) = {}
  BY <1>1, <1>6 DEF Elements
<1>13. LinkOf(l)' /\ SilenceOf(l)'
  BY <1>3, <1>4, <1>7, <1>8, <1>12 DEF LinkOf, SilenceOf, Fresh
<1>14. \A k \in Nodes : RoleOf(k, l)'
  <2>. SUFFICES ASSUME NEW k \in Nodes PROVE RoleOf(k, l)'
    OBVIOUS
  <2>1. CASE k = n
    BY <1>4, <1>7, <1>8, <2>1 DEF RoleOf, Connects, Live, Fresh
  <2>2. CASE k # n
    BY <1>7, <2>2, NoConnIs DEF RoleOf, Live
  <2>. QED
    BY <2>1, <2>2
<1>15. \A k \in Nodes : CarryOf(k, l)'
  <2>. SUFFICES ASSUME NEW k \in Nodes PROVE CarryOf(k, l)'
    OBVIOUS
  <2>1. CASE k = n
    BY <1>4, <1>7, <1>12, <2>1 DEF CarryOf, Fresh
  <2>2. CASE k # n
    BY <1>7, <1>12, <2>2, NoConnIs, ClearHolds DEF CarryOf
  <2>. QED
    BY <2>1, <2>2
<1>16. FlightOf(n, l)'
  BY <1>4, <1>7, <1>8 DEF FlightOf, Fresh
<1>17. aio[n].at # "idle" => aio[n].link \in Links /\ aio[n].link # l
  <2>1. AioOf(n) /\ conn[<<n, l>>].life = "none"
    BY <1>6, NoConnIs DEF ConnInv
  <2>. QED
    BY <2>1, InsideIs DEF AioOf
<1>18. ListenOf(n, l)'
  <2>1. aio'[n] # At("wake", l) /\ aio'[n] # At("revoke", l)
    BY <1>1, <1>17, Places
  <2>2. Hears(n, l)'
    BY <1>4, <1>7 DEF Hears, Fresh
  <2>. QED
    BY <2>1, <2>2 DEF ListenOf
<1>19. AioOf(n)'
  <2>. SUFFICES ASSUME aio[n].at # "idle" PROVE AioOf(n)'
    BY <1>1 DEF AioOf
  <2>1. PICK j \in Links : j = aio[n].link /\ j # l
    BY <1>17
  <2>2. AioOf(n) /\ LinkOf(j)
    BY DEF ConnInv
  <2>3. conn'[<<n, j>>] = conn[<<n, j>>] /\ tcp'[j] = tcp[j]
    BY <1>7, <1>8, <2>1 DEF Ends
  <2>4. tcp[j].is # "none" /\ tcp[j].to \in Nodes
    BY <2>1, <2>2, NoConnIs DEF AioOf, LinkOf
  <2>5. Established(j)' <=> Established(j)
    BY <1>7, <1>8, <2>1, <2>4 DEF Established, Ends
  <2>. QED
    BY <1>1, <2>1, <2>2, <2>3, <2>5 DEF AioOf
<1>20. MapOf(n)'
  <2>1. /\ \A j \in Links : j # l => /\ Live(<<n, j>>)' <=> Live(<<n, j>>)
                                     /\ conn'[<<n, j>>].addr = conn[<<n, j>>].addr
        /\ Live(<<n, l>>)' /\ ~Live(<<n, l>>)
    BY <1>4, <1>6, <1>7, NoConnIs DEF Live, Ends, Fresh
  <2>2. \A e \in Addresses : map[n][e] # l
    BY <1>6, <2>1 DEF MapOf
  <2>3. \A e \in Addresses, j \in Links :
          map'[n][e] = j => Live(<<n, j>>)' /\ conn'[<<n, j>>].addr = e
    BY <1>1, <1>6, <2>1, <2>2 DEF MapOf
  <2>4. \A j \in Links : Live(<<n, j>>)' =>
          \/ map'[n][conn'[<<n, j>>].addr] = j
          \/ comm'[n].at = "add" /\ comm'[n].link = j
    BY <1>1, <1>2, <1>6, <1>9, <2>1 DEF MapOf
  <2>. QED
    BY <1>1, <1>8, <1>9, <2>1, <2>2, <2>3, <2>4 DEF MapOf
<1>21. Alone(n, l)
  BY <1>1, <1>5, <1>7, <1>8, <1>9, <1>11 DEF Alone, AioTurns, LinkKept
<1>. QED
  BY <1>10, <1>13, <1>14, <1>15, <1>16, <1>18, <1>19, <1>20, <1>21, EndChanges DEF Local

-----------------------------------------------------------------------------
(* The invariant holds in every state.                                     *)

LEMMA ConnBegins == Init => ConnInv
<1>. SUFFICES ASSUME Init PROVE ConnInv
  OBVIOUS
<1>1. PICK q \in Queues : q = Queue!Clear /\ \A p \in 0 .. 2 : Elements(q[p]) = {}
  BY ClearHolds
<1>2. PICK z \in Conns : /\ z = NoConn /\ z.life = "none" /\ z.queue = q /\ z.out = None /\ z.state = "none"
  BY <1>1, NoConnIs
<1>3. /\ conn \in [Ends -> Conns] /\ wire \in [Ends -> Seq(Messages)]
      /\ \A n \in Nodes, l \in Links : conn[<<n, l>>] = z /\ wire[<<n, l>>] = <<>>
  BY <1>2 DEF Init, Ends
<1>4. /\ tcp \in [Links -> [is : {"none", "up", "down"}, from : Nodes \cup {None}, to : Nodes \cup {None}]]
      /\ \A l \in Links : tcp[l].is = "none"
  BY DEF Init, NoLink
<1>5. BoxTypes
  BY <1>1 DEF Init, BoxTypes
<1>6. NodeTypes
  <2>1. Idle \in Actors /\ Idle.at = "idle" /\ Idle.link = None
    BY Places
  <2>2. CommIdle \in [at : {"idle", "add", "push"}, link : Links \cup {None}, post : Posts \cup {0}]
    BY DEF CommIdle
  <2>3. CommIdle.at = "idle"
    BY DEF CommIdle
  <2>4. map \in [Nodes -> [Addresses -> Links \cup {None}]]
    BY DEF Init, Addresses
  <2>. QED
    BY <2>1, <2>2, <2>3, <2>4 DEF Init, NodeTypes
<1>7. Types
  BY <1>3, <1>4, <1>5, <1>6 DEF Types, ConnTypes
<1>8. \A l \in Links : LinkOf(l) /\ SilenceOf(l)
  BY <1>2, <1>3, <1>4 DEF LinkOf, SilenceOf
<1>9. \A n \in Nodes, l \in Links :
        RoleOf(n, l) /\ CarryOf(n, l) /\ FlightOf(n, l) /\ ListenOf(n, l)
  <2>. SUFFICES ASSUME NEW n \in Nodes, NEW l \in Links
                PROVE  RoleOf(n, l) /\ CarryOf(n, l) /\ FlightOf(n, l) /\ ListenOf(n, l)
    OBVIOUS
  <2>1. ~Live(<<n, l>>) /\ conn[<<n, l>>] = z /\ Elements(wire[<<n, l>>]) = {}
    BY <1>2, <1>3 DEF Live, Elements
  <2>. QED
    BY <1>1, <1>2, <2>1 DEF RoleOf, CarryOf, FlightOf, ListenOf
<1>10. \A n \in Nodes : MapOf(n) /\ AioOf(n)
  <2>. SUFFICES ASSUME NEW n \in Nodes PROVE MapOf(n) /\ AioOf(n)
    OBVIOUS
  <2>1. aio[n].at = "idle" /\ comm[n].at = "idle"
    BY DEF Init, Idle, CommIdle
  <2>2. \A l \in Links : ~Live(<<n, l>>)
    BY <1>2, <1>3 DEF Live
  <2>3. \A a \in Addresses, l \in Links : map[n][a] # l
    BY NodesAssumption DEF Init, Addresses
  <2>. QED
    BY <2>1, <2>2, <2>3 DEF MapOf, AioOf
<1>. QED
  BY <1>7, <1>8, <1>9, <1>10 DEF ConnInv

LEMMA CommKeeps ==
  ASSUME ConnInv, NEW n \in Nodes, CommStep(n)
  PROVE  ConnInv'
<1>1. CASE CommClose(n)
  BY <1>1, CommCloseStep
<1>2. CASE CommDeliver(n) \/ CommRefuse(n)
  BY <1>2, DeliverStep
<1>3. CASE CommRoute(n)
  BY <1>3, RouteStep
<1>4. CASE CommConnect(n)
  BY <1>4, CommConnectStep
<1>5. CASE CommAdd(n)
  BY <1>5, CommAddStep
<1>6. CASE CommDuplicate(n)
  BY <1>6, CommDuplicateStep
<1>7. CASE CommPush(n)
  BY <1>7, CommPushStep
<1>. QED
  BY <1>1, <1>2, <1>3, <1>4, <1>5, <1>6, <1>7 DEF CommStep

LEMMA CallbackKeeps ==
  ASSUME ConnInv, NEW n \in Nodes, NEW l \in Links, Callback(n, l)
  PROVE  ConnInv'
<1>1. CASE Accept(n, l)
  BY <1>1, AcceptStep
<1>2. CASE OnConnect(n, l)
  BY <1>2, OnConnectStep
<1>3. CASE OnSend(n, l)
  BY <1>3, OnSendStep
<1>4. CASE OnError(n, l)
  BY <1>4, OnErrorStep
<1>5. CASE Answered(n, l)
  BY <1>5, AnsweredStep
<1>6. CASE Readdress(n, l)
  BY <1>6, ReaddressStep
<1>7. CASE DeletesItself(n, l)
  BY <1>7, DeletesItselfStep
<1>8. CASE Forwards(n, l) \/ Throws(n, l)
  BY <1>8, ForwardsStep
<1>9. CASE Pinged(n, l)
  BY <1>9, PingedStep
<1>. QED
  BY <1>1, <1>2, <1>3, <1>4, <1>5, <1>6, <1>7, <1>8, <1>9 DEF Callback

LEMMA AioKeeps ==
  ASSUME ConnInv, NEW n \in Nodes, AioStep(n)
  PROVE  ConnInv'
<1>1. CASE \E l \in Links : Callback(n, l)
  BY <1>1, CallbackKeeps
<1>2. CASE SentWakes(n) \/ Greeted(n) \/ Done(n)
  BY <1>2, ReturnsStep
<1>3. CASE Answers(n)
  BY <1>3, AnswersStep
<1>4. CASE Replies(n)
  BY <1>4, RepliesStep
<1>5. CASE AioShut(n)
  BY <1>5, AioShutStep
<1>. QED
  BY <1>1, <1>2, <1>3, <1>4, <1>5 DEF AioStep

LEMMA ConnContinues == ConnInv /\ [Next]_vars => ConnInv'
<1>. SUFFICES ASSUME ConnInv, [Next]_vars PROVE ConnInv'
  OBVIOUS
<1>1. CASE \E i \in Posts : MakePost(i)
  BY <1>1, MakePostStep
<1>2. ASSUME NEW n \in Nodes, CommStep(n) PROVE ConnInv'
  BY <1>2, CommKeeps
<1>3. ASSUME NEW n \in Nodes, AioStep(n) PROVE ConnInv'
  BY <1>3, AioKeeps
<1>4. ASSUME NEW n \in Nodes, AdminShut(n) PROVE ConnInv'
  BY <1>4, AdminShutStep
<1>5. ASSUME NEW n \in Nodes, NEW m \in Nodes, Remove(n, m) PROVE ConnInv'
  BY <1>5, RemoveStep
<1>6. ASSUME NEW n \in Nodes, NEW l \in Links, ThreadStep(n, l) PROVE ConnInv'
  BY <1>6, ThreadAskStep, ThreadSendStep, ThreadShutStep DEF ThreadStep
<1>7. ASSUME NEW n \in Nodes, NEW l \in Links, Ping(n, l) PROVE ConnInv'
  BY <1>7, PingStep
<1>8. ASSUME NEW l \in Links, Break(l) PROVE ConnInv'
  BY <1>8, BreakStep
<1>9. CASE UNCHANGED vars
  <2>1. UNCHANGED <<box, map, comm, aio, admin, conn, tcp, wire>>
    BY <1>9 DEF vars
  <2>2. Types'
    BY <2>1 DEF ConnInv, Types, ConnTypes, BoxTypes, NodeTypes
  <2>. QED
    BY <2>1, <2>2, NothingMovesAtAll
<1>. QED
  BY <1>1, <1>2, <1>3, <1>4, <1>5, <1>6, <1>7, <1>8, <1>9 DEF Next

LEMMA ConnAlways == Spec => []ConnInv
BY ConnBegins, ConnContinues, PTL DEF Spec

-----------------------------------------------------------------------------
(* What it says of the program.                                            *)

(* A connection the communicator finds, or was given by _connect, is live: *)
(* no map entry and no pointer it holds outlives its connection, and each  *)
(* live connection is found under the address it has.                      *)
THEOREM ConnMapHoldsLive == Spec => []MapHoldsLive
<1>1. ASSUME ConnInv PROVE MapHoldsLive
  <2>1. ASSUME NEW n \in Nodes, NEW a \in DOMAIN map[n], map[n][a] # None
        PROVE  Live(<<n, map[n][a]>>) /\ conn[<<n, map[n][a]>>].addr = a
    <3>1. map[n] \in [Addresses -> Links \cup {None}] /\ MapOf(n)
      BY <1>1 DEF ConnInv, Types, NodeTypes
    <3>2. PICK l \in Links : l = map[n][a] /\ a \in Addresses
      BY <2>1, <3>1
    <3>. QED
      BY <3>1, <3>2 DEF MapOf
  <2>2. ASSUME NEW c \in Ends, Live(c)
        PROVE  \/ map[c[1]][conn[c].addr] = c[2]
               \/ comm[c[1]].at = "add" /\ comm[c[1]].link = c[2]
    <3>1. PICK n \in Nodes, l \in Links : c = <<n, l>>
      BY DEF Ends
    <3>. QED
      BY <1>1, <2>2, <3>1 DEF ConnInv, MapOf
  <2>3. \A n \in Nodes : comm[n].at # "idle" => Live(<<n, comm[n].link>>)
    BY <1>1 DEF ConnInv, MapOf
  <2>. QED
    BY <2>1, <2>2, <2>3 DEF MapHoldsLive
<1>. QED
  BY <1>1, ConnAlways, PTL

(* v_do_job never overwrites a message that the socket is still sending,   *)
(* and no message is left in _msg_send without an operation or a shutdown. *)
THEOREM ConnOneInFlight == Spec => []OneInFlight
<1>1. ASSUME ConnInv PROVE OneInFlight
  <2>. SUFFICES ASSUME NEW c \in Ends, Live(c)
                PROVE  /\ conn[c].thread = "job" => conn[c].out = None /\ Queue!Peek(conn[c].queue)
                       /\ "send" \in conn[c].ops => conn[c].out # None
                       /\ conn[c].out # None =>
                            \/ "send" \in conn[c].ops \/ conn[c].thread \in {"shut", "revoke"}
                            \/ conn[c].blocked \/ aio[c[1]] = At("shut", c[2])
    BY DEF OneInFlight
  <2>1. PICK n \in Nodes, l \in Links : c = <<n, l>>
    BY DEF Ends
  <2>2. FlightOf(n, l)
    BY <1>1 DEF ConnInv
  <2>. QED
    BY <2>1, <2>2 DEF FlightOf
<1>. QED
  BY <1>1, ConnAlways, PTL

(* A live connection that nobody shuts down is connecting, receiving, or   *)
(* has a callback inside it that will receive again.                       *)
THEOREM ConnStillListens == Spec => []StillListens
<1>1. ASSUME ConnInv PROVE StillListens
  <2>. SUFFICES ASSUME NEW c \in Ends, Live(c), ~conn[c].blocked
                PROVE  conn[c].ops \cap {"connect", "recv"} # {} \/ aio[c[1]].link = c[2]
    BY DEF StillListens
  <2>1. PICK n \in Nodes, l \in Links : c = <<n, l>>
    BY DEF Ends
  <2>2. ListenOf(n, l)
    BY <1>1 DEF ConnInv
  <2>. QED
    BY <2>1, <2>2 DEF ListenOf, Hears
<1>. QED
  BY <1>1, ConnAlways, PTL

(* Whatever is posted and pinged meanwhile, the accepting side reads the   *)
(* handshake before anything else.                                         *)
THEOREM ConnGreetingFirst == Spec => []GreetingFirst
<1>1. ASSUME ConnInv PROVE GreetingFirst
  <2>. SUFFICES ASSUME NEW c \in Ends, conn[c].state = "receiver", wire[c] # <<>>
                PROVE  Head(wire[c]).kind = "hello"
    BY DEF GreetingFirst
  <2>1. PICK n \in Nodes, l \in Links : c = <<n, l>>
    BY DEF Ends
  <2>2. conn[c] \in Conns /\ wire[c] \in Seq(Messages) /\ RoleOf(n, l) /\ LinkOf(l) /\ SilenceOf(l)
    BY <1>1 DEF ConnInv, Types, ConnTypes
  <2>3. Live(<<n, l>>)
    BY <2>1, <2>2, NoConnIs DEF RoleOf, Live, Conns
  <2>4. n = tcp[l].to /\ tcp[l].is # "none" /\ ~Established(l)
    BY <2>1, <2>2, <2>3 DEF RoleOf, Connects, Listens, Established, Live
  <2>5. \A m \in Elements(wire[c]) : m.kind = "hello"
    BY <2>1, <2>2, <2>4 DEF SilenceOf
  <2>6. Head(wire[c]) \in Elements(wire[c])
    BY <2>2, HeadAndTail
  <2>. QED
    BY <2>5, <2>6
<1>. QED
  BY <1>1, ConnAlways, PTL
=============================================================================
