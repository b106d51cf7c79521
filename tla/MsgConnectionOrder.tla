------------------------- MODULE MsgConnectionOrder -------------------------
(***************************************************************************)
(* The order of posts: DeliveredInOrder holds for every number of nodes,   *)
(* links and posts, every capacity, and whatever is configured or breaks.  *)
(*                                                                         *)
(* On its way a post passes seven stages: the queue of its sender's        *)
(* communicator, the hand of the communicator's thread while it connects,  *)
(* the queue of a connection, _msg_send, the wire, the queue of the        *)
(* receiver's communicator, the inbox.  The invariant is that of two posts *)
(* of one sender to one receiver the one further on its way was posted     *)
(* earlier, and that within each queue they stand in their order.  A step  *)
(* moves one post by one stage and takes the first of its kind from the    *)
(* stage it leaves, or it loses posts, or moves none.                      *)
(*                                                                         *)
(* There may be several connections to one receiver, so "the first of its  *)
(* kind" also needs that only one of them is alive at a time (OneToEach):  *)
(* this is where OneSided comes in.                                        *)
(***************************************************************************)
EXTENDS MsgConnectionProofs

-----------------------------------------------------------------------------
(* The order of the posts in one queue, or on one wire.                    *)

Same(x, y) == From[x] = From[y] /\ To[x] = To[y]
PostsIn(s) == {m.post : m \in {e \in Elements(s) : e.kind = "post"}}
InOrder(s) ==
  \A j, k \in DOMAIN s :
    j < k /\ s[j].kind = "post" /\ s[k].kind = "post" /\ Same(s[j].post, s[k].post)
      => s[j].post < s[k].post

\* t holds no post but those of s, and in their order; or x after them.
Thins(s, t) == PostsIn(t) \subseteq PostsIn(s) /\ (InOrder(s) => InOrder(t))
Joins(s, t, x) ==
  /\ PostsIn(t) \subseteq PostsIn(s) \cup {x}
  /\ InOrder(s) /\ (\A y \in PostsIn(s) : Same(y, x) => y < x) => InOrder(t)

LEMMA NothingThins == \A s : Thins(s, s)
BY DEF Thins

LEMMA NoPosts ==
  ASSUME NEW s, Elements(s) = {}
  PROVE  PostsIn(s) = {} /\ InOrder(s)
<1>1. \A k \in DOMAIN s : s[k] \in Elements(s)
  BY DEF Elements
<1>. QED
  BY <1>1 DEF PostsIn, InOrder

LEMMA NoPostsInOrder ==
  ASSUME NEW s, PostsIn(s) = {}
  PROVE  InOrder(s)
<1>1. \A k \in DOMAIN s : s[k].kind # "post"
  BY DEF PostsIn, Elements
<1>. QED
  BY <1>1 DEF InOrder

LEMMA TailThins ==
  ASSUME NEW s \in Seq(Messages), s # <<>>
  PROVE  /\ Thins(s, Tail(s)) /\ Head(s) \in Elements(s)
         /\ InOrder(s) /\ Head(s).kind = "post" =>
              \A y \in PostsIn(Tail(s)) : Same(Head(s).post, y) => Head(s).post < y
<1>1. /\ Tail(s) \in Seq(Messages) /\ Len(s) \in Nat \ {0} /\ Head(s) = s[1]
      /\ DOMAIN s = 1 .. Len(s) /\ DOMAIN Tail(s) = 1 .. Len(s) - 1
      /\ \A k \in 1 .. Len(s) - 1 : Tail(s)[k] = s[k + 1]
  OBVIOUS
<1>2. Elements(Tail(s)) \subseteq Elements(s) /\ Head(s) \in Elements(s)
  BY HeadAndTail
<1>3. PostsIn(Tail(s)) \subseteq PostsIn(s)
  BY <1>2 DEF PostsIn
<1>4. ASSUME InOrder(s) PROVE InOrder(Tail(s))
  <2>. SUFFICES ASSUME NEW j \in DOMAIN Tail(s), NEW k \in DOMAIN Tail(s), j < k,
                       Tail(s)[j].kind = "post", Tail(s)[k].kind = "post",
                       Same(Tail(s)[j].post, Tail(s)[k].post)
                PROVE  Tail(s)[j].post < Tail(s)[k].post
    BY DEF InOrder
  <2>1. /\ j + 1 \in DOMAIN s /\ k + 1 \in DOMAIN s /\ j + 1 < k + 1
        /\ Tail(s)[j] = s[j + 1] /\ Tail(s)[k] = s[k + 1]
    BY <1>1
  <2>2. s[j + 1].post < s[k + 1].post
    BY <1>4, <2>1, Zenon DEF InOrder
  <2>. QED
    BY <2>1, <2>2
<1>5. ASSUME InOrder(s), Head(s).kind = "post", NEW y \in PostsIn(Tail(s)), Same(Head(s).post, y)
      PROVE  Head(s).post < y
  <2>1. PICK k \in DOMAIN Tail(s) : Tail(s)[k].kind = "post" /\ y = Tail(s)[k].post
    BY <1>5 DEF PostsIn, Elements
  <2>2. 1 \in DOMAIN s /\ k + 1 \in DOMAIN s /\ 1 < k + 1 /\ Tail(s)[k] = s[k + 1]
    BY <1>1
  <2>3. s[1].post < s[k + 1].post
    BY <1>1, <1>5, <2>1, <2>2, Zenon DEF InOrder
  <2>. QED
    BY <1>1, <2>1, <2>2, <2>3
<1>. QED
  BY <1>2, <1>3, <1>4, <1>5 DEF Thins

LEMMA AppendJoins ==
  ASSUME NEW s \in Seq(Messages), NEW m \in Messages
  PROVE  /\ m.kind = "post" => Joins(s, Append(s, m), m.post)
         /\ m.kind # "post" => Thins(s, Append(s, m))
<1>1. /\ Len(s) \in Nat /\ DOMAIN s = 1 .. Len(s) /\ DOMAIN Append(s, m) = 1 .. Len(s) + 1
      /\ \A k \in 1 .. Len(s) : Append(s, m)[k] = s[k]
      /\ Append(s, m)[Len(s) + 1] = m
  OBVIOUS
<1>2. Elements(Append(s, m)) = Elements(s) \cup {m}
  BY ListGrows
<1>3. PICK t : t = Append(s, m)
  OBVIOUS
<1>4. /\ PostsIn(t) \subseteq PostsIn(s) \cup {m.post}
      /\ m.kind # "post" => PostsIn(t) \subseteq PostsIn(s)
  BY <1>2, <1>3 DEF PostsIn
<1>5. ASSUME InOrder(s), m.kind = "post" => \A y \in PostsIn(s) : Same(y, m.post) => y < m.post
      PROVE  InOrder(t)
  <2>. SUFFICES ASSUME NEW j \in DOMAIN t, NEW k \in DOMAIN t, j < k,
                       t[j].kind = "post", t[k].kind = "post", Same(t[j].post, t[k].post)
                PROVE  t[j].post < t[k].post
    BY DEF InOrder
  <2>1. j \in DOMAIN s /\ t[j] = s[j]
    BY <1>1, <1>3
  <2>2. CASE k = Len(s) + 1
    <3>1. t[k] = m
      BY <1>1, <1>3, <2>2
    <3>2. s[j].post \in PostsIn(s)
      BY <2>1 DEF PostsIn, Elements
    <3>. QED
      BY <1>5, <2>1, <3>1, <3>2
  <2>3. CASE k # Len(s) + 1
    <3>1. k \in DOMAIN s /\ t[k] = s[k]
      BY <1>1, <1>3, <2>3
    <3>. QED
      BY <1>5, <2>1, <3>1, Zenon DEF InOrder
  <2>. QED
    BY <2>2, <2>3
<1>. QED
  BY <1>3, <1>4, <1>5 DEF Joins, Thins

-----------------------------------------------------------------------------
(* The order in a queue: posts are at the last level.                      *)

LEMMA PushAt ==
  ASSUME NEW q \in Queues, NEW m \in Messages
  PROVE  /\ With(q, m) \in Queues
         /\ m.kind # "post" => \A p \in 0 .. 2 : Thins(q[p], With(q, m)[p])
         /\ m.kind = "post" => /\ Joins(q[2], With(q, m)[2], m.post)
                               /\ \A p \in {0, 1} : Thins(q[p], With(q, m)[p])
<1>1. PICK r \in 0 .. 2 : r = Priority(m)
  BY DEF Priority
<1>2. With(q, m) = [q EXCEPT ![r] = Append(q[r], m)]
  <2>1. Queue!Check(r) = r
    BY DEF Queue!Check
  <2>. QED
    BY <1>1, <2>1, Zenon DEF With, Queue!Push
<1>3. DOMAIN q = 0 .. 2 /\ q[r] \in Seq(Messages)
  BY DEF Queues
<1>4. /\ With(q, m)[r] = Append(q[r], m)
      /\ \A p \in 0 .. 2 : p # r => With(q, m)[p] = q[p]
  BY <1>2, <1>3
<1>5. /\ m.kind = "post" => Joins(q[r], Append(q[r], m), m.post) /\ r = 2
      /\ m.kind # "post" => Thins(q[r], Append(q[r], m))
  BY <1>1, <1>3, AppendJoins DEF Priority
<1>6. With(q, m) \in Queues
  BY QueuePushes
<1>7. \A p \in 0 .. 2 : p # r => Thins(q[p], With(q, m)[p])
  BY <1>4, NothingThins
<1>8. CASE m.kind = "post"
  <2>1. Joins(q[2], With(q, m)[2], m.post)
    BY <1>4, <1>5, <1>8
  <2>2. \A p \in {0, 1} : p \in 0 .. 2 /\ p # r
    BY <1>5, <1>8
  <2>. QED
    BY <1>6, <1>7, <1>8, <2>1, <2>2
<1>9. CASE m.kind # "post"
  <2>1. \A p \in 0 .. 2 : Thins(q[p], With(q, m)[p])
    BY <1>4, <1>5, <1>7, <1>9
  <2>. QED
    BY <1>6, <1>9, <2>1
<1>. QED
  BY <1>8, <1>9

LEMMA PopAt ==
  ASSUME NEW q \in Queues, Queue!Peek(q)
  PROVE  /\ Queue!Pop(q) \in Queues /\ Queue!Front(q) \in Messages
         /\ \A p \in 0 .. 2 : Thins(q[p], Queue!Pop(q)[p])
         /\ Queue!Front(q).kind = "post" /\ PostsIn(q[0]) = {} /\ PostsIn(q[1]) = {} =>
              /\ Queue!Front(q).post \in PostsIn(q[2])
              /\ InOrder(q[2]) => \A y \in PostsIn(Queue!Pop(q)[2]) :
                   Same(Queue!Front(q).post, y) => Queue!Front(q).post < y
<1>1. PICK r \in 0 .. 2 : r = Queue!Touch(q) /\ q[r] # <<>>
  BY QueueTouches
<1>2. Queue!Pop(q) = [q EXCEPT ![r] = Tail(q[r])] /\ Queue!Front(q) = Head(q[r])
  BY <1>1 DEF Queue!Pop, Queue!Front, Queues
<1>3. q[r] \in Seq(Messages) /\ DOMAIN q = 0 .. 2
  BY DEF Queues
<1>4. /\ Queue!Pop(q)[r] = Tail(q[r])
      /\ \A p \in 0 .. 2 : p # r => Queue!Pop(q)[p] = q[p]
  BY <1>2, <1>3
<1>5. /\ Thins(q[r], Tail(q[r])) /\ Head(q[r]) \in Elements(q[r])
      /\ InOrder(q[r]) /\ Head(q[r]).kind = "post" =>
           \A y \in PostsIn(Tail(q[r])) : Same(Head(q[r]).post, y) => Head(q[r]).post < y
  BY <1>1, <1>3, TailThins
<1>6. Queue!Pop(q) \in Queues /\ Queue!Front(q) \in Messages
  BY QueuePops
<1>7. \A p \in 0 .. 2 : Thins(q[p], Queue!Pop(q)[p])
  BY <1>4, <1>5, NothingThins
<1>8. ASSUME Queue!Front(q).kind = "post", PostsIn(q[0]) = {}, PostsIn(q[1]) = {}
      PROVE  r = 2 /\ Queue!Front(q).post \in PostsIn(q[2])
  <2>1. Head(q[r]).post \in PostsIn(q[r])
    BY <1>2, <1>5, <1>8 DEF PostsIn
  <2>2. r = 2
    BY <1>8, <2>1
  <2>. QED
    BY <1>2, <2>1, <2>2
<1>. QED
  BY <1>2, <1>4, <1>5, <1>6, <1>7, <1>8

-----------------------------------------------------------------------------
(* The way of a post, from the communicator of its sender to the user it   *)
(* is delivered to, and what is known of the posts at each stage.          *)

Arriving(n, l) == PostsIn(wire[<<n, l>>])
Leaving(n, l) ==
  {x \in Posts : LET m == conn[<<n, l>>].out IN m # None /\ m.kind = "post" /\ m.post = x}
Going(n, l)    == PostsIn(conn[<<n, l>>].queue[2])

Delivered(x) == x \in Elements(inbox[To[x]])
Arrived(x)   == x \in PostsIn(box[To[x]][2])
OnWire(x)    == \E l \in Links : Live(<<To[x], l>>) /\ x \in Arriving(To[x], l)
Sent(x)      == \E l \in Links : x \in Leaving(From[x], l)
Queued(x)    == \E l \in Links : x \in Going(From[x], l)
Held(x)      == comm[From[x]].at # "idle" /\ comm[From[x]].post = x
Waiting(x)   == x \in PostsIn(box[From[x]][2])

\* The stages, from the last (0) to the first (6).
In(k, x) ==
  \/ k = 0 /\ Delivered(x)
  \/ k = 1 /\ Arrived(x)
  \/ k = 2 /\ OnWire(x)
  \/ k = 3 /\ Sent(x)
  \/ k = 4 /\ Queued(x)
  \/ k = 5 /\ Held(x)
  \/ k = 6 /\ Waiting(x)

\* What is further on its way was posted earlier.
Ordered ==
  \A j, k \in 0 .. 6 : \A x, y \in Posts :
    j < k /\ Same(x, y) /\ In(j, x) /\ In(k, y) => x < y
\* Within a queue, or on a wire that is still read, they stand as they were posted.
Rising ==
  /\ \A n \in Nodes : InOrder(box[n][2])
  /\ \A n \in Nodes, l \in Links : InOrder(conn[<<n, l>>].queue[2])
  /\ \A n \in Nodes, l \in Links : Live(<<n, l>>) => InOrder(wire[<<n, l>>])
Told ==
  \A n \in Nodes : \A j, k \in DOMAIN inbox[n] :
    j < k /\ From[inbox[n][j]] = From[inbox[n][k]] => inbox[n][j] < inbox[n][k]

\* What is at each stage was posted, by the node, and for the node, whose stage it is.
PostedOf ==
  /\ posted \subseteq Posts
  /\ \A i \in posted : \A j \in Posts : j < i /\ From[j] = From[i] => j \in posted
PlacedInbox ==
  /\ inbox \in [Nodes -> Seq(Posts)]
  /\ \A n \in Nodes : \A x \in Elements(inbox[n]) : x \in posted /\ To[x] = n
PlacedBox ==
  \A n \in Nodes : \A p \in 0 .. 2 : \A x \in PostsIn(box[n][p]) :
    p = 2 /\ x \in posted /\ n \in {From[x], To[x]}
PlacedComm ==
  \A n \in Nodes : comm[n].at # "idle" =>
    /\ comm[n].post \in posted /\ From[comm[n].post] = n
    /\ To[comm[n].post] = tcp[comm[n].link].to
    /\ comm[n].at = "add" => map[n][tcp[comm[n].link].to] = None
PlacedEnds ==
  \A n \in Nodes, l \in Links : \A x \in Going(n, l) \cup Leaving(n, l) :
    Live(<<n, l>>) /\ x \in posted /\ From[x] = n /\ To[x] = conn[<<n, l>>].addr
PlacedWires ==
  \A n \in Nodes, l \in Links : \A x \in Arriving(n, l) :
    x \in posted /\ From[x] = Far(n, l) /\ To[x] = n

\* An end has the address of the other, but for one that accepted and has not been greeted.
AddrOf ==
  \A n \in Nodes, l \in Links : Live(<<n, l>>) =>
    /\ conn[<<n, l>>].addr \in {Far(n, l), l}
    /\ conn[<<n, l>>].addr = l =>
         conn[<<n, l>>].state = "receiver" /\ ~(aio[n].at = "answer" /\ aio[n].link = l)
\* A link is made only by a node that is configured to connect.
AsConfigured ==
  /\ config \subseteq Configured
  /\ \A l \in Links : tcp[l].is # "none" => <<tcp[l].from, tcp[l].to>> \in Configured

\* The invariant.
Lined ==
  /\ PostedOf /\ PlacedInbox /\ PlacedBox /\ PlacedComm /\ PlacedEnds /\ PlacedWires
  /\ AddrOf /\ AsConfigured /\ Rising /\ Told /\ Ordered

\* A post that leaves one stage for an earlier one passes nobody of its kind.
LEMMA Advances ==
  ASSUME Ordered, NEW to \in 0 .. 6, NEW x \in Posts,
         \A k \in 0 .. 6 : \A y \in Posts : In(k, y)' => In(k, y) \/ (k = to /\ y = x),
         \A k \in 0 .. 6 : \A y \in Posts : k < to /\ In(k, y)' /\ Same(y, x) => y < x,
         \A k \in 0 .. 6 : \A y \in Posts : to < k /\ In(k, y)' /\ Same(x, y) => x < y
  PROVE  Ordered'
<1>. SUFFICES ASSUME NEW j \in 0 .. 6, NEW k \in 0 .. 6, NEW y \in Posts, NEW z \in Posts,
                     j < k, Same(y, z), In(j, y)', In(k, z)'
              PROVE  y < z
  BY DEF Ordered
<1>1. CASE j = to /\ y = x
  BY <1>1
<1>2. CASE k = to /\ z = x
  BY <1>2
<1>3. CASE ~(j = to /\ y = x) /\ ~(k = to /\ z = x)
  <2>1. In(j, y) /\ In(k, z)
    BY <1>3
  <2>. QED
    BY <2>1, Zenon DEF Ordered
<1>. QED
  BY <1>1, <1>2, <1>3

\* A post that advances from one stage to another comes before all that it leaves behind
\* between the two.
LEMMA Passes ==
  ASSUME Ordered, NEW from \in 0 .. 6, NEW to \in 0 .. 6, to < from, NEW x \in Posts, In(from, x),
         \A k \in 0 .. 6 : \A y \in Posts : In(k, y)' => In(k, y) \/ (k = to /\ y = x),
         \A k \in 0 .. 6 : \A y \in Posts :
           to < k /\ k <= from /\ In(k, y)' /\ Same(x, y) => x < y
  PROVE  Ordered'
<1>1. ASSUME NEW k \in 0 .. 6, NEW y \in Posts, k < to, In(k, y)', Same(y, x)
      PROVE  y < x
  <2>1. In(k, y) /\ k < from
    BY <1>1
  <2>. QED
    BY <1>1, <2>1, Zenon DEF Ordered
<1>2. ASSUME NEW k \in 0 .. 6, NEW y \in Posts, to < k, In(k, y)', Same(x, y)
      PROVE  x < y
  <2>1. CASE k <= from
    BY <1>2, <2>1
  <2>2. CASE ~(k <= from)
    <3>1. In(k, y) /\ from < k
      BY <1>2, <2>2
    <3>. QED
      BY <1>2, <3>1, Zenon DEF Ordered
  <2>. QED
    BY <2>1, <2>2
<1>. QED
  BY <1>1, <1>2, Advances, Zenon

\* A post that is lost leaves the others in order.
LEMMA StillOrdered ==
  ASSUME Ordered, \A k \in 0 .. 6 : \A y \in Posts : In(k, y)' => In(k, y)
  PROVE  Ordered'
<1>. SUFFICES ASSUME NEW j \in 0 .. 6, NEW k \in 0 .. 6, NEW y \in Posts, NEW z \in Posts,
                     j < k, Same(y, z), In(j, y)', In(k, z)'
              PROVE  y < z
  BY DEF Ordered
<1>. QED
  BY Zenon DEF Ordered

\* No two connections of a node are to the same peer: one may be about to be added,
\* but then there is no other, for the peer does not connect.
LEMMA OneToEach ==
  ASSUME OneSided, ConnInv, Lined, NEW n \in Nodes, NEW j \in Links, NEW k \in Links,
         Live(<<n, j>>), Live(<<n, k>>), conn[<<n, j>>].addr = conn[<<n, k>>].addr
  PROVE  j = k
<1>1. MapOf(n) /\ RoleOf(n, j) /\ RoleOf(n, k) /\ LinkOf(j) /\ LinkOf(k)
  BY DEF ConnInv
<1>2. PICK a : a = conn[<<n, j>>].addr
  OBVIOUS
<1>3. /\ map[n][a] = j \/ (comm[n].at = "add" /\ comm[n].link = j)
      /\ map[n][a] = k \/ (comm[n].at = "add" /\ comm[n].link = k)
  BY <1>1, <1>2 DEF MapOf
<1>4. ASSUME NEW i \in Links, Live(<<n, i>>), conn[<<n, i>>].addr = a,
             comm[n].at = "add", comm[n].link = i
      PROVE  map[n][a] = None
  <2>1. RoleOf(n, i) /\ LinkOf(i) /\ tcp[i].from = n
    BY <1>1, <1>4 DEF MapOf, ConnInv
  <2>2. a = tcp[i].to
    BY <1>4, <2>1 DEF RoleOf, LinkOf, Connects, Listens
  <2>. QED
    BY <1>4, <2>2 DEF Lined, PlacedComm
<1>. QED
  BY <1>2, <1>3, <1>4, NodesAssumption

-----------------------------------------------------------------------------
(* Where a step brings no post.                                            *)

QuietBox == \A n \in Nodes : \A p \in 0 .. 2 : Thins(box[n][p], box'[n][p])
QuietWires ==
  \A n \in Nodes, l \in Links :
    /\ Thins(wire[<<n, l>>], wire'[<<n, l>>])
    /\ Live(<<n, l>>)' /\ ~Live(<<n, l>>) => Arriving(n, l)' = {}
\* An end that has posts keeps its address; when it is deleted its posts are lost.
Owner(n, l) ==
  Live(<<n, l>>) /\ Going(n, l)' \cup Leaving(n, l)' # {} =>
    Live(<<n, l>>)' /\ conn'[<<n, l>>].addr = conn[<<n, l>>].addr
QuietEnds ==
  \A n \in Nodes, l \in Links :
    /\ Thins(conn[<<n, l>>].queue[2], conn'[<<n, l>>].queue[2])
    /\ Leaving(n, l)' \subseteq Leaving(n, l)
    /\ Owner(n, l)
QuietComm ==
  \A n \in Nodes : comm'[n].at # "idle" =>
    comm[n].at # "idle" /\ comm'[n].link = comm[n].link /\ comm'[n].post = comm[n].post

LEMMA BoxRests ==
  ASSUME QuietBox
  PROVE  /\ \A x \in Posts : To[x] \in Nodes /\ Arrived(x)' => Arrived(x)
         /\ \A x \in Posts : From[x] \in Nodes /\ Waiting(x)' => Waiting(x)
         /\ PlacedBox /\ posted \subseteq posted' => PlacedBox'
<1>1. \A n \in Nodes : \A p \in 0 .. 2 : PostsIn(box'[n][p]) \subseteq PostsIn(box[n][p])
  BY DEF QuietBox, Thins
<1>2. \A n \in Nodes : PostsIn(box'[n][2]) \subseteq PostsIn(box[n][2])
  BY <1>1
<1>3. PlacedBox /\ posted \subseteq posted' => PlacedBox'
  BY <1>1 DEF PlacedBox
<1>. QED
  BY <1>2, <1>3 DEF Arrived, Waiting

LEMMA WiresRest ==
  ASSUME QuietWires
  PROVE  /\ \A x \in Posts : To[x] \in Nodes /\ OnWire(x)' => OnWire(x)
         /\ ConnInv /\ PlacedWires /\ posted \subseteq posted' /\ (\A l \in Links : LinkKept(l))
              => PlacedWires'
<1>1. ASSUME NEW x \in Posts, To[x] \in Nodes, OnWire(x)' PROVE OnWire(x)
  <2>1. PICK l \in Links : Live(<<To[x], l>>)' /\ x \in Arriving(To[x], l)'
    BY <1>1 DEF OnWire
  <2>. QED
    BY <1>1, <2>1 DEF OnWire, QuietWires, Thins, Arriving
<1>2. ASSUME ConnInv, PlacedWires, posted \subseteq posted', \A l \in Links : LinkKept(l),
             NEW n \in Nodes, NEW l \in Links, NEW x \in Arriving(n, l)'
      PROVE  x \in posted' /\ From[x] = Far(n, l)' /\ To[x] = n
  <2>1. x \in Arriving(n, l)
    BY <1>2 DEF QuietWires, Thins, Arriving
  <2>2. x \in posted /\ From[x] = Far(n, l) /\ To[x] = n
    BY <1>2, <2>1 DEF PlacedWires
  <2>3. tcp[l].is # "none"
    <3>1. wire[<<n, l>>] # <<>>
      BY <2>1 DEF Arriving, PostsIn, Elements
    <3>. QED
      BY <1>2, <3>1 DEF ConnInv, LinkOf
  <2>4. Far(n, l)' = Far(n, l)
    BY <1>2, <2>3 DEF LinkKept, Far
  <2>. QED
    BY <1>2, <2>2, <2>4
<1>. QED
  BY <1>1, <1>2 DEF PlacedWires

LEMMA EndsRest ==
  ASSUME QuietEnds
  PROVE  /\ \A x \in Posts : From[x] \in Nodes /\ Sent(x)' => Sent(x)
         /\ \A x \in Posts : From[x] \in Nodes /\ Queued(x)' => Queued(x)
         /\ PlacedEnds /\ posted \subseteq posted' => PlacedEnds'
<1>1. ASSUME NEW n \in Nodes, NEW l \in Links
      PROVE  Leaving(n, l)' \subseteq Leaving(n, l) /\ Going(n, l)' \subseteq Going(n, l)
  BY DEF QuietEnds, Thins, Going
<1>2. ASSUME PlacedEnds, posted \subseteq posted',
             NEW n \in Nodes, NEW l \in Links, NEW x \in Going(n, l)' \cup Leaving(n, l)'
      PROVE  Live(<<n, l>>)' /\ x \in posted' /\ From[x] = n /\ To[x] = conn'[<<n, l>>].addr
  <2>1. x \in Going(n, l) \cup Leaving(n, l)
    BY <1>1, <1>2
  <2>2. Live(<<n, l>>) /\ x \in posted /\ From[x] = n /\ To[x] = conn[<<n, l>>].addr
    BY <1>2, <2>1 DEF PlacedEnds
  <2>3. Live(<<n, l>>)' /\ conn'[<<n, l>>].addr = conn[<<n, l>>].addr
    BY <1>2, <2>2 DEF QuietEnds, Owner
  <2>. QED
    BY <1>2, <2>2, <2>3
<1>3. \A x \in Posts : From[x] \in Nodes /\ Sent(x)' => Sent(x)
  BY <1>1 DEF Sent
<1>4. \A x \in Posts : From[x] \in Nodes /\ Queued(x)' => Queued(x)
  BY <1>1 DEF Queued
<1>. QED
  BY <1>2, <1>3, <1>4 DEF PlacedEnds

LEMMA CommRests ==
  ASSUME QuietComm
  PROVE  \A x \in Posts : From[x] \in Nodes /\ Held(x)' => Held(x)
BY DEF QuietComm, Held

LEMMA StillRising ==
  ASSUME Rising, QuietBox, QuietWires, QuietEnds
  PROVE  Rising'
<1>1. ASSUME NEW n \in Nodes, NEW l \in Links, Live(<<n, l>>)'
      PROVE  InOrder(wire'[<<n, l>>])
  <2>1. CASE Live(<<n, l>>)
    BY <2>1 DEF Rising, QuietWires, Thins
  <2>2. CASE ~Live(<<n, l>>)
    BY <1>1, <2>2, NoPostsInOrder DEF QuietWires, Arriving
  <2>. QED
    BY <2>1, <2>2
<1>. QED
  BY <1>1 DEF Rising, QuietBox, QuietEnds, Thins

\* Where the communicator's thread stands, what the map says of the peers, the links and
\* the addresses of their ends.
QuietComms ==
  \A n \in Nodes : comm'[n].at # "idle" =>
    /\ comm[n].at # "idle" /\ comm'[n].link = comm[n].link /\ comm'[n].post = comm[n].post
    /\ comm'[n].at = "add" => comm[n].at = "add"
QuietMap ==
  \A n \in Nodes : LET a == tcp[comm[n].link].to IN
    comm'[n].at = "add" /\ map[n][a] = None => map'[n][a] = None
QuietLinks ==
  \A l \in Links : tcp'[l].from = tcp[l].from /\ tcp'[l].to = tcp[l].to
                   /\ (tcp'[l].is # "none" => tcp[l].is # "none")
                   /\ (tcp[l].is # "none" => tcp'[l].is # "none")
QuietAddrs ==
  \A n \in Nodes, l \in Links : Live(<<n, l>>)' =>
    /\ Live(<<n, l>>) /\ conn'[<<n, l>>].addr = conn[<<n, l>>].addr
    /\ conn'[<<n, l>>].state = conn[<<n, l>>].state
    /\ aio'[n].at = "answer" /\ aio'[n].link = l => aio[n].at = "answer" /\ aio[n].link = l

LEMMA LinksKept == QuietLinks => \A l \in Links : LinkKept(l)
BY DEF QuietLinks, LinkKept

LEMMA CommsRest ==
  ASSUME ConnInv, QuietComms, QuietMap, QuietLinks, PlacedComm, posted \subseteq posted'
  PROVE  PlacedComm' /\ QuietComm
<1>1. ASSUME NEW n \in Nodes, comm'[n].at # "idle"
      PROVE  /\ comm'[n].post \in posted' /\ From[comm'[n].post] = n
             /\ To[comm'[n].post] = tcp'[comm'[n].link].to
             /\ comm'[n].at = "add" => map'[n][tcp'[comm'[n].link].to] = None
  <2>1. /\ comm[n].at # "idle" /\ comm'[n].link = comm[n].link /\ comm'[n].post = comm[n].post
        /\ comm'[n].at = "add" => comm[n].at = "add"
    BY <1>1 DEF QuietComms
  <2>2. PICK l \in Links : l = comm[n].link /\ tcp[l].from = n
    <3>1. comm[n].link \in Links /\ MapOf(n)
      BY <2>1 DEF ConnInv, Types, NodeTypes
    <3>. QED
      BY <2>1, <3>1 DEF MapOf
  <2>3. /\ comm[n].post \in posted /\ From[comm[n].post] = n
        /\ To[comm[n].post] = tcp[l].to
        /\ comm[n].at = "add" => map[n][tcp[l].to] = None
    BY <2>1, <2>2 DEF PlacedComm
  <2>4. tcp'[l].to = tcp[l].to
    BY DEF QuietLinks
  <2>5. comm'[n].at = "add" => map'[n][tcp[l].to] = None
    BY <2>1, <2>2, <2>3 DEF QuietMap
  <2>. QED
    BY <2>1, <2>2, <2>3, <2>4, <2>5
<1>2. QuietComm
  BY DEF QuietComms, QuietComm
<1>. QED
  BY <1>1, <1>2 DEF PlacedComm

LEMMA AddrsRest ==
  ASSUME QuietAddrs, QuietLinks, AddrOf
  PROVE  AddrOf'
<1>. SUFFICES ASSUME NEW n \in Nodes, NEW l \in Links, Live(<<n, l>>)'
              PROVE  /\ conn'[<<n, l>>].addr \in {Far(n, l)', l}
                     /\ conn'[<<n, l>>].addr = l =>
                          /\ conn'[<<n, l>>].state = "receiver"
                          /\ ~(aio'[n].at = "answer" /\ aio'[n].link = l)
  BY DEF AddrOf
<1>1. Far(n, l)' = Far(n, l)
  BY DEF QuietLinks, Far
<1>. QED
  BY <1>1 DEF QuietAddrs, AddrOf

LEMMA ConfiguredRests ==
  ASSUME AsConfigured, QuietLinks, config' \subseteq config
  PROVE  AsConfigured'
BY DEF AsConfigured, QuietLinks

LEMMA PostedRests ==
  ASSUME PostedOf, PlacedInbox, Told, posted' = posted, inbox' = inbox
  PROVE  PostedOf' /\ PlacedInbox' /\ Told' /\ \A x \in Posts : Delivered(x)' => Delivered(x)
BY DEF PostedOf, PlacedInbox, Told, Delivered

LEMMA PeopleAreNodes == \A x \in Posts : From[x] \in Nodes /\ To[x] \in Nodes /\ From[x] # To[x]
BY PostsAssumption

\* A step that brings no post anywhere.
Quiet ==
  /\ QuietBox /\ QuietWires /\ QuietEnds /\ QuietComms /\ QuietMap /\ QuietLinks /\ AddrOf'
  /\ config' \subseteq config /\ posted' = posted /\ inbox' = inbox

LEMMA QuietStep ==
  ASSUME ConnInv, Lined, Quiet
  PROVE  Lined'
<1>1. PostedOf' /\ PlacedInbox' /\ Told' /\ \A x \in Posts : Delivered(x)' => Delivered(x)
  BY PostedRests DEF Lined, Quiet
<1>2. PlacedBox' /\ \A x \in Posts : (Arrived(x)' => Arrived(x)) /\ (Waiting(x)' => Waiting(x))
  BY BoxRests, PeopleAreNodes DEF Lined, Quiet
<1>3. PlacedWires' /\ \A x \in Posts : OnWire(x)' => OnWire(x)
  BY WiresRest, PeopleAreNodes, LinksKept DEF Lined, Quiet
<1>4. PlacedEnds' /\ \A x \in Posts : (Sent(x)' => Sent(x)) /\ (Queued(x)' => Queued(x))
  BY EndsRest, PeopleAreNodes DEF Lined, Quiet
<1>5. PlacedComm' /\ \A x \in Posts : Held(x)' => Held(x)
  BY CommsRest, CommRests, PeopleAreNodes DEF Lined, Quiet
<1>6. AddrOf' /\ AsConfigured' /\ Rising'
  BY ConfiguredRests, StillRising DEF Lined, Quiet
<1>7. Ordered'
  <2>1. \A k \in 0 .. 6 : \A y \in Posts : In(k, y)' => In(k, y)
    BY <1>1, <1>2, <1>3, <1>4, <1>5 DEF In
  <2>. QED
    BY <2>1, StillOrdered DEF Lined
<1>. QED
  BY <1>1, <1>2, <1>3, <1>4, <1>5, <1>6, <1>7 DEF Lined

-----------------------------------------------------------------------------
(* Steps that bring no post.                                               *)

LEMMA ConnHas ==
  ASSUME ConnInv
  PROVE  /\ conn \in [Ends -> Conns] /\ wire \in [Ends -> Seq(Messages)]
         /\ \A n \in Nodes, l \in Links :
              /\ <<n, l>> \in Ends /\ conn[<<n, l>>] \in Conns /\ conn[<<n, l>>].queue \in Queues
              /\ conn[<<n, l>>].out \in Messages \cup {None}
              /\ wire[<<n, l>>] \in Seq(Messages)
         /\ box \in [Nodes -> Queues] /\ aio \in [Nodes -> Actors]
BY DEF ConnInv, Types, ConnTypes, BoxTypes, NodeTypes, Ends, Conns

\* The end of n becomes y.
LEMMA OneAlters ==
  ASSUME ConnInv, NEW n \in Nodes, NEW l \in Links, NEW y, conn' = [conn EXCEPT ![<<n, l>>] = y]
  PROVE  /\ conn'[<<n, l>>] = y
         /\ \A k \in Nodes, j \in Links : k # n \/ j # l => conn'[<<k, j>>] = conn[<<k, j>>]
BY ConnHas

\* An end keeps its posts and its place.
Fixed(n, l) ==
  LET c == conn[<<n, l>>] d == conn'[<<n, l>>] IN
  /\ d.life = c.life /\ d.state = c.state /\ d.addr = c.addr
  /\ Thins(c.queue[2], d.queue[2]) /\ d.out = c.out
AioCalm == \A n \in Nodes : aio'[n].at = "answer" => aio'[n] = aio[n]
ThinWires == \A n \in Nodes, l \in Links : Thins(wire[<<n, l>>], wire'[<<n, l>>])

LEMMA OneRests ==
  ASSUME ConnInv, NEW n \in Nodes, NEW l \in Links, NEW x, x = conn[<<n, l>>],
         NEW y, conn' = [conn EXCEPT ![<<n, l>>] = y],
         y.life = x.life, y.state = x.state, y.addr = x.addr, y.out = x.out,
         Thins(x.queue[2], y.queue[2])
  PROVE  \A k \in Nodes, j \in Links : Fixed(k, j)
<1>. SUFFICES ASSUME NEW k \in Nodes, NEW j \in Links PROVE Fixed(k, j)
  OBVIOUS
<1>1. CASE k = n /\ j = l
  <2>1. conn'[<<n, l>>] = y
    BY ConnHas
  <2>2. PICK e : e = <<k, j>>
    OBVIOUS
  <2>3. e = <<n, l>>
    BY <1>1, <2>2
  <2>. QED
    BY <2>1, <2>2, <2>3 DEF Fixed
<1>2. CASE k # n \/ j # l
  <2>1. conn'[<<k, j>>] = conn[<<k, j>>]
    BY <1>2, OneAlters
  <2>. QED
    BY <2>1, NothingThins DEF Fixed
<1>. QED
  BY <1>1, <1>2

LEMMA Unmoved ==
  /\ map' = map => QuietMap
  /\ comm' = comm => QuietComms
  /\ tcp' = tcp => QuietLinks
  /\ box' = box => QuietBox
  /\ wire' = wire => ThinWires
  /\ aio' = aio => AioCalm
  /\ conn' = conn => \A n \in Nodes, l \in Links : Fixed(n, l)
BY NothingThins DEF QuietMap, QuietComms, QuietLinks, QuietBox, ThinWires, AioCalm, Fixed

LEMMA TurnsCalm ==
  ASSUME ConnInv, NEW n \in Nodes,
         \/ aio' = [aio EXCEPT ![n] = Idle]
         \/ \E l \in Links : \E w \in {"shut", "revoke", "wake", "greeted", "reply", "done"} :
              aio' = [aio EXCEPT ![n] = At(w, l)]
  PROVE  AioCalm
<1>1. PICK x : aio' = [aio EXCEPT ![n] = x] /\ x.at # "answer"
  BY Places
<1>. QED
  BY <1>1, ConnHas DEF AioCalm

LEMMA FixedStep ==
  ASSUME ConnInv, Lined, \A n \in Nodes, l \in Links : Fixed(n, l),
         AioCalm, QuietBox, ThinWires, QuietComms, QuietMap, QuietLinks,
         config' \subseteq config, posted' = posted, inbox' = inbox
  PROVE  Lined'
<1>1. \A n \in Nodes, l \in Links : Live(<<n, l>>)' <=> Live(<<n, l>>)
  BY DEF Fixed, Live
<1>2. \A n \in Nodes, l \in Links : Leaving(n, l)' = Leaving(n, l)
  BY DEF Fixed, Leaving
<1>3. QuietEnds
  BY <1>1, <1>2, NothingThins DEF QuietEnds, Owner, Fixed
<1>4. QuietWires
  BY <1>1 DEF ThinWires, QuietWires
<1>5. QuietAddrs
  BY <1>1 DEF QuietAddrs, Fixed, AioCalm
<1>6. AddrOf'
  BY <1>5, AddrsRest DEF Lined
<1>. QED
  BY <1>3, <1>4, <1>6, QuietStep DEF Quiet

LEMMA BoxGainsNoPost ==
  ASSUME ConnInv, NEW n \in Nodes, NEW m \in Messages, m.kind # "post", BoxGains(n, m)
  PROVE  QuietBox
<1>1. CASE box' = box
  BY <1>1, Unmoved
<1>2. CASE box' = [box EXCEPT ![n] = With(@, m)]
  <2>1. PICK q \in Queues, r \in Queues : q = box[n] /\ r = With(q, m) /\ \A p \in 0 .. 2 : Thins(q[p], r[p])
    BY ConnHas, PushAt
  <2>2. box' = [box EXCEPT ![n] = r]
    BY <1>2, <2>1
  <2>3. box'[n] = r /\ \A k \in Nodes : k # n => box'[k] = box[k]
    BY <2>2, ConnHas
  <2>. QED
    BY <2>1, <2>3, NothingThins DEF QuietBox
<1>. QED
  BY <1>1, <1>2 DEF BoxGains

LEMMA BoxLosesFirst ==
  ASSUME ConnInv, NEW n \in Nodes, CommFree(n), Taken(n)
  PROVE  QuietBox
<1>1. PICK q \in Queues : q = box[n] /\ Queue!Peek(q)
  BY ConnHas DEF CommFree
<1>2. PICK r \in Queues : r = Queue!Pop(q) /\ \A p \in 0 .. 2 : Thins(q[p], r[p])
  BY <1>1, PopAt
<1>3. box' = [box EXCEPT ![n] = r]
  BY <1>1, <1>2 DEF Taken
<1>4. box'[n] = r /\ \A k \in Nodes : k # n => box'[k] = box[k]
  BY <1>3, ConnHas
<1>. QED
  BY <1>1, <1>2, <1>4, NothingThins DEF QuietBox

LEMMA WireLosesFirst ==
  ASSUME ConnInv, NEW n \in Nodes, NEW l \in Links, Consumes(n, l)
  PROVE  /\ ThinWires /\ wire'[<<n, l>>] = Tail(wire[<<n, l>>])
         /\ \A k \in Nodes, j \in Links : k # n \/ j # l => wire'[<<k, j>>] = wire[<<k, j>>]
<1>1. PICK s \in Seq(Messages) : s = wire[<<n, l>>] /\ s # <<>>
  BY ConnHas DEF Consumes
<1>2. wire' = [wire EXCEPT ![<<n, l>>] = Tail(s)]
  BY <1>1, ConnHas DEF Consumes
<1>3. /\ wire'[<<n, l>>] = Tail(s)
      /\ \A k \in Nodes, j \in Links : k # n \/ j # l => wire'[<<k, j>>] = wire[<<k, j>>]
  BY <1>2, ConnHas
<1>4. Thins(s, Tail(s))
  BY <1>1, TailThins
<1>. QED
  BY <1>1, <1>3, <1>4, NothingThins DEF ThinWires

LEMMA LinkGoesDown ==
  ASSUME ConnInv, NEW l \in Links, tcp[l].is # "none", tcp' = Down(l)
  PROVE  QuietLinks
BY DEF Down, QuietLinks, ConnInv, Types, ConnTypes

LEMMA IdleOrder ==
  ASSUME ConnInv, Lined, UNCHANGED <<map, comm, aio, conn, wire, posted, inbox>>,
         QuietBox, QuietLinks, config' \subseteq config
  PROVE  Lined'
BY Unmoved, FixedStep

LEMMA StillOrder ==
  ASSUME ConnInv, Lined, UNCHANGED vars
  PROVE  Lined'
BY Unmoved, IdleOrder DEF vars

LEMMA RemoveOrder ==
  ASSUME ConnInv, Lined, NEW n \in Nodes, NEW m \in Nodes, Remove(n, m)
  PROVE  Lined'
BY Unmoved, IdleOrder DEF Remove

LEMMA RefuseOrder ==
  ASSUME ConnInv, Lined, NEW n \in Nodes, CommRefuse(n)
  PROVE  Lined'
BY Unmoved, BoxLosesFirst, IdleOrder DEF CommRefuse, MustConnect

LEMMA BreakOrder ==
  ASSUME ConnInv, Lined, NEW l \in Links, Break(l)
  PROVE  Lined'
<1>1. QuietLinks
  BY LinkGoesDown DEF Break
<1>. QED
  BY <1>1, Unmoved, IdleOrder DEF Break

LEMMA PingedOrder ==
  ASSUME ConnInv, Lined, NEW n \in Nodes, NEW l \in Links, Pinged(n, l)
  PROVE  Lined'
<1>1. Consumes(n, l) /\ UNCHANGED <<box, map, config, comm, aio, admin, conn, tcp, posted, inbox>>
  BY DEF Pinged, Receives, Consumes
<1>. QED
  BY <1>1, WireLosesFirst, Unmoved, FixedStep

\* A connection's queue gains no post.
LEMMA GainsNoPost ==
  ASSUME ConnInv, NEW n \in Nodes, NEW l \in Links, NEW m \in Messages,
         m.kind # "post", Gains(n, l, m)
  PROVE  \A k \in Nodes, j \in Links : Fixed(k, j)
<1>1. CASE conn' = conn
  BY <1>1, Unmoved
<1>2. CASE conn' = [conn EXCEPT ![<<n, l>>].queue = With(@, m), ![<<n, l>>].bell = TRUE]
  <2>1. PICK x \in Conns, q \in Queues : x = conn[<<n, l>>] /\ q = x.queue
    BY ConnHas
  <2>2. PICK r \in Queues : r = With(q, m) /\ Thins(q[2], r[2])
    BY PushAt
  <2>3. PICK y : y = [x EXCEPT !.queue = r, !.bell = TRUE]
    OBVIOUS
  <2>4. conn' = [conn EXCEPT ![<<n, l>>] = y]
    BY <1>2, <2>1, <2>2, <2>3, ConnHas
  <2>5. y.life = x.life /\ y.state = x.state /\ y.addr = x.addr /\ y.out = x.out /\ y.queue = r
    BY <2>3 DEF Conns
  <2>. QED
    BY <2>1, <2>2, <2>4, <2>5, OneRests
<1>. QED
  BY <1>1, <1>2 DEF Gains

LEMMA PingOrder ==
  ASSUME ConnInv, Lined, NEW n \in Nodes, NEW l \in Links, Ping(n, l)
  PROVE  Lined'
<1>1. PICK m \in Messages : m = Message("ping", n, 0, None) /\ m.kind # "post"
  <2>1. Message("ping", n, 0, None) \in Messages
    BY DEF Message, Messages
  <2>. QED
    BY <2>1 DEF Message
<1>2. Gains(n, l, m) /\ UNCHANGED <<box, map, config, comm, aio, admin, tcp, wire, posted, inbox>>
  BY <1>1 DEF Ping, Gains
<1>3. \A k \in Nodes, j \in Links : Fixed(k, j)
  BY <1>1, <1>2, GainsNoPost
<1>. QED
  BY <1>2, <1>3, Unmoved, FixedStep

LEMMA RepliesOrder ==
  ASSUME ConnInv, Lined, NEW n \in Nodes, Replies(n)
  PROVE  Lined'
<1>1. PICK l \in Links : l = aio[n].link
  BY InsideIs DEF Replies, Inside
<1>2. PICK m \in Messages : /\ m = Message("welcome", n, 0, conn[<<n, l>>].session)
                            /\ m.kind # "post"
  <2>1. PICK s \in Links \cup {None} : s = conn[<<n, l>>].session
    BY DEF ConnInv, Types, ConnTypes, Conns, Ends
  <2>2. Message("welcome", n, 0, s) \in Messages
    BY DEF Message, Messages
  <2>. QED
    BY <2>1, <2>2 DEF Message
<1>3. Gains(n, l, m) /\ UNCHANGED <<box, map, config, comm, admin, tcp, wire, posted, inbox>>
  BY <1>1, <1>2 DEF Replies, Pushed, Gains
<1>4. AioCalm
  <2>1. \E w \in {"shut", "done"} : aio' = [aio EXCEPT ![n] = At(w, l)]
    BY <1>1 DEF Replies, Stays
  <2>. QED
    BY <2>1, TurnsCalm
<1>5. \A k \in Nodes, j \in Links : Fixed(k, j)
  BY <1>2, <1>3, GainsNoPost
<1>. QED
  BY <1>3, <1>4, <1>5, Unmoved, FixedStep

LEMMA OnConnectOrder ==
  ASSUME ConnInv, Lined, NEW n \in Nodes, NEW l \in Links, OnConnect(n, l)
  PROVE  Lined'
<1>1. PICK x \in Conns, q \in Queues : x = conn[<<n, l>>] /\ q = x.queue
  BY ConnHas
<1>2. PICK m \in Messages : m = Message("hello", n, 0, l) /\ m.kind # "post"
  <2>1. Message("hello", n, 0, l) \in Messages
    BY DEF Message, Messages
  <2>. QED
    BY <2>1 DEF Message
<1>3. PICK r \in Queues : r = With(q, m) /\ Thins(q[2], r[2])
  BY <1>2, PushAt
<1>4. CASE /\ conn' = [conn EXCEPT ![<<n, l>>].session = l, ![<<n, l>>].ops = @ \ {"connect"}]
           /\ Stays(n, l, "shut")
  <2>1. PICK y : y = [x EXCEPT !.session = l, !.ops = @ \ {"connect"}]
    OBVIOUS
  <2>2. conn' = [conn EXCEPT ![<<n, l>>] = y]
    BY <1>1, <1>4, <2>1, ConnHas
  <2>3. y.life = x.life /\ y.state = x.state /\ y.addr = x.addr /\ y.out = x.out /\ y.queue = q
    BY <1>1, <2>1 DEF Conns
  <2>4. \A k \in Nodes, j \in Links : Fixed(k, j)
    BY <1>1, <2>2, <2>3, NothingThins, OneRests
  <2>5. AioCalm
    BY <1>4, TurnsCalm DEF Stays
  <2>. QED
    BY <2>4, <2>5, Unmoved, FixedStep DEF OnConnect
<1>5. CASE /\ conn' = [conn EXCEPT ![<<n, l>>].session = l, ![<<n, l>>].ops = (@ \ {"connect"}) \cup {"recv"},
                                   ![<<n, l>>].queue = With(@, m), ![<<n, l>>].bell = TRUE]
           /\ UNCHANGED aio
  <2>1. PICK y : y = [x EXCEPT !.session = l, !.ops = (@ \ {"connect"}) \cup {"recv"},
                               !.queue = r, !.bell = TRUE]
    OBVIOUS
  <2>2. conn' = [conn EXCEPT ![<<n, l>>] = y]
    BY <1>1, <1>3, <1>5, <2>1, ConnHas
  <2>3. y.life = x.life /\ y.state = x.state /\ y.addr = x.addr /\ y.out = x.out /\ y.queue = r
    BY <1>1, <2>1 DEF Conns
  <2>4. \A k \in Nodes, j \in Links : Fixed(k, j)
    BY <1>1, <1>3, <2>2, <2>3, OneRests
  <2>. QED
    BY <1>5, <2>4, Unmoved, FixedStep DEF OnConnect
<1>. QED
  BY <1>2, <1>4, <1>5 DEF OnConnect

LEMMA ClosesAreNoPosts ==
  ASSUME ConnInv, NEW n \in Nodes, NEW l \in Links, Live(<<n, l>>),
         UNCHANGED box \/ TellClose(n, <<n, l>>)
  PROVE  QuietBox
<1>1. conn[<<n, l>>].addr \in Addresses
  BY DEF ConnInv, RoleOf, Connects, Listens, LinkOf, Addresses
<1>2. PICK m \in Messages : m = CloseOf(<<n, l>>) /\ m.kind # "post"
  <2>1. \A a \in Addresses : Message("close", a, 0, None) \in Messages
    BY DEF Message, Messages, Addresses
  <2>2. CloseOf(<<n, l>>) \in Messages
    BY <1>1, <2>1, Zenon DEF CloseOf
  <2>. QED
    BY <2>2 DEF CloseOf, Message
<1>3. BoxGains(n, m)
  BY <1>2 DEF TellClose, BoxGains
<1>. QED
  BY <1>2, <1>3, BoxGainsNoPost

LEMMA ShutOrder ==
  ASSUME ConnInv, Lined, NEW n \in Nodes, NEW l \in Links, NEW at \in {"shut", "revoke"}, ShutStep(n, l, at),
         AioCalm, UNCHANGED <<map, config, comm, tcp, wire, posted, inbox>>
  PROVE  Lined'
<1>1. Live(<<n, l>>) /\ QuietBox
  BY ClosesAreNoPosts DEF ShutStep
<1>2. PICK y : /\ Becomes(n, l, y) /\ conn'[<<n, l>>] = y
               /\ y.queue = conn[<<n, l>>].queue /\ y.out = conn[<<n, l>>].out
  BY ShutChanges
<1>3. \A k \in Nodes, j \in Links : Fixed(k, j)
  BY <1>2, NothingThins, OneRests DEF Becomes
<1>. QED
  BY <1>1, <1>3, Unmoved, FixedStep

LEMMA ShutsOrder ==
  ASSUME ConnInv, Lined, NEW n \in Nodes, AdminShut(n) \/ AioShut(n)
  PROVE  Lined'
<1>1. CASE AdminShut(n)
  <2>1. PICK l \in Links, at \in {"shut", "revoke"} : l = admin[n].link /\ at = admin[n].at
    BY <1>1 DEF AdminShut, ShutByActor, ConnInv, Types, NodeTypes, Actors
  <2>2. ShutStep(n, l, at) /\ UNCHANGED <<map, config, comm, aio, tcp, wire, posted, inbox>>
    BY <1>1, <2>1 DEF AdminShut, ShutByActor
  <2>. QED
    BY <2>2, Unmoved, ShutOrder
<1>2. CASE AioShut(n)
  <2>1. PICK l \in Links, at \in {"shut", "revoke"} : l = aio[n].link /\ at = aio[n].at
    BY <1>2, InsideIs DEF AioShut, ShutByActor
  <2>2. ShutStep(n, l, at) /\ UNCHANGED <<map, config, comm, admin, tcp, wire, posted, inbox>>
    BY <1>2, <2>1 DEF AioShut, ShutByActor
  <2>3. aio' = [aio EXCEPT ![n] = Idle] \/ aio' = [aio EXCEPT ![n] = At("revoke", l)]
    BY <1>2, <2>1 DEF AioShut, Rests, AfterShut
  <2>4. AioCalm
    BY <2>3, TurnsCalm
  <2>. QED
    BY <2>2, <2>4, ShutOrder
<1>. QED
  BY <1>1, <1>2

LEMMA ThreadAskOrder ==
  ASSUME ConnInv, Lined, NEW n \in Nodes, NEW l \in Links, ThreadAsk(n, l)
  PROVE  Lined'
<1>1. PICK x \in Conns : x = conn[<<n, l>>]
  BY ConnHas
<1>2. PICK t : t = IF HasJob(<<n, l>>) THEN "job" ELSE "asleep"
  OBVIOUS
<1>3. PICK y : y = [x EXCEPT !.bell = FALSE, !.thread = t]
  OBVIOUS
<1>4. conn' = [conn EXCEPT ![<<n, l>>] = y]
  BY <1>1, <1>2, <1>3, ConnHas DEF ThreadAsk
<1>5. y.life = x.life /\ y.state = x.state /\ y.addr = x.addr /\ y.out = x.out /\ y.queue = x.queue
  BY <1>3 DEF Conns
<1>6. \A k \in Nodes, j \in Links : Fixed(k, j)
  BY <1>1, <1>4, <1>5, NothingThins, OneRests
<1>. QED
  BY <1>6, Unmoved, FixedStep DEF ThreadAsk

LEMMA ThreadShutOrder ==
  ASSUME ConnInv, Lined, NEW n \in Nodes, NEW l \in Links, ThreadShut(n, l)
  PROVE  Lined'
<1>1. PICK x \in Conns : x = conn[<<n, l>>]
  BY ConnHas
<1>2. \/ x.thread = "revoke"
         /\ conn' = [conn EXCEPT ![<<n, l>>] = [x EXCEPT !.bell = FALSE, !.thread = "asleep"]]
      \/ x.thread = "shut" /\ ~x.blocked
         /\ conn' = [conn EXCEPT ![<<n, l>>] = [x EXCEPT !.blocked = TRUE, !.thread = "revoke"]]
      \/ x.thread = "shut" /\ x.blocked
         /\ conn' = [conn EXCEPT ![<<n, l>>] = [x EXCEPT !.thread = "asleep"]]
  <2>1. CASE x.thread = "revoke"
    BY <1>1, <2>1 DEF ThreadShut, AfterShut, Revoked, ConnInv, Types, ConnTypes, Ends
  <2>2. CASE x.thread = "shut" /\ ~x.blocked
    BY <1>1, <2>2 DEF ThreadShut, AfterShut, Blocked, ConnInv, Types, ConnTypes, Ends
  <2>3. CASE x.thread = "shut" /\ x.blocked
    BY <1>1, <2>3 DEF ThreadShut, AfterShut, ConnInv, Types, ConnTypes, Ends
  <2>. QED
    BY <1>1, <2>1, <2>2, <2>3 DEF ThreadShut
<1>3. PICK y : /\ conn' = [conn EXCEPT ![<<n, l>>] = y]
               /\ y \in {[x EXCEPT !.bell = FALSE, !.thread = "asleep"],
                         [x EXCEPT !.blocked = TRUE, !.thread = "revoke"],
                         [x EXCEPT !.thread = "asleep"]}
  BY <1>2
<1>4. y.life = x.life /\ y.state = x.state /\ y.addr = x.addr /\ y.out = x.out /\ y.queue = x.queue
  BY <1>3 DEF Conns
<1>5. \A k \in Nodes, j \in Links : Fixed(k, j)
  BY <1>1, <1>3, <1>4, NothingThins, OneRests
<1>6. QuietBox
  BY ClosesAreNoPosts DEF ThreadShut
<1>. QED
  BY <1>5, <1>6, Unmoved, FixedStep DEF ThreadShut

\* The callbacks that return.
LEMMA ReturnsOrder ==
  ASSUME ConnInv, Lined, NEW n \in Nodes, SentWakes(n) \/ Greeted(n) \/ Done(n)
  PROVE  Lined'
<1>1. PICK l \in Links : l = aio[n].link
  BY InsideIs DEF SentWakes, Greeted, Done, Inside
<1>2. PICK x \in Conns : x = conn[<<n, l>>]
  BY ConnHas
<1>3. PICK o : o = x.ops \cup {"recv"}
  OBVIOUS
<1>4. PICK y : /\ conn' = [conn EXCEPT ![<<n, l>>] = y]
               /\ y \in {[x EXCEPT !.bell = TRUE], [x EXCEPT !.ops = o],
                         [x EXCEPT !.ops = o, !.bell = TRUE]}
  <2>1. CASE SentWakes(n)
    <3>1. conn' = [conn EXCEPT ![<<n, l>>] = [x EXCEPT !.bell = TRUE]]
      BY <1>1, <1>2, <2>1, ConnHas DEF SentWakes
    <3>. QED
      BY <3>1
  <2>2. CASE Greeted(n)
    <3>1. conn' = [conn EXCEPT ![<<n, l>>] = [x EXCEPT !.ops = o, !.bell = TRUE]]
      BY <1>1, <1>2, <1>3, <2>2, ConnHas DEF Greeted, ReceivesAgain
    <3>. QED
      BY <3>1
  <2>3. CASE Done(n)
    <3>1. conn' = [conn EXCEPT ![<<n, l>>] = [x EXCEPT !.ops = o]]
      BY <1>1, <1>2, <1>3, <2>3, ConnHas DEF Done, ReceivesAgain
    <3>. QED
      BY <3>1
  <2>. QED
    BY <2>1, <2>2, <2>3
<1>5. y.life = x.life /\ y.state = x.state /\ y.addr = x.addr /\ y.out = x.out /\ y.queue = x.queue
  BY <1>4 DEF Conns
<1>6. \A k \in Nodes, j \in Links : Fixed(k, j)
  BY <1>2, <1>4, <1>5, NothingThins, OneRests
<1>7. AioCalm
  BY TurnsCalm DEF SentWakes, Greeted, Done, Leaves
<1>8. UNCHANGED <<box, map, config, comm, admin, tcp, wire, posted, inbox>>
  BY DEF SentWakes, Greeted, Done
<1>. QED
  BY <1>6, <1>7, <1>8, Unmoved, FixedStep

\* v_on_error, and what is received out of turn.
LEMMA ThrowsOrder ==
  ASSUME ConnInv, Lined, NEW n \in Nodes, NEW l \in Links, OnError(n, l) \/ Throws(n, l)
  PROVE  Lined'
<1>1. PICK x \in Conns : x = conn[<<n, l>>]
  BY ConnHas
<1>2. PICK o : conn' = [conn EXCEPT ![<<n, l>>] = [x EXCEPT !.ops = o]]
  <2>1. PICK op : conn' = [conn EXCEPT ![<<n, l>>].ops = @ \ {op}]
    BY DEF OnError, Throws, Silent
  <2>. QED
    BY <1>1, <2>1, ConnHas
<1>3. PICK y : y = [x EXCEPT !.ops = o] /\ conn' = [conn EXCEPT ![<<n, l>>] = y]
  BY <1>2
<1>4. y.life = x.life /\ y.state = x.state /\ y.addr = x.addr /\ y.out = x.out /\ y.queue = x.queue
  BY <1>3 DEF Conns
<1>5. \A k \in Nodes, j \in Links : Fixed(k, j)
  BY <1>1, <1>3, <1>4, NothingThins, OneRests
<1>6. AioCalm
  BY TurnsCalm DEF OnError, Throws, Stays
<1>7. ThinWires
  BY Unmoved, WireLosesFirst DEF OnError, Throws, Receives, Consumes
<1>8. UNCHANGED <<box, map, config, comm, admin, tcp, posted, inbox>>
  BY DEF OnError, Throws
<1>. QED
  BY <1>5, <1>6, <1>7, <1>8, Unmoved, FixedStep

LEMMA AddOrder ==
  ASSUME ConnInv, Lined, NEW n \in Nodes, CommAdd(n)
  PROVE  Lined'
<1>1. PICK l \in Links : l = comm[n].link
  BY DEF CommAdd, ConnInv, Types, NodeTypes
<1>2. PICK x \in Conns : x = conn[<<n, l>>]
  BY ConnHas
<1>3. PICK y : y = [x EXCEPT !.bell = TRUE]
  OBVIOUS
<1>4. conn' = [conn EXCEPT ![<<n, l>>] = y]
  BY <1>1, <1>2, <1>3, ConnHas DEF CommAdd
<1>5. y.life = x.life /\ y.state = x.state /\ y.addr = x.addr /\ y.out = x.out /\ y.queue = x.queue
  BY <1>3 DEF Conns
<1>6. \A k \in Nodes, j \in Links : Fixed(k, j)
  BY <1>2, <1>4, <1>5, NothingThins, OneRests
<1>7. QuietComms /\ comm'[n].at = "push" /\ \A k \in Nodes : k # n => map'[k] = map[k]
  BY DEF CommAdd, QuietComms, ConnInv, Types, NodeTypes
<1>8. QuietMap
  BY <1>7 DEF QuietMap
<1>. QED
  BY <1>6, <1>7, <1>8, Unmoved, FixedStep DEF CommAdd

\* One end changes and gains no post.
LEMMA OneLosesPosts ==
  ASSUME ConnInv, NEW n \in Nodes, NEW l \in Links, NEW x, x = conn[<<n, l>>],
         NEW y, conn' = [conn EXCEPT ![<<n, l>>] = y],
         Thins(x.queue[2], y.queue[2]), y.out \in {None, x.out},
         \/ x.life = "live" => y.life = "live" /\ y.addr = x.addr
         \/ PostsIn(y.queue[2]) = {} /\ (y.out # None => y.out.kind # "post")
  PROVE  QuietEnds
<1>. SUFFICES ASSUME NEW k \in Nodes, NEW j \in Links
              PROVE  /\ Thins(conn[<<k, j>>].queue[2], conn'[<<k, j>>].queue[2])
                     /\ Leaving(k, j)' \subseteq Leaving(k, j)
                     /\ Owner(k, j)
  BY DEF QuietEnds
<1>1. CASE k = n /\ j = l
  <2>1. PICK e : e = <<k, j>> /\ e = <<n, l>>
    BY <1>1
  <2>2. conn'[e] = y /\ conn[e] = x
    BY <2>1, ConnHas
  <2>3. Leaving(k, j)' \subseteq Leaving(k, j)
    BY <2>1, <2>2 DEF Leaving
  <2>4. Thins(conn[e].queue[2], conn'[e].queue[2])
    BY <2>2
  <2>5. Owner(k, j)
    <3>1. CASE x.life = "live" => y.life = "live" /\ y.addr = x.addr
      BY <2>1, <2>2, <3>1 DEF Owner, Live
    <3>2. CASE PostsIn(y.queue[2]) = {} /\ (y.out # None => y.out.kind # "post")
      <4>1. Going(k, j)' = {} /\ Leaving(k, j)' = {}
        BY <2>1, <2>2, <3>2 DEF Going, Leaving
      <4>. QED
        BY <4>1 DEF Owner
    <3>. QED
      BY <3>1, <3>2
  <2>. QED
    BY <2>1, <2>3, <2>4, <2>5
<1>2. CASE k # n \/ j # l
  <2>1. conn'[<<k, j>>] = conn[<<k, j>>]
    BY <1>2, OneAlters
  <2>. QED
    BY <2>1, NothingThins DEF Leaving, Owner, Live
<1>. QED
  BY <1>1, <1>2

\* One end may change its address or its state.
LEMMA AddrsMove ==
  ASSUME ConnInv, AddrOf, QuietLinks, NEW n \in Nodes, NEW l \in Links,
         NEW y, conn' = [conn EXCEPT ![<<n, l>>] = y],
         \A k \in Nodes : aio'[k].at = "answer" => aio'[k] = aio[k] \/ (k = n /\ aio'[n].link = l),
         y.life = "live" => y.addr \in {Far(n, l), l},
         y.life = "live" /\ y.addr = l => /\ y.state = "receiver"
                                          /\ ~(aio'[n].at = "answer" /\ aio'[n].link = l)
  PROVE  AddrOf'
<1>. SUFFICES ASSUME NEW k \in Nodes, NEW j \in Links, Live(<<k, j>>)'
              PROVE  /\ conn'[<<k, j>>].addr \in {Far(k, j)', j}
                     /\ conn'[<<k, j>>].addr = j =>
                          /\ conn'[<<k, j>>].state = "receiver"
                          /\ ~(aio'[k].at = "answer" /\ aio'[k].link = j)
  BY DEF AddrOf
<1>1. Far(k, j)' = Far(k, j)
  BY DEF QuietLinks, Far
<1>2. CASE k = n /\ j = l
  <2>1. PICK e : e = <<k, j>> /\ e = <<n, l>>
    BY <1>2
  <2>2. conn'[e] = y
    BY <2>1, ConnHas
  <2>. QED
    BY <1>1, <1>2, <2>1, <2>2 DEF Live
<1>3. CASE k # n \/ j # l
  <2>1. conn'[<<k, j>>] = conn[<<k, j>>]
    BY <1>3, OneAlters
  <2>2. Live(<<k, j>>)
    BY <2>1 DEF Live
  <2>3. aio'[k].at = "answer" /\ aio'[k].link = j => aio'[k] = aio[k]
    BY <1>3
  <2>. QED
    BY <1>1, <2>1, <2>2, <2>3 DEF AddrOf
<1>. QED
  BY <1>2, <1>3

\* One end is deleted.
LEMMA OneDies ==
  ASSUME ConnInv, Lined, NEW n \in Nodes, NEW l \in Links, Live(<<n, l>>),
         conn' = [conn EXCEPT ![<<n, l>>] = Deleted(<<n, l>>)], tcp' = Down(l),
         AioCalm, QuietBox, ThinWires, QuietComms, QuietMap,
         config' \subseteq config, posted' = posted, inbox' = inbox
  PROVE  Lined'
<1>1. PICK x \in Conns : x = conn[<<n, l>>]
  BY ConnHas
<1>2. PICK y \in Conns : /\ y = Deleted(<<n, l>>) /\ y.life = "deleted" /\ y.out = None
                         /\ \A p \in 0 .. 2 : Elements(y.queue[p]) = {}
  BY ConnHas, DeletedIs
<1>3. conn' = [conn EXCEPT ![<<n, l>>] = y]
  BY <1>2
<1>4. PostsIn(y.queue[2]) = {} /\ InOrder(y.queue[2])
  BY <1>2, NoPosts
<1>5. Thins(x.queue[2], y.queue[2])
  BY <1>4 DEF Thins
<1>6. QuietEnds
  BY <1>1, <1>2, <1>3, <1>4, <1>5, OneLosesPosts
<1>7. QuietLinks
  BY FarIsOther, LinkGoesDown
<1>8. ASSUME NEW k \in Nodes, NEW j \in Links, ~Live(<<k, j>>) PROVE ~Live(<<k, j>>)'
  <2>1. k # n \/ j # l
    BY <1>8
  <2>2. conn'[<<k, j>>] = conn[<<k, j>>]
    BY <1>3, <2>1, OneAlters
  <2>. QED
    BY <1>8, <2>2 DEF Live
<1>9. QuietWires
  BY <1>8 DEF QuietWires, ThinWires
<1>10. AddrOf'
  BY <1>2, <1>3, <1>7, AddrsMove DEF AioCalm, Lined
<1>. QED
  BY <1>6, <1>7, <1>9, <1>10, QuietStep DEF Quiet

LEMMA CloseOrder ==
  ASSUME ConnInv, Lined, NEW n \in Nodes, CommClose(n)
  PROVE  Lined'
<1>1. /\ CommFree(n) /\ Taken(n) /\ UNCHANGED <<config, comm, aio, admin, wire, posted, inbox>>
  BY DEF CommClose
<1>2. QuietBox
  BY <1>1, BoxLosesFirst
<1>3. PICK a \in Addresses : a = Taking(n).who
  BY <1>1, BoxIsTaken DEF Messages, Addresses
<1>4. map \in [Nodes -> [Addresses -> Links \cup {None}]]
  BY DEF ConnInv, Types, NodeTypes
<1>5. CASE map[n][a] = None
  <2>1. UNCHANGED <<map, conn, tcp>>
    BY <1>3, <1>5 DEF CommClose
  <2>. QED
    BY <1>1, <1>2, <2>1, Unmoved, IdleOrder
<1>6. CASE map[n][a] # None
  <2>1. PICK l \in Links : l = map[n][a]
    BY <1>4, <1>6
  <2>2. /\ conn' = [conn EXCEPT ![<<n, l>>] = Deleted(<<n, l>>)]
        /\ tcp' = Down(l) /\ map' = [map EXCEPT ![n][a] = None]
    BY <1>3, <1>6, <2>1 DEF CommClose
  <2>3. Live(<<n, l>>)
    BY <2>1 DEF MapOf, ConnInv
  <2>4. \A k \in Nodes : \A b : map[k][b] = None => map'[k][b] = None
    BY <1>4, <2>2
  <2>5. QuietMap
    BY <2>4 DEF QuietMap
  <2>. QED
    BY <1>1, <1>2, <2>2, <2>3, <2>5, Unmoved, OneDies
<1>. QED
  BY <1>5, <1>6

LEMMA DuplicateOrder ==
  ASSUME ConnInv, Lined, NEW n \in Nodes, CommDuplicate(n)
  PROVE  Lined'
<1>1. PICK l \in Links : l = comm[n].link
  BY DEF CommDuplicate, ConnInv, Types, NodeTypes
<1>2. /\ Live(<<n, l>>)
      /\ conn' = [conn EXCEPT ![<<n, l>>] = Deleted(<<n, l>>)] /\ tcp' = Down(l)
      /\ comm' = [comm EXCEPT ![n] = CommIdle]
      /\ UNCHANGED <<box, map, config, aio, admin, wire, posted, inbox>>
  BY <1>1 DEF CommDuplicate
<1>3. QuietComms
  BY <1>2 DEF QuietComms, CommIdle, ConnInv, Types, NodeTypes
<1>. QED
  BY <1>2, <1>3, Unmoved, OneDies

LEMMA DeletesItselfOrder ==
  ASSUME ConnInv, Lined, NEW n \in Nodes, NEW l \in Links, DeletesItself(n, l)
  PROVE  Lined'
<1>1. /\ Live(<<n, l>>) /\ Consumes(n, l)
      /\ conn' = [conn EXCEPT ![<<n, l>>] = Deleted(<<n, l>>)] /\ tcp' = Down(l)
      /\ aio' = [aio EXCEPT ![n] = At("shut", l)]
      /\ UNCHANGED <<box, config, comm, admin, posted, inbox>>
  BY DEF DeletesItself, Receives, Enters, Stays, Consumes
<1>2. AioCalm
  BY <1>1, TurnsCalm
<1>3. ThinWires
  BY <1>1, WireLosesFirst
<1>4. \A k \in Nodes : \A b : map[k][b] = None => map'[k][b] = None
  BY DEF DeletesItself, ConnInv, Types, NodeTypes
<1>5. QuietMap
  BY <1>4 DEF QuietMap
<1>. QED
  BY <1>1, <1>2, <1>3, <1>5, Unmoved, OneDies

\* The end of n, which was x, becomes y: it may lose posts or be given another address, but
\* no post, and what it was sending stays.
Shifts(n, l, x, y) ==
  /\ x = conn[<<n, l>>] /\ conn' = [conn EXCEPT ![<<n, l>>] = y]
  /\ Thins(x.queue[2], y.queue[2]) /\ y.out = x.out /\ y.life = "live"
  /\ \/ x.life = "live" => y.addr = x.addr
     \/ PostsIn(y.queue[2]) = {} /\ (y.out # None => y.out.kind # "post")
  /\ y.addr \in {Far(n, l), l}
  /\ y.addr = l => y.state = "receiver" /\ ~(aio'[n].at = "answer" /\ aio'[n].link = l)
  /\ x.life = "live" \/ PostsIn(wire'[<<n, l>>]) = {}
  /\ \A k \in Nodes : aio'[k].at = "answer" => aio'[k] = aio[k] \/ (k = n /\ aio'[n].link = l)

LEMMA OneMoves ==
  ASSUME ConnInv, Lined, NEW n \in Nodes, NEW l \in Links, NEW x, NEW y, Shifts(n, l, x, y),
         ThinWires, QuietMap, UNCHANGED <<box, config, comm, tcp, posted, inbox>>
  PROVE  Lined'
<1>1. QuietEnds
  BY OneLosesPosts DEF Shifts
<1>2. QuietLinks /\ QuietBox /\ QuietComms
  BY Unmoved
<1>3. AddrOf'
  BY <1>2, AddrsMove DEF Lined, Shifts
<1>4. ASSUME NEW k \in Nodes, NEW j \in Links, Live(<<k, j>>)', ~Live(<<k, j>>)
      PROVE  Arriving(k, j)' = {}
  <2>1. CASE k = n /\ j = l
    <3>1. PICK e : e = <<k, j>> /\ e = <<n, l>>
      BY <2>1
    <3>. QED
      BY <1>4, <3>1 DEF Live, Arriving, Shifts
  <2>2. CASE k # n \/ j # l
    <3>1. conn'[<<k, j>>] = conn[<<k, j>>]
      BY <2>2, OneAlters DEF Shifts
    <3>. QED
      BY <1>4, <3>1 DEF Live
  <2>. QED
    BY <2>1, <2>2
<1>5. QuietWires
  BY <1>4 DEF QuietWires, ThinWires
<1>. QED
  BY <1>1, <1>2, <1>3, <1>5, QuietStep DEF Quiet

LEMMA FarIsNode ==
  ASSUME ConnInv, NEW n \in Nodes, NEW l \in Links, Live(<<n, l>>)
  PROVE  Far(n, l) # l
BY FarIsOther, NodesAssumption

LEMMA AnswersOrder ==
  ASSUME ConnInv, Lined, NEW n \in Nodes, Answers(n)
  PROVE  Lined'
<1>1. PICK l \in Links : l = aio[n].link
  BY InsideIs DEF Answers, Inside
<1>2. Live(<<n, l>>) /\ aio[n].at = "answer" /\ aio' = [aio EXCEPT ![n] = At("reply", l)]
  BY <1>1 DEF Answers, Inside, Stays
<1>3. PICK x \in Conns : x = conn[<<n, l>>]
  BY ConnHas
<1>4. PICK y : y = [x EXCEPT !.state = "connected"]
  OBVIOUS
<1>5. conn' = [conn EXCEPT ![<<n, l>>] = y]
  BY <1>1, <1>3, <1>4, ConnHas DEF Answers
<1>6. y.life = x.life /\ y.addr = x.addr /\ y.out = x.out /\ y.queue = x.queue
  BY <1>4 DEF Conns
<1>7. y.life = "live" /\ y.addr = Far(n, l) /\ y.addr # l
  BY <1>1, <1>2, <1>3, <1>6 DEF Lined, AddrOf, Live
<1>8. AioCalm
  BY <1>2, TurnsCalm
<1>9. UNCHANGED <<box, map, config, comm, tcp, wire, posted, inbox>>
  BY DEF Answers
<1>10. Thins(x.queue[2], y.queue[2]) /\ ThinWires /\ QuietMap
  BY <1>6, <1>9, NothingThins, Unmoved
<1>11. Shifts(n, l, x, y)
  BY <1>2, <1>3, <1>5, <1>6, <1>7, <1>8, <1>10 DEF AioCalm, Shifts, Live
<1>. QED
  BY <1>9, <1>10, <1>11, OneMoves

LEMMA AnsweredOrder ==
  ASSUME ConnInv, Lined, NEW n \in Nodes, NEW l \in Links, Answered(n, l)
  PROVE  Lined'
<1>1. /\ Live(<<n, l>>) /\ Consumes(n, l) /\ aio' = [aio EXCEPT ![n] = At("greeted", l)]
      /\ conn[<<n, l>>].state = "initiator" /\ Got(n, l).kind = "welcome"
      /\ UNCHANGED <<box, map, config, comm, tcp, posted, inbox>>
  BY DEF Answered, Receives, Enters, Consumes, Stays, IsAnswer
<1>2. PICK a : a = Got(n, l).who
  OBVIOUS
<1>3. a = Far(n, l) /\ conn[<<n, l>>].addr = a /\ a # l
  <2>1. Connects(n, l) /\ tcp[l].to # n
    BY <1>1, FarIsOther DEF ConnInv, RoleOf, Listens, Connects
  <2>2. Carries(Far(n, l), l, Got(n, l))
    BY <1>1, GotWasCarried DEF Consumes
  <2>3. Got(n, l).who = Far(n, l)
    BY <1>1, <2>2 DEF Carries
  <2>4. Far(n, l) = tcp[l].to
    BY <2>1 DEF Connects, Far
  <2>. QED
    BY <1>1, <1>2, <2>1, <2>3, <2>4, FarIsNode DEF Connects
<1>4. PICK x \in Conns : x = conn[<<n, l>>]
  BY ConnHas
<1>5. PICK o : o = x.ops \ {"recv"}
  OBVIOUS
<1>6. PICK y : y = [x EXCEPT !.ops = o, !.state = "connected", !.addr = a]
  OBVIOUS
<1>7. conn' = [conn EXCEPT ![<<n, l>>] = y]
  BY <1>2, <1>4, <1>5, <1>6, ConnHas DEF Answered, Silent
<1>8. y.life = x.life /\ y.addr = a /\ y.out = x.out /\ y.queue = x.queue
  BY <1>6 DEF Conns
<1>9. AioCalm
  BY <1>1, TurnsCalm
<1>10. Thins(x.queue[2], y.queue[2]) /\ ThinWires /\ QuietMap
  BY <1>1, <1>8, NothingThins, Unmoved, WireLosesFirst
<1>11. x.life = "live" /\ y.life = "live" /\ y.addr = x.addr
  BY <1>1, <1>3, <1>4, <1>8 DEF Live
<1>12. y.addr \in {Far(n, l), l} /\ y.addr # l
  BY <1>3, <1>8
<1>13. \A k \in Nodes : aio'[k].at = "answer" => aio'[k] = aio[k]
  BY <1>9 DEF AioCalm
<1>14. Shifts(n, l, x, y)
  BY <1>4, <1>7, <1>8, <1>10, <1>11, <1>12, <1>13 DEF Shifts
<1>. QED
  BY <1>1, <1>10, <1>14, OneMoves

\* The peer that the communicator is about to add does not connect itself.
LEMMA AddedIsNotAccepted ==
  ASSUME OneSided, ConnInv, Lined, NEW n \in Nodes, NEW l \in Links, tcp[l].is # "none", tcp[l].to = n,
         comm[n].at = "add"
  PROVE  tcp[comm[n].link].to \in Nodes \ {tcp[l].from}
<1>1. PICK j \in Links : j = comm[n].link
  BY DEF ConnInv, Types, NodeTypes
<1>2. Live(<<n, j>>) /\ tcp[j].from = n
  BY <1>1 DEF ConnInv, MapOf
<1>3. tcp[j].is # "none" /\ tcp[j].to \in Nodes
  BY <1>2, FarIsOther
<1>4. <<n, tcp[j].to>> \in Configured /\ <<tcp[l].from, n>> \in Configured
  BY <1>2, <1>3 DEF Lined, AsConfigured
<1>5. tcp[j].to # tcp[l].from
  BY <1>4 DEF OneSided
<1>. QED
  BY <1>1, <1>3, <1>5

LEMMA ReaddressOrder ==
  ASSUME OneSided, ConnInv, Lined, NEW n \in Nodes, NEW l \in Links, Readdress(n, l)
  PROVE  Lined'
<1>1. PICK w \in {"answer", "shut"} :
        /\ Live(<<n, l>>) /\ Consumes(n, l) /\ aio' = [aio EXCEPT ![n] = At(w, l)]
        /\ conn[<<n, l>>].state = "receiver" /\ Got(n, l).kind \in {"hello", "welcome"}
        /\ UNCHANGED <<box, config, comm, tcp, posted, inbox>>
  BY DEF Readdress, Receives, Enters, Consumes, Stays, IsGreeting
<1>2. PICK a : a = Got(n, l).who
  OBVIOUS
<1>3. a = Far(n, l) /\ a # l /\ tcp[l].to = n /\ tcp[l].from = a /\ tcp[l].is # "none"
  <2>1. Listens(n, l) /\ tcp[l].from # n /\ tcp[l].is # "none"
    BY <1>1, FarIsOther DEF ConnInv, RoleOf, Listens, Connects
  <2>2. Carries(Far(n, l), l, Got(n, l))
    BY <1>1, GotWasCarried DEF Consumes
  <2>3. Got(n, l).who = Far(n, l)
    BY <1>1, <2>2 DEF Carries
  <2>4. Far(n, l) = tcp[l].from
    BY <2>1 DEF Listens, Far
  <2>. QED
    BY <1>1, <1>2, <2>1, <2>3, <2>4, FarIsNode DEF Listens
<1>4. PICK x \in Conns : x = conn[<<n, l>>]
  BY ConnHas
<1>5. PICK o : o = x.ops \ {"recv"}
  OBVIOUS
<1>6. PICK s : s = Got(n, l).session
  OBVIOUS
<1>7. PICK y : y = [x EXCEPT !.ops = o, !.addr = a, !.session = s]
  OBVIOUS
<1>8. conn' = [conn EXCEPT ![<<n, l>>] = y]
  BY <1>2, <1>4, <1>5, <1>6, <1>7, ConnHas DEF Readdress, Silent
<1>9. y.life = x.life /\ y.addr = a /\ y.out = x.out /\ y.queue = x.queue
  BY <1>7 DEF Conns
<1>10. Thins(x.queue[2], y.queue[2]) /\ ThinWires
  BY <1>1, <1>9, NothingThins, WireLosesFirst
<1>11. x.life = "live" /\ y.life = "live"
  BY <1>1, <1>4, <1>9 DEF Live
<1>12. \/ y.addr = x.addr
       \/ PostsIn(y.queue[2]) = {} /\ (y.out # None => y.out.kind # "post")
  <2>. SUFFICES ASSUME x.addr = l
                PROVE  PostsIn(y.queue[2]) = {} /\ (y.out # None => y.out.kind # "post")
    BY <1>1, <1>3, <1>4, <1>9 DEF Lined, AddrOf
  <2>1. \A p \in Going(n, l) \cup Leaving(n, l) : p \in posted /\ To[p] = l
    BY <1>4 DEF Lined, PlacedEnds
  <2>2. Going(n, l) \cup Leaving(n, l) = {}
    BY <2>1, PeopleAreNodes, NodesAssumption DEF Lined, PostedOf
  <2>3. y.out # None /\ y.out.kind = "post" => y.out.post \in Posts
    BY <1>4, <1>9 DEF ConnInv, CarryOf, Carries
  <2>. QED
    BY <1>4, <1>9, <2>2, <2>3 DEF Going, Leaving
<1>13. QuietMap
  <2>1. ASSUME NEW k \in Nodes, NEW b, comm[k].at = "add", b = tcp[comm[k].link].to, map[k][b] = None
        PROVE  map'[k][b] = None
    <3>1. CASE k = n
      <4>1. b # a /\ b \in Addresses
        BY <1>3, <2>1, <3>1, AddedIsNotAccepted DEF Addresses
      <4>. QED
        BY <1>2, <2>1, <3>1, <4>1 DEF Readdress, ConnInv, Types, NodeTypes
    <3>2. CASE k # n
      BY <2>1, <3>2 DEF Readdress, ConnInv, Types, NodeTypes
    <3>. QED
      BY <3>1, <3>2
  <2>. QED
    BY <1>1, <2>1 DEF QuietMap
<1>14. \A k \in Nodes : aio'[k].at = "answer" => aio'[k] = aio[k] \/ (k = n /\ aio'[n].link = l)
  BY <1>1, ConnHas, Places
<1>15. y.addr \in {Far(n, l), l} /\ y.addr # l
  BY <1>3, <1>9
<1>16. Shifts(n, l, x, y)
  BY <1>4, <1>8, <1>9, <1>10, <1>11, <1>12, <1>14, <1>15 DEF Shifts
<1>. QED
  BY <1>1, <1>10, <1>13, <1>16, OneMoves

LEMMA AcceptOrder ==
  ASSUME ConnInv, Lined, NEW n \in Nodes, NEW l \in Links, Accept(n, l)
  PROVE  Lined'
<1>1. /\ conn[<<n, l>>].life = "none" /\ tcp[l].is # "none" /\ tcp[l].to = n /\ aio[n].at = "idle"
      /\ UNCHANGED <<box, config, comm, aio, tcp, wire, posted, inbox>>
  BY DEF Accept
<1>2. PICK z \in Conns : Fresh(z, "receiver", l, "recv")
  BY NewConnIs DEF Addresses
<1>3. PICK y \in Conns : y = [z EXCEPT !.bell = TRUE]
  BY DEF Conns
<1>4. conn' = [conn EXCEPT ![<<n, l>>] = y]
  BY <1>2, <1>3 DEF Accept, Fresh
<1>5. /\ y.life = "live" /\ y.state = "receiver" /\ y.addr = l /\ y.out = None
      /\ y.queue = z.queue
  BY <1>2, <1>3 DEF Conns, Fresh
<1>6. PICK x \in Conns : x = conn[<<n, l>>] /\ x.life = "none" /\ x.out = None
  BY <1>1, ConnHas, NoConnIs DEF ConnInv, RoleOf
<1>7. PostsIn(y.queue[2]) = {} /\ InOrder(y.queue[2])
  BY <1>2, <1>5, NoPosts DEF Fresh
<1>8. Thins(x.queue[2], y.queue[2])
  BY <1>7 DEF Thins
<1>9. PostsIn(wire'[<<n, l>>]) = {}
  <2>1. ~Established(l)
    BY <1>1, NoConnIs DEF Established, ConnInv, RoleOf
  <2>2. \A m \in Elements(wire[<<n, l>>]) : m.kind = "hello"
    BY <1>1, <2>1 DEF ConnInv, SilenceOf
  <2>. QED
    BY <1>1, <2>2 DEF PostsIn
<1>10. QuietMap
  <2>1. ASSUME NEW k \in Nodes, NEW b, comm[k].at = "add", b = tcp[comm[k].link].to, map[k][b] = None
        PROVE  map'[k][b] = None
    <3>1. PICK j \in Links : j = comm[k].link /\ Live(<<k, j>>)
      BY <2>1 DEF ConnInv, Types, NodeTypes, MapOf
    <3>2. b \in Nodes /\ b # l
      BY <2>1, <3>1, FarIsOther, NodesAssumption
    <3>. QED
      BY <2>1, <3>2 DEF Accept, ConnInv, Types, NodeTypes
  <2>. QED
    BY <1>1, <2>1 DEF QuietMap
<1>11. ~(aio'[n].at = "answer" /\ aio'[n].link = l)
  BY <1>1
<1>12. \A k \in Nodes : aio'[k].at = "answer" => aio'[k] = aio[k] \/ (k = n /\ aio'[n].link = l)
  BY <1>1
<1>13. ThinWires
  BY <1>1, Unmoved
<1>14. /\ y.out = x.out /\ y.addr \in {Far(n, l), l} /\ x.life # "live"
       /\ y.addr = l => y.state = "receiver" /\ ~(aio'[n].at = "answer" /\ aio'[n].link = l)
  BY <1>5, <1>6, <1>11
<1>15. Shifts(n, l, x, y)
  BY <1>4, <1>5, <1>6, <1>8, <1>9, <1>12, <1>14 DEF Shifts
<1>. QED
  BY <1>1, <1>10, <1>13, <1>15, OneMoves

-----------------------------------------------------------------------------
(* A post is made, and delivered.                                          *)

LEMMA WhatIsOnItsWay ==
  ASSUME Lined, NEW k \in 0 .. 6, NEW x \in Posts, In(k, x)
  PROVE  x \in posted
<1>1. CASE k = 0
  BY <1>1, PeopleAreNodes DEF In, Delivered, Lined, PlacedInbox
<1>2. CASE k \in {1, 6}
  BY <1>2, PeopleAreNodes DEF In, Arrived, Waiting, Lined, PlacedBox
<1>3. CASE k = 2
  <2>1. OnWire(x)
    BY <1>3 DEF In
  <2>2. PICK l \in Links : x \in Arriving(To[x], l)
    BY <2>1 DEF OnWire
  <2>. QED
    BY <2>2, PeopleAreNodes DEF Lined, PlacedWires
<1>4. CASE k \in {3, 4}
  <2>1. PICK l \in Links : x \in Going(From[x], l) \cup Leaving(From[x], l)
    BY <1>4 DEF In, Sent, Queued
  <2>. QED
    BY <2>1, PeopleAreNodes DEF Lined, PlacedEnds
<1>5. CASE k = 5
  <2>1. comm[From[x]].at # "idle" /\ comm[From[x]].post = x
    BY <1>5 DEF In, Held
  <2>. QED
    BY <2>1, PeopleAreNodes DEF Lined, PlacedComm
<1>. QED
  BY <1>1, <1>2, <1>3, <1>4, <1>5

\* The communicator of n is given the post x.
BoxJoins(n, x) ==
  /\ \A k \in Nodes : \A p \in 0 .. 2 :
       PostsIn(box'[k][p]) \subseteq PostsIn(box[k][p]) \cup {y \in {x} : k = n /\ p = 2}
  /\ \A k \in Nodes : InOrder(box[k][2]) =>
       InOrder(box'[k][2]) \/ (k = n /\ ~\A y \in PostsIn(box[n][2]) : Same(y, x) => y < x)

LEMMA BoxGainsPost ==
  ASSUME ConnInv, NEW n \in Nodes, NEW m \in Messages, m.kind = "post", BoxGains(n, m)
  PROVE  BoxJoins(n, m.post)
<1>1. CASE box' = box
  BY <1>1 DEF BoxJoins
<1>2. CASE box' = [box EXCEPT ![n] = With(@, m)]
  <2>1. PICK q \in Queues, r \in Queues :
          /\ q = box[n] /\ r = With(q, m) /\ Joins(q[2], r[2], m.post)
          /\ \A p \in {0, 1} : Thins(q[p], r[p])
    BY ConnHas, PushAt
  <2>2. box' = [box EXCEPT ![n] = r]
    BY <1>2, <2>1
  <2>3. box'[n] = r /\ \A k \in Nodes : k # n => box'[k] = box[k]
    BY <2>2, ConnHas
  <2>4. \A p \in 0 .. 2 : PostsIn(r[p]) \subseteq PostsIn(q[p]) \cup {y \in {m.post} : p = 2}
    BY <2>1 DEF Thins, Joins
  <2>5. InOrder(q[2]) => InOrder(r[2]) \/ ~\A y \in PostsIn(q[2]) : Same(y, m.post) => y < m.post
    BY <2>1 DEF Joins
  <2>. QED
    BY <2>1, <2>3, <2>4, <2>5 DEF BoxJoins
<1>. QED
  BY <1>1, <1>2 DEF BoxGains

\* What is neither touched nor given a post.
LEMMA EndsUnmoved ==
  /\ conn' = conn => QuietEnds
  /\ conn' = conn /\ wire' = wire => QuietWires
  /\ conn' = conn /\ aio' = aio => QuietAddrs
BY NothingThins DEF QuietEnds, Owner, Leaving, Live, QuietWires, QuietAddrs

LEMMA MakePostOrder ==
  ASSUME ConnInv, Lined, NEW x \in Posts, MakePost(x)
  PROVE  Lined'
<1>1. PICK n \in Nodes : n = From[x] /\ To[x] # n
  BY PeopleAreNodes
<1>2. /\ x \notin posted /\ posted' = posted \cup {x}
      /\ \A j \in 1 .. x - 1 : From[j] = From[x] => j \in posted
      /\ UNCHANGED <<map, config, comm, aio, conn, tcp, wire, inbox>>
  BY DEF MakePost
<1>3. Posts \subseteq Nat \ {0} /\ \A y \in Posts : y < x => y \in 1 .. x - 1
  BY PostsAssumption, FS_CardinalityType
<1>4. PostedOf'
  <2>1. posted' \subseteq Posts
    BY <1>2 DEF Lined, PostedOf
  <2>2. ASSUME NEW i \in posted', NEW j \in Posts, j < i, From[j] = From[i]
        PROVE  j \in posted'
    BY <1>2, <1>3, <2>2 DEF Lined, PostedOf
  <2>. QED
    BY <2>1, <2>2 DEF PostedOf
<1>5. \A y \in posted : y \in Posts /\ (From[y] = From[x] => y < x)
  <2>. SUFFICES ASSUME NEW y \in posted, From[y] = From[x] PROVE y < x
    BY DEF Lined, PostedOf
  <2>1. y \in Posts /\ ~(x < y) /\ x # y
    BY <1>2 DEF Lined, PostedOf
  <2>2. x \in Nat /\ y \in Nat
    BY <1>3, <2>1
  <2>. QED
    BY <2>1, <2>2
<1>6. BoxJoins(n, x)
  BY <1>1, BoxGainsPost, PostIsMessage DEF MakePost, BoxGains
<1>7. PlacedInbox' /\ Told' /\ \A y \in Posts : Delivered(y)' => Delivered(y)
  BY <1>2 DEF Lined, PlacedInbox, Told, Delivered
<1>8. PlacedBox'
  BY <1>1, <1>2, <1>6 DEF Lined, PlacedBox, BoxJoins
<1>9. \A y \in Posts : (Arrived(y)' => Arrived(y)) /\ (Waiting(y)' => Waiting(y) \/ y = x)
  <2>1. \A k \in Nodes : PostsIn(box'[k][2]) \subseteq PostsIn(box[k][2]) \cup {y \in {x} : k = n}
    BY <1>6 DEF BoxJoins
  <2>2. ASSUME NEW y \in Posts, Arrived(y)' PROVE Arrived(y)
    <3>1. PICK k \in Nodes : k = To[y] /\ y \in PostsIn(box'[k][2])
      BY <2>2, PeopleAreNodes DEF Arrived
    <3>2. y \in PostsIn(box[k][2]) \/ (y = x /\ k = n)
      BY <2>1, <3>1
    <3>. QED
      BY <1>1, <3>1, <3>2 DEF Arrived
  <2>3. ASSUME NEW y \in Posts, Waiting(y)' PROVE Waiting(y) \/ y = x
    BY <2>1, <2>3, PeopleAreNodes DEF Waiting
  <2>. QED
    BY <2>2, <2>3
<1>10. QuietLinks /\ QuietComms /\ QuietMap /\ QuietEnds /\ QuietWires /\ QuietAddrs
  BY <1>2, Unmoved, EndsUnmoved
<1>11. PlacedWires' /\ \A y \in Posts : OnWire(y)' => OnWire(y)
  BY <1>2, <1>10, WiresRest, PeopleAreNodes, LinksKept DEF Lined
<1>12. PlacedEnds' /\ \A y \in Posts : (Sent(y)' => Sent(y)) /\ (Queued(y)' => Queued(y))
  BY <1>2, <1>10, EndsRest, PeopleAreNodes DEF Lined
<1>13. PlacedComm' /\ \A y \in Posts : Held(y)' => Held(y)
  BY <1>2, <1>10, CommsRest, CommRests, PeopleAreNodes DEF Lined
<1>14. AddrOf' /\ AsConfigured'
  BY <1>2, <1>10, AddrsRest, ConfiguredRests DEF Lined
<1>15. Rising'
  <2>1. \A y \in PostsIn(box[n][2]) : y \in posted
    BY DEF Lined, PlacedBox
  <2>2. \A k \in Nodes : InOrder(box'[k][2])
    BY <1>5, <1>6, <2>1 DEF Lined, Rising, BoxJoins, Same
  <2>. QED
    BY <1>2, <2>2 DEF Lined, Rising, Live
<1>16. Ordered'
  <2>1. \A k \in 0 .. 6 : \A y \in Posts : In(k, y)' => In(k, y) \/ (k = 6 /\ y = x)
    BY <1>7, <1>9, <1>11, <1>12, <1>13 DEF In
  <2>2. ASSUME NEW k \in 0 .. 6, NEW y \in Posts, k < 6, In(k, y)', Same(y, x)
        PROVE  y < x
    <3>1. In(k, y)
      BY <2>1, <2>2
    <3>. QED
      BY <1>5, <2>2, <3>1, WhatIsOnItsWay DEF Same
  <2>3. \A k \in 0 .. 6 : ~(6 < k)
    OBVIOUS
  <2>. QED
    BY <2>1, <2>2, <2>3, Advances DEF Lined
<1>. QED
  BY <1>4, <1>7, <1>8, <1>11, <1>12, <1>13, <1>14, <1>15, <1>16 DEF Lined

\* The post that the communicator takes is the first of its kind.
LEMMA FirstIsTaken ==
  ASSUME ConnInv, Lined, NEW n \in Nodes, CommFree(n), Taken(n), IsPost(n)
  PROVE  /\ Taking(n) \in Messages /\ Taking(n).kind = "post" /\ Taking(n).post \in Posts
         /\ Taking(n).post \in posted /\ Taking(n).post \in PostsIn(box[n][2])
         /\ n \in {From[Taking(n).post], To[Taking(n).post]}
         /\ \A y \in PostsIn(box'[n][2]) : Same(Taking(n).post, y) => Taking(n).post < y
<1>1. PICK q \in Queues : q = box[n] /\ Queue!Peek(q)
  BY ConnHas DEF CommFree
<1>2. Queue!Pop(q) \in Queues
  BY <1>1, PopAt
<1>3. PICK r \in Queues, m \in Messages : r = Queue!Pop(q) /\ m = Queue!Front(q)
  BY <1>1, <1>2, PopAt
<1>4. box'[n] = r /\ Taking(n) = m /\ m.kind = "post"
  BY <1>1, <1>3, ConnHas DEF Taken, Taking, IsPost
<1>5. PostsIn(q[0]) = {} /\ PostsIn(q[1]) = {} /\ InOrder(q[2])
  BY <1>1 DEF Lined, PlacedBox, Rising
<1>6. m.post \in PostsIn(q[2]) /\ \A y \in PostsIn(r[2]) : Same(m.post, y) => m.post < y
  BY <1>1, <1>3, <1>4, <1>5, PopAt
<1>7. m.post \in posted /\ n \in {From[m.post], To[m.post]} /\ m.post \in Posts
  BY <1>1, <1>6 DEF Lined, PlacedBox, PostedOf
<1>. QED
  BY <1>1, <1>4, <1>6, <1>7

LEMMA DeliverOrder ==
  ASSUME ConnInv, Lined, NEW n \in Nodes, CommDeliver(n)
  PROVE  Lined'
<1>1. /\ CommFree(n) /\ Taken(n) /\ IsPost(n) /\ Goal(n) = n
      /\ UNCHANGED <<map, config, comm, aio, conn, tcp, wire, posted>>
  BY DEF CommDeliver
<1>2. PICK x \in Posts :
        /\ x = Taking(n).post /\ x \in posted /\ x \in PostsIn(box[n][2])
        /\ \A y \in PostsIn(box'[n][2]) : Same(x, y) => x < y
  BY <1>1, FirstIsTaken
<1>3. To[x] = n
  BY <1>1, <1>2 DEF Goal
<1>4. PICK s \in Seq(Posts) : s = inbox[n]
  BY DEF Lined, PlacedInbox
<1>5. PICK t \in Seq(Posts) : t = Append(s, x) /\ Elements(t) = Elements(s) \cup {x}
  <2>1. Append(s, x) \in Seq(Posts) /\ Elements(Append(s, x)) = Elements(s) \cup {x}
    BY ListGrows
  <2>. QED
    BY <2>1
<1>6. /\ Len(s) \in Nat /\ DOMAIN s = 1 .. Len(s) /\ DOMAIN t = 1 .. Len(s) + 1
      /\ \A j \in 1 .. Len(s) : t[j] = s[j]
      /\ t[Len(s) + 1] = x
  BY <1>5
<1>7. inbox' \in [Nodes -> Seq(Posts)] /\ inbox'[n] = t /\ \A k \in Nodes : k # n => inbox'[k] = inbox[k]
  BY <1>2, <1>4, <1>5 DEF CommDeliver, Lined, PlacedInbox
<1>8. PlacedInbox'
  <2>1. ASSUME NEW k \in Nodes, NEW y \in Elements(inbox'[k])
        PROVE  y \in posted' /\ To[y] = k
    <3>1. y \in Elements(inbox[k]) \/ (k = n /\ y = x)
      BY <1>4, <1>5, <1>7, <2>1
    <3>. QED
      BY <1>1, <1>2, <1>3, <3>1 DEF Lined, PlacedInbox
  <2>. QED
    BY <1>7, <2>1 DEF PlacedInbox
<1>9. \A y \in Posts : Delivered(y)' => Delivered(y) \/ y = x
  <2>1. ASSUME NEW k \in Nodes, NEW y \in Elements(inbox'[k])
        PROVE  y \in Elements(inbox[k]) \/ y = x
    BY <1>4, <1>5, <1>7, <2>1
  <2>. QED
    BY <2>1, PeopleAreNodes DEF Delivered
<1>10. Arrived(x)
  BY <1>2, <1>3 DEF Arrived
<1>11. Told'
  <2>1. ASSUME NEW j \in DOMAIN t, NEW k \in DOMAIN t, j < k, From[t[j]] = From[t[k]]
        PROVE  t[j] < t[k]
    <3>1. j \in DOMAIN s /\ t[j] = s[j]
      BY <1>6, <2>1
    <3>2. CASE k \in DOMAIN s
      BY <1>4, <1>6, <2>1, <3>1, <3>2 DEF Lined, Told
    <3>3. CASE k \notin DOMAIN s
      <4>1. k = Len(s) + 1
        BY <1>6, <3>3
      <4>2. t[k] = x
        BY <1>6, <4>1, Zenon
      <4>3. s[j] \in Posts /\ s[j] \in Elements(s)
        BY <3>1 DEF Elements
      <4>4. Delivered(s[j]) /\ Same(s[j], x)
        BY <1>3, <1>4, <2>1, <3>1, <4>2, <4>3 DEF Lined, PlacedInbox, Delivered, Same
      <4>5. In(0, s[j]) /\ In(1, x)
        BY <1>10, <4>4 DEF In
      <4>. QED
        BY <3>1, <4>2, <4>3, <4>4, <4>5 DEF Lined, Ordered
    <3>. QED
      BY <3>2, <3>3
  <2>. QED
    BY <1>7, <2>1 DEF Lined, Told
<1>12. PostedOf'
  BY <1>1 DEF Lined, PostedOf
<1>13. QuietBox /\ QuietLinks /\ QuietComms /\ QuietMap /\ QuietEnds /\ QuietWires /\ QuietAddrs
  BY <1>1, Unmoved, EndsUnmoved, BoxLosesFirst
<1>14. PlacedBox' /\ \A y \in Posts : (Arrived(y)' => Arrived(y)) /\ (Waiting(y)' => Waiting(y))
  BY <1>1, <1>13, BoxRests, PeopleAreNodes DEF Lined
<1>15. PlacedWires' /\ \A y \in Posts : OnWire(y)' => OnWire(y)
  BY <1>1, <1>13, WiresRest, PeopleAreNodes, LinksKept DEF Lined
<1>16. PlacedEnds' /\ \A y \in Posts : (Sent(y)' => Sent(y)) /\ (Queued(y)' => Queued(y))
  BY <1>1, <1>13, EndsRest, PeopleAreNodes DEF Lined
<1>17. PlacedComm' /\ \A y \in Posts : Held(y)' => Held(y)
  BY <1>1, <1>13, CommsRest, CommRests, PeopleAreNodes DEF Lined
<1>18. AddrOf' /\ AsConfigured' /\ Rising'
  BY <1>1, <1>13, AddrsRest, ConfiguredRests, StillRising DEF Lined
<1>19. Ordered'
  <2>1. \A k \in 0 .. 6 : \A y \in Posts : In(k, y)' => In(k, y) \/ (k = 0 /\ y = x)
    BY <1>9, <1>14, <1>15, <1>16, <1>17 DEF In
  <2>2. ASSUME NEW k \in 0 .. 6, NEW y \in Posts, 0 < k, k <= 1, In(k, y)', Same(x, y)
        PROVE  x < y
    <3>1. k = 1
      BY <2>2
    <3>2. Arrived(y)'
      BY <2>2, <3>1 DEF In
    <3>. QED
      BY <1>2, <1>3, <2>2, <3>2 DEF Arrived, Same
  <2>3. In(1, x)
    BY <1>10 DEF In
  <2>. QED
    BY <2>1, <2>2, <2>3, Passes DEF Lined
<1>. QED
  BY <1>8, <1>11, <1>12, <1>14, <1>15, <1>16, <1>17, <1>18, <1>19 DEF Lined

-----------------------------------------------------------------------------
(* The communicator gives a post to a connection.                          *)

\* The end of n is given the post x.
EndJoins(n, l, x) ==
  /\ \A k \in Nodes, j \in Links :
       /\ conn'[<<k, j>>].life = conn[<<k, j>>].life
       /\ conn'[<<k, j>>].state = conn[<<k, j>>].state
       /\ conn'[<<k, j>>].addr = conn[<<k, j>>].addr
       /\ conn'[<<k, j>>].out = conn[<<k, j>>].out
       /\ Going(k, j)' \subseteq Going(k, j) \cup {y \in {x} : k = n /\ j = l}
       /\ InOrder(conn[<<k, j>>].queue[2]) =>
            \/ InOrder(conn'[<<k, j>>].queue[2])
            \/ k = n /\ j = l /\ ~\A y \in Going(n, l) : Same(y, x) => y < x

LEMMA GainsPost ==
  ASSUME ConnInv, NEW n \in Nodes, NEW l \in Links, NEW m \in Messages,
         m.kind = "post", Gains(n, l, m)
  PROVE  EndJoins(n, l, m.post)
<1>1. CASE conn' = conn
  BY <1>1 DEF EndJoins, Going
<1>2. CASE conn' = [conn EXCEPT ![<<n, l>>].queue = With(@, m), ![<<n, l>>].bell = TRUE]
  <2>1. PICK x \in Conns, q \in Queues : x = conn[<<n, l>>] /\ q = x.queue
    BY ConnHas
  <2>2. PICK r \in Queues : r = With(q, m) /\ Joins(q[2], r[2], m.post)
    BY PushAt
  <2>3. PICK y : y = [x EXCEPT !.queue = r, !.bell = TRUE]
    OBVIOUS
  <2>4. conn' = [conn EXCEPT ![<<n, l>>] = y]
    BY <1>2, <2>1, <2>2, <2>3, ConnHas
  <2>5. y.life = x.life /\ y.state = x.state /\ y.addr = x.addr /\ y.out = x.out /\ y.queue = r
    BY <2>3 DEF Conns
  <2>6. ASSUME NEW k \in Nodes, NEW j \in Links, k # n \/ j # l
        PROVE  conn'[<<k, j>>] = conn[<<k, j>>]
    BY <2>4, <2>6, OneAlters
  <2>7. conn'[<<n, l>>] = y
    BY <2>4, ConnHas
  <2>. QED
    BY <2>1, <2>2, <2>5, <2>6, <2>7 DEF EndJoins, Going, Joins
<1>. QED
  BY <1>1, <1>2 DEF Gains

LEMMA PushOrder ==
  ASSUME ConnInv, Lined, NEW n \in Nodes, NEW l \in Links, NEW m \in Messages, m.kind = "post",
         NEW x \in posted, x = m.post, From[x] = n, Live(<<n, l>>), conn[<<n, l>>].addr = To[x],
         Gains(n, l, m), QuietBox, QuietComms, comm'[n].at = "idle",
         UNCHANGED <<map, config, aio, tcp, wire, posted, inbox>>,
         NEW from \in {5, 6}, In(from, x),
         from = 6 => \A y \in PostsIn(box'[n][2]) : Same(x, y) => x < y
  PROVE  Lined'
<1>1. x \in Posts
  BY DEF Lined, PostedOf
<1>2. EndJoins(n, l, x)
  BY GainsPost
<1>3. \A k \in Nodes, j \in Links :
        /\ Live(<<k, j>>)' <=> Live(<<k, j>>)
        /\ Leaving(k, j)' = Leaving(k, j)
        /\ Going(k, j)' \subseteq Going(k, j) \cup {y \in {x} : k = n /\ j = l}
  <2>. SUFFICES ASSUME NEW k \in Nodes, NEW j \in Links
                PROVE  /\ Live(<<k, j>>)' <=> Live(<<k, j>>)
                       /\ Leaving(k, j)' = Leaving(k, j)
                       /\ Going(k, j)' \subseteq Going(k, j) \cup {y \in {x} : k = n /\ j = l}
    OBVIOUS
  <2>1. conn'[<<k, j>>].out = conn[<<k, j>>].out /\ conn'[<<k, j>>].life = conn[<<k, j>>].life
    BY <1>2 DEF EndJoins
  <2>2. Leaving(k, j)' = Leaving(k, j)
    BY <2>1, Zenon DEF Leaving
  <2>3. Live(<<k, j>>)' <=> Live(<<k, j>>)
    BY <2>1 DEF Live
  <2>. QED
    BY <1>2, <2>2, <2>3 DEF EndJoins
<1>4. \A y \in Posts : (Sent(y)' => Sent(y)) /\ (Queued(y)' => Queued(y) \/ y = x)
  <2>1. ASSUME NEW y \in Posts, Queued(y)', y # x PROVE Queued(y)
    <3>1. PICK j \in Links : y \in Going(From[y], j)'
      BY <2>1 DEF Queued
    <3>. QED
      BY <1>3, <2>1, <3>1, PeopleAreNodes DEF Queued
  <2>. QED
    BY <1>3, <2>1, PeopleAreNodes DEF Sent
<1>5. PlacedEnds'
  <2>1. ASSUME NEW k \in Nodes, NEW j \in Links, NEW y \in Going(k, j)' \cup Leaving(k, j)'
        PROVE  Live(<<k, j>>)' /\ y \in posted' /\ From[y] = k /\ To[y] = conn'[<<k, j>>].addr
    <3>1. conn'[<<k, j>>].addr = conn[<<k, j>>].addr
      BY <1>2 DEF EndJoins
    <3>2. CASE y \in Going(k, j) \cup Leaving(k, j)
      BY <1>3, <3>1, <3>2 DEF Lined, PlacedEnds
    <3>3. CASE y = x /\ k = n /\ j = l
      BY <1>3, <3>1, <3>3
    <3>. QED
      BY <1>3, <2>1, <3>2, <3>3
  <2>. QED
    BY <2>1 DEF PlacedEnds
<1>6. QuietLinks /\ QuietMap /\ QuietWires /\ QuietAddrs
  <2>1. QuietWires
    BY <1>3, NothingThins DEF QuietWires
  <2>2. QuietAddrs
    BY <1>2, <1>3 DEF QuietAddrs, EndJoins
  <2>. QED
    BY <2>1, <2>2, Unmoved
<1>7. PostedOf' /\ PlacedInbox' /\ Told' /\ \A y \in Posts : Delivered(y)' => Delivered(y)
  BY PostedRests DEF Lined
<1>8. PlacedBox' /\ \A y \in Posts : (Arrived(y)' => Arrived(y)) /\ (Waiting(y)' => Waiting(y))
  BY BoxRests, PeopleAreNodes DEF Lined
<1>9. PlacedWires' /\ \A y \in Posts : OnWire(y)' => OnWire(y)
  BY <1>6, WiresRest, PeopleAreNodes, LinksKept DEF Lined
<1>10. PlacedComm' /\ \A y \in Posts : Held(y)' => Held(y)
  BY <1>6, CommsRest, CommRests, PeopleAreNodes DEF Lined
<1>11. AddrOf' /\ AsConfigured'
  BY <1>6, AddrsRest, ConfiguredRests DEF Lined
<1>12. Rising'
  <2>1. \A k \in Nodes : InOrder(box'[k][2])
    BY DEF Lined, Rising, QuietBox, Thins
  <2>2. \A k \in Nodes, j \in Links : Live(<<k, j>>)' => InOrder(wire'[<<k, j>>])
    BY <1>3 DEF Lined, Rising
  <2>3. ASSUME NEW y \in Going(n, l), Same(y, x) PROVE y < x
    <3>1. y \in Posts /\ From[y] = n
      BY DEF Lined, PlacedEnds, PostedOf
    <3>2. In(4, y)
      BY <3>1 DEF In, Queued
    <3>. QED
      BY <1>1, <2>3, <3>1, <3>2 DEF Lined, Ordered
  <2>4. \A k \in Nodes, j \in Links : InOrder(conn'[<<k, j>>].queue[2])
    BY <1>2, <2>3 DEF Lined, Rising, EndJoins
  <2>. QED
    BY <2>1, <2>2, <2>4 DEF Rising
<1>13. Ordered'
  <2>1. \A k \in 0 .. 6 : \A y \in Posts : In(k, y)' => In(k, y) \/ (k = 4 /\ y = x)
    BY <1>4, <1>7, <1>8, <1>9, <1>10 DEF In
  <2>2. ASSUME NEW k \in 0 .. 6, NEW y \in Posts, 4 < k, k <= from, In(k, y)', Same(x, y)
        PROVE  x < y
    <3>1. CASE k = 5
      <4>1. Held(y)'
        BY <2>2, <3>1 DEF In
      <4>. QED
        BY <2>2, <4>1 DEF Held, Same
    <3>2. CASE k = 6
      <4>1. Waiting(y)' /\ from = 6
        BY <2>2, <3>2 DEF In
      <4>. QED
        BY <2>2, <4>1 DEF Waiting, Same
    <3>. QED
      BY <2>2, <3>1, <3>2
  <2>3. from \in 0 .. 6 /\ 4 < from
    OBVIOUS
  <2>. QED
    BY <1>1, <2>1, <2>2, <2>3, Passes DEF Lined
<1>. QED
  BY <1>5, <1>7, <1>8, <1>9, <1>10, <1>11, <1>12, <1>13 DEF Lined

LEMMA RouteOrder ==
  ASSUME ConnInv, Lined, NEW n \in Nodes, CommRoute(n)
  PROVE  Lined'
<1>1. /\ CommFree(n) /\ Taken(n) /\ IsPost(n) /\ Goal(n) # n /\ map[n][Goal(n)] # None
      /\ UNCHANGED <<map, config, comm, aio, tcp, wire, posted, inbox>>
  BY DEF CommRoute
<1>2. PICK m \in Messages :
        /\ m = Taking(n) /\ m.kind = "post" /\ m.post \in Posts /\ m.post \in posted
        /\ m.post \in PostsIn(box[n][2]) /\ n \in {From[m.post], To[m.post]}
        /\ \A y \in PostsIn(box'[n][2]) : Same(m.post, y) => m.post < y
  BY <1>1, FirstIsTaken
<1>3. PICK x \in posted : x = m.post /\ x \in Posts /\ From[x] = n /\ Goal(n) = To[x] /\ To[x] \in Nodes
  BY <1>1, <1>2, PeopleAreNodes DEF Goal
<1>4. PICK l \in Links : l = map[n][To[x]] /\ Live(<<n, l>>) /\ conn[<<n, l>>].addr = To[x]
  <2>1. PICK a \in Addresses : a = To[x]
    BY <1>3 DEF Addresses
  <2>2. map[n][a] \in Links \cup {None} /\ map[n][a] # None /\ MapOf(n)
    BY <1>1, <1>3, <2>1 DEF ConnInv, Types, NodeTypes
  <2>. QED
    BY <2>1, <2>2 DEF MapOf
<1>5. Gains(n, l, m)
  BY <1>2, <1>3, <1>4 DEF CommRoute, Pushed, Gains
<1>6. QuietBox /\ QuietComms /\ comm'[n].at = "idle"
  BY <1>1, Unmoved, BoxLosesFirst DEF CommFree
<1>7. In(6, x)
  BY <1>2, <1>3 DEF In, Waiting
<1>. QED
  BY <1>1, <1>2, <1>3, <1>4, <1>5, <1>6, <1>7, PushOrder

LEMMA CommPushOrder ==
  ASSUME ConnInv, Lined, NEW n \in Nodes, CommPush(n)
  PROVE  Lined'
<1>1. PICK l \in Links, x \in Posts : l = comm[n].link /\ x = comm[n].post
  BY DEF ConnInv, Types, NodeTypes, CommPush
<1>2. PICK m \in Messages : m = Post(x) /\ m.kind = "post" /\ m.post = x
  BY PostIsMessage
<1>3. /\ Gains(n, l, m) /\ Live(<<n, l>>) /\ comm[n].at = "push"
      /\ comm' = [comm EXCEPT ![n] = CommIdle]
      /\ UNCHANGED <<box, map, config, aio, tcp, wire, posted, inbox>>
  BY <1>1, <1>2 DEF CommPush, Pushed, Gains
<1>4. x \in posted /\ From[x] = n /\ To[x] = tcp[l].to
  BY <1>1, <1>3 DEF Lined, PlacedComm
<1>5. conn[<<n, l>>].addr = To[x]
  <2>1. tcp[l].from = n
    BY <1>1, <1>3 DEF ConnInv, MapOf
  <2>. QED
    BY <1>3, <1>4, <2>1, FarIsOther DEF ConnInv, RoleOf, Connects, Listens
<1>6. QuietBox /\ QuietComms /\ comm'[n].at = "idle"
  <2>1. comm'[n].at = "idle" /\ \A k \in Nodes : k # n => comm'[k] = comm[k]
    BY <1>3 DEF CommIdle, ConnInv, Types, NodeTypes
  <2>. QED
    BY <1>3, <2>1, Unmoved DEF QuietComms
<1>7. In(5, x)
  BY <1>1, <1>3, <1>4 DEF In, Held
<1>. QED
  BY <1>2, <1>3, <1>4, <1>5, <1>6, <1>7, PushOrder

-----------------------------------------------------------------------------
(* The communicator takes a post for which there is no connection.         *)

LEMMA ConnectOrder ==
  ASSUME ConnInv, Lined, NEW n \in Nodes, CommConnect(n)
  PROVE  Lined'
<1>1. /\ CommFree(n) /\ Taken(n) /\ IsPost(n) /\ Goal(n) # n /\ map[n][Goal(n)] = None
      /\ <<n, Goal(n)>> \in config /\ comm[n].at = "idle"
      /\ UNCHANGED <<map, config, aio, wire, posted, inbox>>
  BY DEF CommConnect, MustConnect, CommFree
<1>2. PICK x \in Posts :
        /\ x = Taking(n).post /\ x \in posted /\ x \in PostsIn(box[n][2])
        /\ n \in {From[x], To[x]}
        /\ \A y \in PostsIn(box'[n][2]) : Same(x, y) => x < y
  BY <1>1, FirstIsTaken
<1>3. PICK g \in Nodes : g = Goal(n) /\ g = To[x] /\ From[x] = n /\ g # n
  BY <1>1, <1>2, PeopleAreNodes DEF Goal
<1>4. PICK y \in Conns : Fresh(y, "initiator", g, "connect")
  <2>1. g \in Addresses
    BY DEF Addresses
  <2>. QED
    BY <2>1, NewConnIs
<1>5. PICK l \in Links :
        /\ tcp[l].is = "none"
        /\ conn' = [conn EXCEPT ![<<n, l>>] = y]
        /\ tcp' = [tcp EXCEPT ![l] = [is |-> "up", from |-> n, to |-> g]]
        /\ comm' = [comm EXCEPT ![n] = [at |-> "add", link |-> l, post |-> x]]
  BY <1>2, <1>3, <1>4 DEF CommConnect, Unused, Fresh
<1>6. \A k \in Nodes : conn[<<k, l>>] = NoConn /\ wire[<<k, l>>] = <<>> /\ ~Live(<<k, l>>)
  BY <1>5, NoConnIs DEF ConnInv, LinkOf, Live
<1>7. conn'[<<n, l>>] = y /\ \A k \in Nodes, j \in Links : k # n \/ j # l => conn'[<<k, j>>] = conn[<<k, j>>]
  BY <1>5, ConnHas
<1>8. /\ tcp'[l].is = "up" /\ tcp'[l].from = n /\ tcp'[l].to = g
      /\ \A j \in Links : j # l => tcp'[j] = tcp[j]
  BY <1>5 DEF ConnInv, Types, ConnTypes
<1>9. /\ comm'[n].at = "add" /\ comm'[n].link = l /\ comm'[n].post = x
      /\ \A k \in Nodes : k # n => comm'[k] = comm[k]
  BY <1>5 DEF ConnInv, Types, NodeTypes
<1>10. QuietEnds
  <2>1. PICK z : z = NoConn /\ z = conn[<<n, l>>]
    BY <1>6
  <2>2. PostsIn(y.queue[2]) = {} /\ InOrder(y.queue[2]) /\ y.out = None
    BY <1>4, NoPosts DEF Fresh
  <2>3. Thins(z.queue[2], y.queue[2])
    BY <2>2 DEF Thins
  <2>. QED
    BY <1>5, <2>1, <2>2, <2>3, OneLosesPosts
<1>11. QuietWires
  <2>. SUFFICES ASSUME NEW k \in Nodes, NEW j \in Links, Live(<<k, j>>)', ~Live(<<k, j>>)
                PROVE  Arriving(k, j)' = {}
    BY <1>1, NothingThins DEF QuietWires
  <2>1. j = l
    BY <1>7 DEF Live
  <2>2. PICK s : s = wire'[<<k, j>>] /\ s = <<>>
    BY <1>1, <1>6, <2>1
  <2>3. Elements(s) = {}
    BY <2>2 DEF Elements
  <2>. QED
    BY <2>2, <2>3, NoPosts DEF Arriving
<1>12. \A j \in Links : LinkKept(j)
  BY <1>5, <1>8 DEF LinkKept
<1>13. PostedOf' /\ PlacedInbox' /\ Told' /\ \A z \in Posts : Delivered(z)' => Delivered(z)
  BY <1>1, PostedRests DEF Lined
<1>14. QuietBox
  BY <1>1, BoxLosesFirst
<1>15. PlacedBox' /\ \A z \in Posts : (Arrived(z)' => Arrived(z)) /\ (Waiting(z)' => Waiting(z))
  BY <1>1, <1>14, BoxRests, PeopleAreNodes DEF Lined
<1>16. PlacedWires' /\ \A z \in Posts : OnWire(z)' => OnWire(z)
  BY <1>1, <1>11, <1>12, WiresRest, PeopleAreNodes DEF Lined
<1>17. PlacedEnds' /\ \A z \in Posts : (Sent(z)' => Sent(z)) /\ (Queued(z)' => Queued(z))
  BY <1>1, <1>10, EndsRest, PeopleAreNodes DEF Lined
<1>18. PlacedComm'
  <2>. SUFFICES ASSUME NEW k \in Nodes, comm'[k].at # "idle"
                PROVE  /\ comm'[k].post \in posted' /\ From[comm'[k].post] = k
                       /\ To[comm'[k].post] = tcp'[comm'[k].link].to
                       /\ comm'[k].at = "add" => map'[k][tcp'[comm'[k].link].to] = None
    BY DEF PlacedComm
  <2>1. CASE k = n
    BY <1>1, <1>2, <1>3, <1>8, <1>9, <2>1
  <2>2. CASE k # n
    <3>1. PICK j \in Links : j = comm[k].link /\ Live(<<k, j>>) /\ comm'[k] = comm[k]
      BY <1>9, <2>2 DEF ConnInv, Types, NodeTypes, MapOf
    <3>2. tcp'[j] = tcp[j]
      BY <1>6, <1>8, <3>1
    <3>. QED
      BY <1>1, <3>1, <3>2 DEF Lined, PlacedComm
  <2>. QED
    BY <2>1, <2>2
<1>19. \A z \in Posts : Held(z)' => Held(z) \/ z = x
  BY <1>9, PeopleAreNodes DEF Held
<1>20. AddrOf'
  <2>. SUFFICES ASSUME NEW k \in Nodes, NEW j \in Links, Live(<<k, j>>)'
                PROVE  /\ conn'[<<k, j>>].addr \in {Far(k, j)', j}
                       /\ conn'[<<k, j>>].addr = j =>
                            /\ conn'[<<k, j>>].state = "receiver"
                            /\ ~(aio'[k].at = "answer" /\ aio'[k].link = j)
    BY DEF AddrOf
  <2>1. CASE k = n /\ j = l
    <3>1. PICK e : e = <<k, j>> /\ e = <<n, l>>
      BY <2>1
    <3>2. conn'[e].addr = g
      BY <1>4, <1>7, <3>1 DEF Fresh
    <3>3. Far(k, j)' = g /\ g # l
      BY <1>3, <1>8, <2>1, NodesAssumption DEF Far
    <3>. QED
      BY <2>1, <3>1, <3>2, <3>3
  <2>2. CASE k # n \/ j # l
    <3>1. conn'[<<k, j>>] = conn[<<k, j>>]
      BY <1>7, <2>2
    <3>2. Live(<<k, j>>)
      BY <3>1 DEF Live
    <3>3. Far(k, j)' = Far(k, j)
      BY <1>6, <1>8, <3>2 DEF Far
    <3>. QED
      BY <1>1, <3>1, <3>2, <3>3 DEF Lined, AddrOf
  <2>. QED
    BY <2>1, <2>2
<1>21. AsConfigured'
  BY <1>1, <1>3, <1>8 DEF Lined, AsConfigured
<1>22. Rising'
  BY <1>10, <1>11, <1>14, StillRising DEF Lined
<1>23. Ordered'
  <2>1. \A k \in 0 .. 6 : \A z \in Posts : In(k, z)' => In(k, z) \/ (k = 5 /\ z = x)
    BY <1>13, <1>15, <1>16, <1>17, <1>19 DEF In
  <2>2. ASSUME NEW k \in 0 .. 6, NEW z \in Posts, 5 < k, k <= 6, In(k, z)', Same(x, z)
        PROVE  x < z
    <3>1. k = 6
      BY <2>2
    <3>2. Waiting(z)'
      BY <2>2, <3>1 DEF In
    <3>. QED
      BY <1>2, <1>3, <2>2, <3>2 DEF Waiting, Same
  <2>3. In(6, x)
    BY <1>2, <1>3 DEF In, Waiting
  <2>. QED
    BY <2>1, <2>2, <2>3, Passes DEF Lined
<1>. QED
  BY <1>13, <1>15, <1>16, <1>17, <1>18, <1>20, <1>21, <1>22, <1>23 DEF Lined

-----------------------------------------------------------------------------
(* The thread of the pool takes a message from the queue.                  *)

\* What is taken is the first of its kind, if it is a post.
LEMMA FirstIsSent ==
  ASSUME ConnInv, Lined, NEW n \in Nodes, NEW l \in Links, Live(<<n, l>>), conn[<<n, l>>].thread = "job",
         NEW q \in Queues, q = conn[<<n, l>>].queue,
         NEW s \in Messages, s = Signed(<<n, l>>, Queue!Front(q)), s.kind = "post",
         NEW r \in Queues, r = Queue!Pop(q)
  PROVE  s.post \in Going(n, l) /\ \A y \in PostsIn(r[2]) : Same(s.post, y) => s.post < y
<1>1. Queue!Peek(q)
  BY DEF ConnInv, FlightOf
<1>2. PICK m \in Messages : m = Queue!Front(q)
  BY <1>1, PopAt
<1>3. m.kind = "post" /\ m.post = s.post
  BY <1>2 DEF Signed, Messages
<1>4. PostsIn(q[0]) = {} /\ PostsIn(q[1]) = {}
  BY DEF ConnInv, CarryOf, PostsIn, Priority
<1>5. InOrder(q[2])
  BY DEF Lined, Rising
<1>. QED
  BY <1>1, <1>2, <1>3, <1>4, <1>5, PopAt DEF Going

LEMMA SendOrder ==
  ASSUME OneSided, ConnInv, Lined, NEW n \in Nodes, NEW l \in Links, ThreadSend(n, l) \/ ThreadRefused(n, l)
  PROVE  Lined'
<1>1. PICK x \in Conns, q \in Queues : x = conn[<<n, l>>] /\ q = x.queue
  BY ConnHas
<1>2. /\ Live(<<n, l>>) /\ x.thread = "job"
      /\ UNCHANGED <<box, map, config, comm, aio, tcp, wire, posted, inbox>>
  BY <1>1 DEF ThreadSend, ThreadRefused
<1>3. PICK s \in Messages : s = Signed(<<n, l>>, Queue!Front(q)) /\ s # None /\ Carries(n, l, s)
  BY <1>1, <1>2, TakesWhatMayBeSent
<1>4. PICK r \in Queues : r = Queue!Pop(q)
  BY <1>1, <1>2, TakesWhatMayBeSent
<1>5. PICK y \in Conns : Takes(n, l, x, y, s, r)
  BY <1>1, <1>3, <1>4, ThreadTakes
<1>6. conn'[<<n, l>>] = y /\ \A k \in Nodes, j \in Links : k # n \/ j # l => conn'[<<k, j>>] = conn[<<k, j>>]
  BY <1>5, OneAlters DEF Takes
<1>7. y.life = x.life /\ y.state = x.state /\ y.addr = x.addr /\ y.out = s /\ y.queue = r
  BY <1>5 DEF Takes
<1>8. Thins(q[2], r[2])
  <2>1. Queue!Peek(q)
    BY <1>1, <1>2 DEF ConnInv, FlightOf
  <2>. QED
    BY <1>4, <2>1, PopAt
<1>9. ASSUME NEW k \in Nodes, NEW j \in Links
      PROVE  /\ Live(<<k, j>>)' <=> Live(<<k, j>>)
             /\ conn'[<<k, j>>].addr = conn[<<k, j>>].addr
             /\ conn'[<<k, j>>].state = conn[<<k, j>>].state
             /\ Thins(conn[<<k, j>>].queue[2], conn'[<<k, j>>].queue[2])
             /\ Leaving(k, j)' \subseteq Leaving(k, j) \cup {z \in {s.post} : s.kind = "post" /\ k = n /\ j = l}
  <2>1. CASE k = n /\ j = l
    <3>1. PICK e : e = <<k, j>> /\ e = <<n, l>> /\ conn'[e] = y /\ conn[e] = x
      BY <1>1, <1>6, <2>1
    <3>2. Leaving(k, j)' \subseteq {z \in {s.post} : s.kind = "post"}
      BY <1>7, <3>1 DEF Leaving
    <3>. QED
      BY <1>1, <1>7, <1>8, <2>1, <3>1, <3>2 DEF Live
  <2>2. CASE k # n \/ j # l
    <3>1. conn'[<<k, j>>] = conn[<<k, j>>]
      BY <1>6, <2>2
    <3>. QED
      BY <3>1, NothingThins DEF Live, Leaving
  <2>. QED
    BY <2>1, <2>2
<1>10. QuietLinks /\ QuietComms /\ QuietMap /\ QuietBox /\ QuietWires /\ QuietAddrs
  <2>1. QuietWires
    BY <1>2, <1>9, NothingThins DEF QuietWires
  <2>2. QuietAddrs
    BY <1>2, <1>9 DEF QuietAddrs
  <2>. QED
    BY <1>2, <2>1, <2>2, Unmoved
<1>11. AddrOf' /\ AsConfigured'
  BY <1>2, <1>10, AddrsRest, ConfiguredRests DEF Lined
<1>12. CASE s.kind # "post"
  <2>1. QuietEnds
    BY <1>9, <1>12 DEF QuietEnds, Owner
  <2>. QED
    BY <1>2, <1>10, <1>11, <2>1, QuietStep DEF Quiet
<1>13. CASE s.kind = "post"
  <2>1. PICK p \in Posts : p = s.post /\ p \in Going(n, l) /\ \A z \in PostsIn(r[2]) : Same(p, z) => p < z
    BY <1>1, <1>2, <1>3, <1>4, <1>13, FirstIsSent DEF Carries
  <2>2. p \in posted /\ From[p] = n /\ To[p] = conn[<<n, l>>].addr
    BY <2>1 DEF Lined, PlacedEnds
  <2>3. \A k \in Nodes, j \in Links :
          /\ Going(k, j)' \subseteq Going(k, j)
          /\ Leaving(k, j)' \subseteq Leaving(k, j) \cup {z \in {p} : k = n /\ j = l}
    BY <1>9, <2>1 DEF Going, Thins
  <2>4. PlacedEnds'
    <3>1. ASSUME NEW k \in Nodes, NEW j \in Links, NEW z \in Going(k, j)' \cup Leaving(k, j)'
          PROVE  Live(<<k, j>>)' /\ z \in posted' /\ From[z] = k /\ To[z] = conn'[<<k, j>>].addr
      <4>1. z \in Going(k, j) \cup Leaving(k, j) \/ (z = p /\ k = n /\ j = l)
        BY <2>3, <3>1
      <4>2. Live(<<k, j>>) /\ z \in posted /\ From[z] = k /\ To[z] = conn[<<k, j>>].addr
        BY <1>2, <2>2, <4>1 DEF Lined, PlacedEnds
      <4>. QED
        BY <1>2, <1>9, <4>2
    <3>. QED
      BY <3>1 DEF PlacedEnds
  <2>5. \A z \in Posts : (Sent(z)' => Sent(z) \/ z = p) /\ (Queued(z)' => Queued(z))
    <3>1. ASSUME NEW z \in Posts, Sent(z)', z # p PROVE Sent(z)
      <4>1. PICK j \in Links : z \in Leaving(From[z], j)'
        BY <3>1 DEF Sent
      <4>. QED
        BY <2>3, <3>1, <4>1, PeopleAreNodes DEF Sent
    <3>. QED
      BY <2>3, <3>1, PeopleAreNodes DEF Queued
  <2>6. PostedOf' /\ PlacedInbox' /\ Told' /\ \A z \in Posts : Delivered(z)' => Delivered(z)
    BY <1>2, PostedRests DEF Lined
  <2>7. PlacedBox' /\ \A z \in Posts : (Arrived(z)' => Arrived(z)) /\ (Waiting(z)' => Waiting(z))
    BY <1>2, <1>10, BoxRests, PeopleAreNodes DEF Lined
  <2>8. PlacedWires' /\ \A z \in Posts : OnWire(z)' => OnWire(z)
    BY <1>2, <1>10, WiresRest, PeopleAreNodes, LinksKept DEF Lined
  <2>9. PlacedComm' /\ \A z \in Posts : Held(z)' => Held(z)
    BY <1>2, <1>10, CommsRest, CommRests, PeopleAreNodes DEF Lined
  <2>10. Rising'
    BY <1>2, <1>9 DEF Lined, Rising, Thins
  <2>11. Ordered'
    <3>1. \A k \in 0 .. 6 : \A z \in Posts : In(k, z)' => In(k, z) \/ (k = 3 /\ z = p)
      BY <2>5, <2>6, <2>7, <2>8, <2>9 DEF In
    <3>2. ASSUME NEW k \in 0 .. 6, NEW z \in Posts, 3 < k, k <= 4, In(k, z)', Same(p, z)
          PROVE  p < z
      <4>1. k = 4
        BY <3>2
      <4>2. Queued(z)' /\ From[z] = n /\ To[z] = To[p]
        BY <2>2, <3>2, <4>1 DEF In, Same
      <4>3. PICK j \in Links : z \in Going(n, j)'
        BY <4>2 DEF Queued
      <4>4. z \in Going(n, j)
        BY <2>3, <4>3
      <4>5. Live(<<n, j>>) /\ conn[<<n, j>>].addr = To[p]
        BY <4>2, <4>4 DEF Lined, PlacedEnds
      <4>6. j = l
        BY <1>2, <2>2, <4>5, OneToEach
      <4>7. z \in PostsIn(r[2])
        BY <1>6, <1>7, <4>3, <4>6 DEF Going
      <4>. QED
        BY <2>1, <3>2, <4>7
    <3>3. In(4, p)
      BY <2>1, <2>2 DEF In, Queued
    <3>. QED
      BY <3>1, <3>2, <3>3, Passes DEF Lined
  <2>. QED
    BY <1>11, <2>4, <2>6, <2>7, <2>8, <2>9, <2>10, <2>11 DEF Lined
<1>. QED
  BY <1>12, <1>13

-----------------------------------------------------------------------------
(* A message is sent, and received.                                        *)

\* The end of n is sent the message m, or it is lost.
WireGains(n, l, m) ==
  /\ \A k \in Nodes, j \in Links : k # n \/ j # l => wire'[<<k, j>>] = wire[<<k, j>>]
  /\ wire'[<<n, l>>] \in {wire[<<n, l>>], Append(wire[<<n, l>>], m)}

LEMMA OnSendOrder ==
  ASSUME OneSided, ConnInv, Lined, NEW n \in Nodes, NEW l \in Links, OnSend(n, l)
  PROVE  Lined'
<1>1. /\ Live(<<n, l>>) /\ "send" \in conn[<<n, l>>].ops
      /\ UNCHANGED <<box, map, config, comm, tcp, posted, inbox>>
  BY DEF OnSend, Enters
<1>2. PICK x \in Conns : x = conn[<<n, l>>] /\ x.out # None
  <2>1. FlightOf(n, l)
    BY DEF ConnInv
  <2>. QED
    BY <1>1, <2>1, ConnHas DEF FlightOf
<1>3. PICK f \in Nodes : f = Far(n, l) /\ f # n /\ Far(f, l) = n /\ FarEnd(n, l) = <<f, l>> /\ f # l
  BY <1>1, FarIsOther, NodesAssumption DEF Far, FarEnd
<1>4. PICK m \in Messages : m = x.out /\ Carries(n, l, m)
  BY <1>2, ConnHas DEF ConnInv, CarryOf
<1>5. PICK o : o = x.ops \ {"send"}
  OBVIOUS
<1>6. PICK y : y = [x EXCEPT !.ops = o, !.out = None]
  OBVIOUS
<1>7. conn' = [conn EXCEPT ![<<n, l>>] = y]
  BY <1>2, <1>5, <1>6, ConnHas DEF OnSend
<1>8. y.life = x.life /\ y.state = x.state /\ y.addr = x.addr /\ y.out = None /\ y.queue = x.queue
  BY <1>6 DEF Conns
<1>9. conn'[<<n, l>>] = y /\ \A k \in Nodes, j \in Links : k # n \/ j # l => conn'[<<k, j>>] = conn[<<k, j>>]
  BY <1>7, OneAlters
<1>10. WireGains(f, l, m)
  BY <1>2, <1>3, <1>4, ConnHas DEF OnSend, WireGains
<1>11. QuietEnds
  BY <1>2, <1>7, <1>8, NothingThins, OneLosesPosts
<1>12. ASSUME NEW k \in Nodes, NEW j \in Links
       PROVE  /\ Live(<<k, j>>)' <=> Live(<<k, j>>)
              /\ conn'[<<k, j>>].addr = conn[<<k, j>>].addr
              /\ conn'[<<k, j>>].state = conn[<<k, j>>].state
  <2>1. CASE k = n /\ j = l
    <3>1. PICK e : e = <<k, j>> /\ e = <<n, l>> /\ conn'[e] = y /\ conn[e] = x
      BY <1>2, <1>9, <2>1
    <3>. QED
      BY <1>8, <3>1 DEF Live
  <2>2. CASE k # n \/ j # l
    <3>1. conn'[<<k, j>>] = conn[<<k, j>>]
      BY <1>9, <2>2
    <3>. QED
      BY <3>1 DEF Live
  <2>. QED
    BY <2>1, <2>2
<1>13. QuietBox /\ QuietComms /\ QuietMap /\ QuietLinks /\ QuietAddrs
  <2>1. AioCalm
    BY TurnsCalm DEF OnSend, Stays
  <2>2. QuietAddrs
    BY <1>12, <2>1 DEF QuietAddrs, AioCalm
  <2>. QED
    BY <1>1, <2>2, Unmoved
<1>14. AddrOf' /\ AsConfigured'
  BY <1>1, <1>13, AddrsRest, ConfiguredRests DEF Lined
<1>15. CASE m.kind # "post"
  <2>1. Thins(wire[<<f, l>>], wire'[<<f, l>>])
    <3>1. PICK s \in Seq(Messages) : s = wire[<<f, l>>]
      BY ConnHas
    <3>2. Thins(s, s) /\ Thins(s, Append(s, m))
      BY <1>15, NothingThins, AppendJoins
    <3>. QED
      BY <1>10, <3>1, <3>2 DEF WireGains
  <2>2. ThinWires
    BY <1>10, <2>1, NothingThins DEF WireGains, ThinWires
  <2>3. QuietWires
    BY <1>12, <2>2 DEF QuietWires, ThinWires
  <2>. QED
    BY <1>1, <1>11, <1>13, <1>14, <2>3, QuietStep DEF Quiet
<1>16. CASE m.kind = "post"
  <2>1. PICK p \in Posts : p = m.post /\ p \in Leaving(n, l)
    BY <1>2, <1>4, <1>16 DEF Carries, Leaving
  <2>2. p \in posted /\ From[p] = n /\ To[p] = conn[<<n, l>>].addr /\ To[p] = f
    <3>1. p \in posted /\ From[p] = n /\ To[p] = conn[<<n, l>>].addr
      BY <2>1 DEF Lined, PlacedEnds
    <3>2. conn[<<n, l>>].addr \in {f, l}
      BY <1>1, <1>3 DEF Lined, AddrOf
    <3>. QED
      BY <3>1, <3>2, PeopleAreNodes, NodesAssumption
  <2>3. /\ Arriving(f, l)' \subseteq Arriving(f, l) \cup {p}
        /\ InOrder(wire[<<f, l>>]) /\ (\A z \in Arriving(f, l) : Same(z, p) => z < p)
             => InOrder(wire'[<<f, l>>])
    <3>1. PICK s \in Seq(Messages) : s = wire[<<f, l>>]
      BY ConnHas
    <3>2. Joins(s, s, p) /\ Joins(s, Append(s, m), p)
      BY <1>16, <2>1, AppendJoins DEF Joins
    <3>3. Joins(s, wire'[<<f, l>>], p)
      BY <1>10, <3>1, <3>2 DEF WireGains
    <3>. QED
      BY <3>1, <3>3 DEF Joins, Arriving
  <2>4. \A k \in Nodes, j \in Links : k # f \/ j # l => wire'[<<k, j>>] = wire[<<k, j>>]
    BY <1>10 DEF WireGains
  <2>5. \A k \in Nodes, j \in Links :
          Arriving(k, j)' \subseteq Arriving(k, j) \cup {z \in {p} : k = f /\ j = l}
    BY <2>3, <2>4 DEF Arriving
  <2>6. PlacedWires'
    <3>1. ASSUME NEW k \in Nodes, NEW j \in Links, NEW z \in Arriving(k, j)'
          PROVE  z \in posted' /\ From[z] = Far(k, j)' /\ To[z] = k
      <4>1. Far(k, j)' = Far(k, j)
        BY <1>1 DEF Far
      <4>2. z \in Arriving(k, j) \/ (z = p /\ k = f /\ j = l)
        BY <2>5, <3>1
      <4>. QED
        BY <1>1, <1>3, <2>2, <4>1, <4>2 DEF Lined, PlacedWires
    <3>. QED
      BY <3>1 DEF PlacedWires
  <2>7. \A z \in Posts : OnWire(z)' => OnWire(z) \/ z = p
    <3>1. ASSUME NEW z \in Posts, OnWire(z)', z # p PROVE OnWire(z)
      <4>1. PICK j \in Links : Live(<<To[z], j>>)' /\ z \in Arriving(To[z], j)'
        BY <3>1 DEF OnWire
      <4>2. Live(<<To[z], j>>) /\ z \in Arriving(To[z], j)
        BY <1>12, <2>5, <3>1, <4>1, PeopleAreNodes
      <4>. QED
        BY <4>2 DEF OnWire
    <3>. QED
      BY <3>1
  <2>8. PostedOf' /\ PlacedInbox' /\ Told' /\ \A z \in Posts : Delivered(z)' => Delivered(z)
    BY <1>1, PostedRests DEF Lined
  <2>9. PlacedBox' /\ \A z \in Posts : (Arrived(z)' => Arrived(z)) /\ (Waiting(z)' => Waiting(z))
    BY <1>1, <1>13, BoxRests, PeopleAreNodes DEF Lined
  <2>10. PlacedEnds' /\ \A z \in Posts : (Sent(z)' => Sent(z)) /\ (Queued(z)' => Queued(z))
    BY <1>1, <1>11, EndsRest, PeopleAreNodes DEF Lined
  <2>11. PlacedComm' /\ \A z \in Posts : Held(z)' => Held(z)
    BY <1>1, <1>13, CommsRest, CommRests, PeopleAreNodes DEF Lined
  <2>12. In(3, p)
    BY <2>1, <2>2 DEF In, Sent
  <2>13. Rising'
    <3>1. ASSUME Live(<<f, l>>), NEW z \in Arriving(f, l), Same(z, p)
          PROVE  z < p
      <4>1. z \in Posts /\ To[z] = f
        BY <3>1 DEF Lined, PlacedWires, PostedOf
      <4>2. In(2, z)
        BY <3>1, <4>1 DEF In, OnWire
      <4>. QED
        BY <2>12, <3>1, <4>1, <4>2 DEF Lined, Ordered
    <3>2. ASSUME NEW k \in Nodes, NEW j \in Links, Live(<<k, j>>)'
          PROVE  InOrder(wire'[<<k, j>>])
      <4>1. Live(<<k, j>>) /\ InOrder(wire[<<k, j>>])
        BY <1>12, <3>2 DEF Lined, Rising
      <4>2. CASE k = f /\ j = l
        BY <2>3, <3>1, <4>1, <4>2
      <4>3. CASE k # f \/ j # l
        BY <2>4, <4>1, <4>3
      <4>. QED
        BY <4>2, <4>3
    <3>. QED
      BY <1>1, <1>11, <3>2 DEF Lined, Rising, QuietEnds, Thins
  <2>14. Ordered'
    <3>1. \A k \in 0 .. 6 : \A z \in Posts : In(k, z)' => In(k, z) \/ (k = 2 /\ z = p)
      BY <2>7, <2>8, <2>9, <2>10, <2>11 DEF In
    <3>2. ASSUME NEW k \in 0 .. 6, NEW z \in Posts, 2 < k, k <= 3, In(k, z)', Same(p, z)
          PROVE  p < z
      <4>1. k = 3
        BY <3>2
      <4>2. Sent(z)' /\ From[z] = n /\ To[z] = To[p]
        BY <2>2, <3>2, <4>1 DEF In, Same
      <4>3. PICK j \in Links : z \in Leaving(n, j)'
        BY <4>2 DEF Sent
      <4>4. z \in Leaving(n, j)
        BY <1>11, <4>3 DEF QuietEnds
      <4>5. Live(<<n, j>>) /\ conn[<<n, j>>].addr = To[p]
        BY <4>2, <4>4 DEF Lined, PlacedEnds
      <4>6. j = l
        BY <1>1, <2>2, <4>5, OneToEach
      <4>7. conn'[<<n, j>>].out = None
        BY <1>8, <1>9, <4>6
      <4>. QED
        BY <4>3, <4>7 DEF Leaving
    <3>. QED
      BY <2>12, <3>1, <3>2, Passes DEF Lined
  <2>. QED
    BY <1>14, <2>6, <2>8, <2>9, <2>10, <2>11, <2>13, <2>14 DEF Lined
<1>. QED
  BY <1>15, <1>16

\* Posts reach an end only when it has the address of the other.
LEMMA PostsComeFromThere ==
  ASSUME ConnInv, Lined, NEW n \in Nodes, NEW l \in Links, Live(<<n, l>>), Arriving(n, l) # {}
  PROVE  conn[<<n, l>>].addr = Far(n, l)
<1>. SUFFICES ASSUME conn[<<n, l>>].addr # Far(n, l) PROVE FALSE
  OBVIOUS
<1>1. conn[<<n, l>>].state = "receiver"
  BY DEF Lined, AddrOf
<1>2. n = tcp[l].to /\ tcp[l].is # "none"
  BY <1>1 DEF ConnInv, RoleOf, Connects, Listens
<1>3. ~Established(l)
  BY <1>1, <1>2 DEF Established, Live
<1>4. \A m \in Elements(wire[<<n, l>>]) : m.kind = "hello"
  BY <1>2, <1>3 DEF ConnInv, SilenceOf
<1>. QED
  BY <1>4 DEF Arriving, PostsIn

LEMMA ForwardOrder ==
  ASSUME OneSided, ConnInv, Lined, NEW n \in Nodes, NEW l \in Links, Forwards(n, l)
  PROVE  Lined'
<1>1. /\ Live(<<n, l>>) /\ Consumes(n, l)
      /\ UNCHANGED <<map, config, comm, tcp, posted, inbox>>
  BY DEF Forwards, Receives, Enters, Consumes
<1>2. PICK s \in Seq(Messages) : s = wire[<<n, l>>] /\ s # <<>> /\ Got(n, l) = Head(s)
  BY <1>1, ConnHas DEF Consumes, Got
<1>3. PICK g \in Messages : g = Got(n, l) /\ g \in Elements(s) /\ Carries(Far(n, l), l, g)
  BY <1>1, <1>2, GotWasCarried DEF Consumes
<1>4. PICK m \in Messages : m = [g EXCEPT !.session = None] /\ m.kind = g.kind /\ m.post = g.post
  <2>1. [g EXCEPT !.session = None] \in Messages
    BY DEF Messages
  <2>2. PICK m \in Messages : m = [g EXCEPT !.session = None]
    BY <2>1
  <2>3. m.kind = g.kind /\ m.post = g.post
    BY <2>2 DEF Messages
  <2>. QED
    BY <2>2, <2>3
<1>5. PICK p \in Posts : m.kind = "post" /\ p = m.post /\ p = g.post /\ g.kind = "post"
  BY <1>3, <1>4 DEF Forwards, Carries
<1>6. BoxGains(n, m)
  BY <1>3, <1>4 DEF Forwards, BoxGains
<1>7. BoxJoins(n, p)
  BY <1>5, <1>6, BoxGainsPost
<1>8. p \in Arriving(n, l)
  BY <1>2, <1>3, <1>5 DEF Arriving, PostsIn
<1>9. p \in posted /\ From[p] = Far(n, l) /\ To[p] = n /\ From[p] # n
  BY <1>8, PeopleAreNodes DEF Lined, PlacedWires
<1>10. In(2, p)
  BY <1>1, <1>8, <1>9 DEF In, OnWire
<1>11. \A k \in Nodes, j \in Links : Fixed(k, j)
  <2>1. PICK x \in Conns : x = conn[<<n, l>>]
    BY ConnHas
  <2>2. PICK o : o = x.ops \ {"recv"}
    OBVIOUS
  <2>3. PICK y : y = [x EXCEPT !.ops = o]
    OBVIOUS
  <2>4. conn' = [conn EXCEPT ![<<n, l>>] = y]
    BY <2>1, <2>2, <2>3, ConnHas DEF Forwards, Silent
  <2>5. y.life = x.life /\ y.state = x.state /\ y.addr = x.addr /\ y.out = x.out /\ y.queue = x.queue
    BY <2>3 DEF Conns
  <2>. QED
    BY <2>1, <2>4, <2>5, NothingThins, OneRests
<1>12. AioCalm
  <2>1. \E w \in {"shut", "done"} : aio' = [aio EXCEPT ![n] = At(w, l)]
    BY DEF Forwards, Stays
  <2>. QED
    BY <2>1, TurnsCalm
<1>13. \A k \in Nodes, j \in Links : Live(<<k, j>>)' <=> Live(<<k, j>>)
  BY <1>11 DEF Fixed, Live
<1>14. QuietEnds
  <2>1. \A k \in Nodes, j \in Links : Leaving(k, j)' = Leaving(k, j)
    BY <1>11 DEF Fixed, Leaving
  <2>. QED
    BY <1>11, <1>13, <2>1 DEF QuietEnds, Owner, Fixed
<1>15. QuietWires
  BY <1>1, <1>13, WireLosesFirst DEF ThinWires, QuietWires
<1>16. QuietComms /\ QuietMap /\ QuietLinks /\ QuietAddrs
  <2>1. QuietAddrs
    BY <1>11, <1>12, <1>13 DEF QuietAddrs, Fixed, AioCalm
  <2>. QED
    BY <1>1, <2>1, Unmoved
<1>17. PostedOf' /\ PlacedInbox' /\ Told' /\ \A y \in Posts : Delivered(y)' => Delivered(y)
  BY <1>1, PostedRests DEF Lined
<1>18. PlacedBox'
  BY <1>1, <1>7, <1>9 DEF Lined, PlacedBox, BoxJoins
<1>19. \A y \in Posts : (Arrived(y)' => Arrived(y) \/ y = p) /\ (Waiting(y)' => Waiting(y))
  <2>1. \A k \in Nodes : PostsIn(box'[k][2]) \subseteq PostsIn(box[k][2]) \cup {y \in {p} : k = n}
    BY <1>7 DEF BoxJoins
  <2>2. ASSUME NEW y \in Posts, Arrived(y)' PROVE Arrived(y) \/ y = p
    BY <2>1, <2>2, PeopleAreNodes DEF Arrived
  <2>3. ASSUME NEW y \in Posts, Waiting(y)' PROVE Waiting(y)
    <3>1. PICK k \in Nodes : k = From[y] /\ y \in PostsIn(box'[k][2])
      BY <2>3, PeopleAreNodes DEF Waiting
    <3>2. y \in PostsIn(box[k][2]) \/ (y = p /\ k = n)
      BY <2>1, <3>1
    <3>. QED
      BY <1>9, <3>1, <3>2 DEF Waiting
  <2>. QED
    BY <2>2, <2>3
<1>20. PlacedWires' /\ \A y \in Posts : OnWire(y)' => OnWire(y)
  BY <1>1, <1>15, <1>16, WiresRest, PeopleAreNodes, LinksKept DEF Lined
<1>21. PlacedEnds' /\ \A y \in Posts : (Sent(y)' => Sent(y)) /\ (Queued(y)' => Queued(y))
  BY <1>1, <1>14, EndsRest, PeopleAreNodes DEF Lined
<1>22. PlacedComm' /\ \A y \in Posts : Held(y)' => Held(y)
  BY <1>1, <1>16, CommsRest, CommRests, PeopleAreNodes DEF Lined
<1>23. AddrOf' /\ AsConfigured'
  BY <1>1, <1>16, AddrsRest, ConfiguredRests DEF Lined
<1>24. Rising'
  <2>1. ASSUME NEW y \in PostsIn(box[n][2]), Same(y, p) PROVE y < p
    <3>1. y \in Posts /\ To[y] = n
      BY <1>9, <2>1 DEF Lined, PlacedBox, PostedOf, Same
    <3>2. In(1, y)
      BY <3>1 DEF In, Arrived
    <3>. QED
      BY <1>10, <2>1, <3>1, <3>2 DEF Lined, Ordered
  <2>2. \A k \in Nodes : InOrder(box'[k][2])
    BY <1>7, <2>1 DEF Lined, Rising, BoxJoins
  <2>3. \A k \in Nodes, j \in Links : Live(<<k, j>>)' => InOrder(wire'[<<k, j>>])
    BY <1>13, <1>15 DEF Lined, Rising, QuietWires, Thins
  <2>. QED
    BY <1>14, <2>2, <2>3 DEF Lined, Rising, QuietEnds, Thins
<1>25. Ordered'
  <2>1. \A k \in 0 .. 6 : \A y \in Posts : In(k, y)' => In(k, y) \/ (k = 1 /\ y = p)
    BY <1>17, <1>19, <1>20, <1>21, <1>22 DEF In
  <2>2. ASSUME NEW k \in 0 .. 6, NEW y \in Posts, 1 < k, k <= 2, In(k, y)', Same(p, y)
        PROVE  p < y
    <3>1. k = 2
      BY <2>2
    <3>2. OnWire(y)' /\ To[y] = n /\ From[y] = From[p]
      BY <1>9, <2>2, <3>1 DEF In, Same
    <3>3. PICK j \in Links : Live(<<n, j>>) /\ y \in Arriving(n, j)'
      BY <1>13, <3>2 DEF OnWire
    <3>4. y \in Arriving(n, j)
      BY <1>15, <3>3 DEF QuietWires, Thins, Arriving
    <3>5. conn[<<n, j>>].addr = Far(n, j) /\ From[y] = Far(n, j)
      BY <3>3, <3>4, PostsComeFromThere DEF Lined, PlacedWires
    <3>6. conn[<<n, l>>].addr = Far(n, l)
      BY <1>1, <1>8, PostsComeFromThere
    <3>7. j = l
      BY <1>1, <1>9, <3>2, <3>3, <3>5, <3>6, OneToEach
    <3>8. y \in PostsIn(Tail(s))
      BY <1>1, <1>2, <3>3, <3>7, WireLosesFirst DEF Arriving
    <3>9. InOrder(s)
      BY <1>1, <1>2 DEF Lined, Rising
    <3>10. Head(s).kind = "post" /\ Head(s).post = p
      BY <1>2, <1>3, <1>5
    <3>. QED
      BY <1>2, <2>2, <3>8, <3>9, <3>10, TailThins
  <2>. QED
    BY <1>10, <2>1, <2>2, Passes DEF Lined
<1>. QED
  BY <1>17, <1>18, <1>20, <1>21, <1>22, <1>23, <1>24, <1>25 DEF Lined

-----------------------------------------------------------------------------
(* Every step keeps the posts in line.                                     *)

LEMMA OrderBegins == Init => Lined
<1>. SUFFICES ASSUME Init PROVE Lined
  OBVIOUS
<1>1. PICK q \in Queues : q = Queue!Clear /\ \A p \in 0 .. 2 : Elements(q[p]) = {}
  BY ClearHolds
<1>2. PICK z \in Conns : z = NoConn /\ z.life = "none" /\ z.queue = q /\ z.out = None
  BY <1>1, NoConnIs
<1>3. PICK s : s = <<>> /\ Elements(s) = {}
  BY DEF Elements
<1>4. /\ \A p \in 0 .. 2 : PostsIn(q[p]) = {} /\ InOrder(q[p])
      /\ PostsIn(s) = {}
  BY <1>1, <1>3, NoPosts
<1>5. \A n \in Nodes, l \in Links :
        /\ ~Live(<<n, l>>)
        /\ conn[<<n, l>>].queue = q /\ conn[<<n, l>>].out = None
        /\ wire[<<n, l>>] = s
  BY <1>2, <1>3 DEF Init, Ends, Live
<1>6. \A n \in Nodes, l \in Links : Going(n, l) = {} /\ Leaving(n, l) = {} /\ Arriving(n, l) = {}
  <2>. SUFFICES ASSUME NEW n \in Nodes, NEW l \in Links
                PROVE  Going(n, l) = {} /\ Leaving(n, l) = {} /\ Arriving(n, l) = {}
    OBVIOUS
  <2>1. Going(n, l) = {}
    BY <1>4, <1>5 DEF Going
  <2>2. Leaving(n, l) = {}
    BY <1>5 DEF Leaving
  <2>3. Arriving(n, l) = {}
    BY <1>4, <1>5 DEF Arriving
  <2>. QED
    BY <2>1, <2>2, <2>3
<1>7. \A n \in Nodes : box[n] = q /\ comm[n].at = "idle" /\ inbox[n] = s /\ Elements(inbox[n]) = {}
  BY <1>1, <1>3 DEF Init, CommIdle
<1>8. PostedOf
  BY DEF Init, PostedOf
<1>9. PlacedInbox /\ Told
  BY <1>7 DEF Init, PlacedInbox, Told
<1>10. PlacedBox /\ PlacedComm /\ PlacedEnds /\ PlacedWires
  BY <1>4, <1>6, <1>7 DEF PlacedBox, PlacedComm, PlacedEnds, PlacedWires
<1>11. AddrOf /\ Rising
  BY <1>4, <1>5, <1>7 DEF AddrOf, Rising
<1>12. AsConfigured
  BY DEF Init, NoLink, AsConfigured
<1>13. Ordered
  <2>. SUFFICES ASSUME NEW k \in 0 .. 6, NEW x \in Posts PROVE ~In(k, x)
    BY DEF Ordered
  <2>1. From[x] \in Nodes /\ To[x] \in Nodes
    BY PeopleAreNodes
  <2>2. ~Delivered(x) /\ ~Arrived(x) /\ ~Waiting(x) /\ ~Held(x)
    BY <1>4, <1>7, <2>1 DEF Delivered, Arrived, Waiting, Held
  <2>3. ~OnWire(x) /\ ~Sent(x) /\ ~Queued(x)
    BY <1>6, <2>1 DEF OnWire, Sent, Queued
  <2>. QED
    BY <2>2, <2>3 DEF In
<1>. QED
  BY <1>8, <1>9, <1>10, <1>11, <1>12, <1>13 DEF Lined

LEMMA CommOrder ==
  ASSUME OneSided, ConnInv, Lined, NEW n \in Nodes, CommStep(n)
  PROVE  Lined'
<1>1. CASE CommClose(n)
  BY <1>1, CloseOrder
<1>2. CASE CommDeliver(n)
  BY <1>2, DeliverOrder
<1>3. CASE CommRoute(n)
  BY <1>3, RouteOrder
<1>4. CASE CommRefuse(n)
  BY <1>4, RefuseOrder
<1>5. CASE CommConnect(n)
  BY <1>5, ConnectOrder
<1>6. CASE CommAdd(n)
  BY <1>6, AddOrder
<1>7. CASE CommDuplicate(n)
  BY <1>7, DuplicateOrder
<1>8. CASE CommPush(n)
  BY <1>8, CommPushOrder
<1>. QED
  BY <1>1, <1>2, <1>3, <1>4, <1>5, <1>6, <1>7, <1>8 DEF CommStep

LEMMA CallbackOrder ==
  ASSUME OneSided, ConnInv, Lined, NEW n \in Nodes, NEW l \in Links, Callback(n, l)
  PROVE  Lined'
<1>1. CASE Accept(n, l)
  BY <1>1, AcceptOrder
<1>2. CASE OnConnect(n, l)
  BY <1>2, OnConnectOrder
<1>3. CASE OnSend(n, l)
  BY <1>3, OnSendOrder
<1>4. CASE OnError(n, l) \/ Throws(n, l)
  BY <1>4, ThrowsOrder
<1>5. CASE Answered(n, l)
  BY <1>5, AnsweredOrder
<1>6. CASE Readdress(n, l)
  BY <1>6, ReaddressOrder
<1>7. CASE DeletesItself(n, l)
  BY <1>7, DeletesItselfOrder
<1>8. CASE Forwards(n, l)
  BY <1>8, ForwardOrder
<1>9. CASE Pinged(n, l)
  BY <1>9, PingedOrder
<1>. QED
  BY <1>1, <1>2, <1>3, <1>4, <1>5, <1>6, <1>7, <1>8, <1>9 DEF Callback

LEMMA AioOrder ==
  ASSUME OneSided, ConnInv, Lined, NEW n \in Nodes, AioStep(n)
  PROVE  Lined'
<1>1. CASE \E l \in Links : Callback(n, l)
  BY <1>1, CallbackOrder
<1>2. CASE SentWakes(n) \/ Greeted(n) \/ Done(n)
  BY <1>2, ReturnsOrder
<1>3. CASE Answers(n)
  BY <1>3, AnswersOrder
<1>4. CASE Replies(n)
  BY <1>4, RepliesOrder
<1>5. CASE AioShut(n)
  BY <1>5, ShutsOrder
<1>. QED
  BY <1>1, <1>2, <1>3, <1>4, <1>5 DEF AioStep

OrderInv == OneSided => Lined

LEMMA OrderContinues == ConnInv /\ OrderInv /\ [Next]_vars => OrderInv'
<1>. SUFFICES ASSUME OneSided, ConnInv, Lined, [Next]_vars PROVE Lined'
  BY DEF OrderInv, OneSided
<1>1. CASE \E i \in Posts : MakePost(i)
  BY <1>1, MakePostOrder
<1>2. ASSUME NEW n \in Nodes, CommStep(n) PROVE Lined'
  BY <1>2, CommOrder
<1>3. ASSUME NEW n \in Nodes, AioStep(n) PROVE Lined'
  BY <1>3, AioOrder
<1>4. ASSUME NEW n \in Nodes, AdminShut(n) PROVE Lined'
  BY <1>4, ShutsOrder
<1>5. ASSUME NEW n \in Nodes, NEW m \in Nodes, Remove(n, m) PROVE Lined'
  BY <1>5, RemoveOrder
<1>6. ASSUME NEW n \in Nodes, NEW l \in Links, ThreadStep(n, l) PROVE Lined'
  BY <1>6, ThreadAskOrder, SendOrder, ThreadShutOrder DEF ThreadStep
<1>7. ASSUME NEW n \in Nodes, NEW l \in Links, Ping(n, l) PROVE Lined'
  BY <1>7, PingOrder
<1>8. ASSUME NEW l \in Links, Break(l) PROVE Lined'
  BY <1>8, BreakOrder
<1>9. CASE UNCHANGED vars
  BY <1>9, StillOrder
<1>. QED
  BY <1>1, <1>2, <1>3, <1>4, <1>5, <1>6, <1>7, <1>8, <1>9 DEF Next

(* A user is given the posts of another in the order they were made, and   *)
(* each once (msg_comm.cpp, msg_conn.cpp: the queues of the communicators  *)
(* and of the connections, and _msg_send), however often the connection    *)
(* breaks and is made again, where of two nodes only one is configured to  *)
(* connect to the other.                                                   *)
THEOREM ConnDeliveredInOrder == Spec => []DeliveredInOrder
<1>1. ASSUME OrderInv PROVE DeliveredInOrder
  <2>. SUFFICES ASSUME OneSided, NEW n \in Nodes, NEW j \in DOMAIN inbox[n], NEW k \in 1 .. j - 1,
                       From[inbox[n][k]] = From[inbox[n][j]]
                PROVE  inbox[n][k] < inbox[n][j]
    BY DEF DeliveredInOrder
  <2>1. inbox[n] \in Seq(Posts) /\ Told
    BY <1>1 DEF OrderInv, Lined, PlacedInbox
  <2>2. DOMAIN inbox[n] = 1 .. Len(inbox[n]) /\ Len(inbox[n]) \in Nat
    BY <2>1
  <2>3. k \in DOMAIN inbox[n] /\ k < j
    BY <2>2
  <2>. QED
    BY <2>1, <2>3 DEF Told
<1>2. Init => OrderInv
  BY OrderBegins DEF OrderInv
<1>. QED
  BY <1>1, <1>2, OrderContinues, ConnAlways, PTL DEF Spec
=============================================================================
