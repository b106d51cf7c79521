---------------------------- MODULE AioSockProofs ---------------------------
(***************************************************************************)
(* Proofs about AioSock for every set of users, of working threads and of  *)
(* blocks, and for every number of idents.  The first part is about the    *)
(* calls of CompletionPort: which items the port still knows of, where     *)
(* those it has come from, and that a block has one item if it had one.    *)
(***************************************************************************)
EXTENDS AioSock, ListProofs

-----------------------------------------------------------------------------
(* Items of the port.                                                      *)

Items(Ks, Bs) == [key : Ks, block : Bs, err : BOOLEAN, fresh : BOOLEAN]
Ports(Ks, Bs) ==
  [associated : SUBSET Ks, waiting : Seq(Items(Ks, Bs)), done : Seq(Items(Ks, Bs))]

Told(p) == Elements(p.waiting) \cup Elements(p.done)

\* The port knows that b is under way for k; an item that was overtaken does not
\* count.
Knows(p, k, b) == \E x \in Told(p) : x.key = k /\ x.block = b /\ x.fresh

\* Each of the blocks Bs has one item at most.
OneItemIn(s, Bs) == \A m, n \in DOMAIN s : s[m].block = s[n].block /\ s[m].block \in Bs => m = n
Apart(p, Bs) ==
  \A x \in Elements(p.waiting), y \in Elements(p.done) : x.block = y.block => x.block \notin Bs
OneItem(p, Bs) == OneItemIn(p.waiting, Bs) /\ OneItemIn(p.done, Bs) /\ Apart(p, Bs)

\* The items of q are some of p's: at most their error has changed.
SameItem(x, y) == x.key = y.key /\ x.block = y.block /\ x.fresh = y.fresh
ComeFrom(q, p) == \A x \in Told(q) : \E y \in Told(p) : SameItem(x, y)

-----------------------------------------------------------------------------
(* Parts of a list of items.                                               *)

LEMMA KeptItems ==
  ASSUME NEW Ks, NEW Bs, NEW s \in Seq(Items(Ks, Bs)), NEW K \in SUBSET DOMAIN s,
         NEW Cs, OneItemIn(s, Cs)
  PROVE  OneItemIn(Kept(s, K), Cs)
<1>1. \A n \in DOMAIN Kept(s, K) : Place(K, n) \in K /\ Kept(s, K)[n] = s[Place(K, n)]
  BY KeptIs
<1>2. \A i, j \in DOMAIN Kept(s, K) : i < j => Place(K, i) < Place(K, j)
  BY KeptIs
<1>3. Kept(s, K) \in Seq(Items(Ks, Bs)) /\ K \in SUBSET Int
  BY KeptIs
<1>. SUFFICES ASSUME NEW m \in DOMAIN Kept(s, K), NEW n \in DOMAIN Kept(s, K),
                     Kept(s, K)[m].block = Kept(s, K)[n].block, Kept(s, K)[m].block \in Cs
              PROVE  m = n
  BY DEF OneItemIn
<1>4. Place(K, m) = Place(K, n)
  BY <1>1 DEF OneItemIn
<1>5. m \in Int /\ n \in Int /\ Place(K, m) \in Int
  BY <1>1, <1>3
<1>6. ~(m < n) /\ ~(n < m)
  BY <1>2, <1>4, <1>5
<1>. QED
  BY <1>5, <1>6

LEMMA AppendedItem ==
  ASSUME NEW Ks, NEW Bs, NEW s \in Seq(Items(Ks, Bs)), NEW x \in Items(Ks, Bs),
         NEW Cs, OneItemIn(s, Cs), \A y \in Elements(s) : y.block = x.block => x.block \notin Cs
  PROVE  OneItemIn(Append(s, x), Cs)
<1>1. /\ Len(s) \in Nat /\ DOMAIN s = 1 .. Len(s) /\ DOMAIN Append(s, x) = 1 .. Len(s) + 1
      /\ \A k \in 1 .. Len(s) : Append(s, x)[k] = s[k]
      /\ Append(s, x)[Len(s) + 1] = x
  OBVIOUS
<1>2. \A k \in 1 .. Len(s) : s[k].block = x.block => x.block \notin Cs
  BY <1>1 DEF Elements
<1>. QED
  BY <1>1, <1>2 DEF OneItemIn

\* Results and Outlives change items, and leave their blocks alone.
LEMMA ResultItems ==
  ASSUME NEW Ks, NEW Bs, NEW s \in Seq(Items(Ks, Bs)), NEW E
  PROVE  /\ Results(s, E) \in Seq(Items(Ks, Bs))
         /\ \A x \in Elements(Results(s, E)) : \E y \in Elements(s) : SameItem(x, y)
         /\ \A y \in Elements(s) : \E x \in Elements(Results(s, E)) : SameItem(x, y)
         /\ \A Cs : OneItemIn(s, Cs) => OneItemIn(Results(s, E), Cs)
<1>1. DOMAIN Results(s, E) = DOMAIN s
  BY DEF Results
<1>2. ASSUME NEW n \in DOMAIN s
      PROVE  Results(s, E)[n] \in Items(Ks, Bs) /\ SameItem(Results(s, E)[n], s[n])
  <2>1. Results(s, E)[n] = [s[n] EXCEPT !.err = s[n] \in E]
    BY DEF Results
  <2>2. s[n] \in Items(Ks, Bs) /\ (s[n] \in E) \in BOOLEAN
    OBVIOUS
  <2>. QED
    BY <2>1, <2>2 DEF Items, SameItem
<1>3. Results(s, E) \in Seq(Items(Ks, Bs))
  <2>1. Len(s) \in Nat /\ DOMAIN s = 1 .. Len(s)
    OBVIOUS
  <2>2. Results(s, E) = [n \in 1 .. Len(s) |-> Results(s, E)[n]]
    BY <2>1 DEF Results
  <2>3. Results(s, E) \in [1 .. Len(s) -> Items(Ks, Bs)]
    BY <1>2, <2>1, <2>2
  <2>. QED
    BY <2>1, <2>3, SeqDef
<1>4. /\ \A x \in Elements(Results(s, E)) : \E y \in Elements(s) : SameItem(x, y)
      /\ \A y \in Elements(s) : \E x \in Elements(Results(s, E)) : SameItem(x, y)
  BY <1>1, <1>2 DEF Elements
<1>5. ASSUME NEW Cs, OneItemIn(s, Cs)
      PROVE  OneItemIn(Results(s, E), Cs)
  BY <1>1, <1>2, <1>5 DEF OneItemIn, SameItem
<1>. QED
  BY <1>3, <1>4, <1>5

LEMMA OutliveItems ==
  ASSUME NEW Ks, NEW Bs, NEW s \in Seq(Items(Ks, Bs)), NEW B
  PROVE  /\ Outlives(s, B) \in Seq(Items(Ks, Bs))
         /\ \A x \in Elements(Outlives(s, B)) : \E y \in Elements(s) : x = Outlive(y, B)
         /\ \A y \in Elements(s) : Outlive(y, B) \in Elements(Outlives(s, B))
         /\ \A Cs : OneItemIn(s, Cs) => OneItemIn(Outlives(s, B), Cs)
<1>1. DOMAIN Outlives(s, B) = DOMAIN s
  BY DEF Outlives
<1>2. \A n \in DOMAIN s : s[n] \in Items(Ks, Bs)
  OBVIOUS
<1>3. \A n \in DOMAIN s : /\ Outlives(s, B)[n] = Outlive(s[n], B)
                          /\ Outlive(s[n], B) \in Items(Ks, Bs)
                          /\ Outlive(s[n], B).block = s[n].block
  BY <1>2 DEF Outlives, Outlive, Items
<1>4. Outlives(s, B) \in Seq(Items(Ks, Bs))
  <2>1. Len(s) \in Nat /\ DOMAIN s = 1 .. Len(s)
    OBVIOUS
  <2>2. Outlives(s, B) = [n \in 1 .. Len(s) |-> Outlives(s, B)[n]]
    BY <2>1 DEF Outlives
  <2>3. Outlives(s, B) \in [1 .. Len(s) -> Items(Ks, Bs)]
    BY <1>3, <2>1, <2>2
  <2>. QED
    BY <2>1, <2>3, SeqDef
<1>5. /\ \A x \in Elements(Outlives(s, B)) : \E y \in Elements(s) : x = Outlive(y, B)
      /\ \A y \in Elements(s) : Outlive(y, B) \in Elements(Outlives(s, B))
  BY <1>1, <1>3 DEF Elements
<1>6. ASSUME NEW Cs, OneItemIn(s, Cs)
      PROVE  OneItemIn(Outlives(s, B), Cs)
  BY <1>1, <1>3, <1>6 DEF OneItemIn
<1>. QED
  BY <1>4, <1>5, <1>6

LEMMA JoinedLists ==
  ASSUME NEW S, NEW s \in Seq(S), NEW t \in Seq(S)
  PROVE  /\ s \o t \in Seq(S)
         /\ Elements(s \o t) = Elements(s) \cup Elements(t)
<1>1. /\ s \o t \in Seq(S)
      /\ Len(s) \in Nat /\ Len(t) \in Nat /\ DOMAIN s = 1 .. Len(s) /\ DOMAIN t = 1 .. Len(t)
      /\ DOMAIN (s \o t) = 1 .. Len(s) + Len(t)
      /\ \A k \in 1 .. Len(s) + Len(t) : (s \o t)[k] = IF k <= Len(s) THEN s[k] ELSE t[k - Len(s)]
  OBVIOUS
<1>2. \A k \in DOMAIN (s \o t) : \/ k \in DOMAIN s /\ (s \o t)[k] = s[k]
                                 \/ k - Len(s) \in DOMAIN t /\ (s \o t)[k] = t[k - Len(s)]
  BY <1>1
<1>3. \A k \in DOMAIN s : k \in DOMAIN (s \o t) /\ (s \o t)[k] = s[k]
  BY <1>1
<1>4. \A k \in DOMAIN t : k + Len(s) \in DOMAIN (s \o t) /\ (s \o t)[k + Len(s)] = t[k]
  BY <1>1
<1>5. Elements(s \o t) \subseteq Elements(s) \cup Elements(t)
  BY <1>2 DEF Elements
<1>6. Elements(s) \cup Elements(t) \subseteq Elements(s \o t)
  BY <1>3, <1>4 DEF Elements
<1>. QED
  BY <1>1, <1>5, <1>6

LEMMA JoinedItems ==
  ASSUME NEW Ks, NEW Bs, NEW s \in Seq(Items(Ks, Bs)), NEW t \in Seq(Items(Ks, Bs)),
         NEW Cs, OneItemIn(s, Cs), OneItemIn(t, Cs),
         \A x \in Elements(s), y \in Elements(t) : x.block = y.block => x.block \notin Cs
  PROVE  OneItemIn(s \o t, Cs)
<1>1. /\ Len(s) \in Nat /\ Len(t) \in Nat /\ DOMAIN s = 1 .. Len(s) /\ DOMAIN t = 1 .. Len(t)
      /\ DOMAIN (s \o t) = 1 .. Len(s) + Len(t)
      /\ \A k \in 1 .. Len(s) + Len(t) : (s \o t)[k] = IF k <= Len(s) THEN s[k] ELSE t[k - Len(s)]
  OBVIOUS
<1>2. \A i \in DOMAIN s, j \in DOMAIN t : s[i].block = t[j].block => s[i].block \notin Cs
  BY DEF Elements
<1>. SUFFICES ASSUME NEW m \in DOMAIN (s \o t), NEW n \in DOMAIN (s \o t),
                     (s \o t)[m].block = (s \o t)[n].block, (s \o t)[m].block \in Cs
              PROVE  m = n
  BY DEF OneItemIn
<1>3. CASE m <= Len(s) /\ n <= Len(s)
  BY <1>1, <1>3 DEF OneItemIn
<1>4. CASE m > Len(s) /\ n > Len(s)
  <2>1. m - Len(s) \in DOMAIN t /\ n - Len(s) \in DOMAIN t
    BY <1>1, <1>4
  <2>2. (s \o t)[m] = t[m - Len(s)] /\ (s \o t)[n] = t[n - Len(s)]
    BY <1>1, <1>4
  <2>3. m - Len(s) = n - Len(s)
    BY <2>1, <2>2 DEF OneItemIn
  <2>. QED
    BY <2>3, <1>1
<1>5. CASE m <= Len(s) /\ n > Len(s)
  <2>1. m \in DOMAIN s /\ n - Len(s) \in DOMAIN t
    BY <1>1, <1>5
  <2>2. (s \o t)[m] = s[m] /\ (s \o t)[n] = t[n - Len(s)]
    BY <1>1, <1>5
  <2>. QED
    BY <2>1, <2>2, <1>2
<1>6. CASE m > Len(s) /\ n <= Len(s)
  <2>1. n \in DOMAIN s /\ m - Len(s) \in DOMAIN t
    BY <1>1, <1>6
  <2>2. (s \o t)[n] = s[n] /\ (s \o t)[m] = t[m - Len(s)]
    BY <1>1, <1>6
  <2>. QED
    BY <2>1, <2>2, <1>2
<1>. QED
  BY <1>1, <1>3, <1>4, <1>5, <1>6

-----------------------------------------------------------------------------
(* The calls.                                                              *)

LEMMA EmptyPort ==
  ASSUME NEW Ks, NEW Bs, NEW Cs
  PROVE  NewPort \in Ports(Ks, Bs) /\ Told(NewPort) = {} /\ OneItem(NewPort, Cs)
BY DEF NewPort, Ports, Told, Elements, OneItem, OneItemIn, Apart

LEMMA PortAssociates ==
  ASSUME NEW Ks, NEW Bs, NEW p \in Ports(Ks, Bs), NEW k \in Ks
  PROVE  /\ Associate(p, k) \in Ports(Ks, Bs)
         /\ Told(Associate(p, k)) = Told(p)
         /\ \A Cs : OneItem(p, Cs) => OneItem(Associate(p, k), Cs)
<1>1. /\ Associate(p, k) \in Ports(Ks, Bs)
      /\ Associate(p, k).waiting = p.waiting /\ Associate(p, k).done = p.done
  BY DEF Associate, Ports
<1>. QED
  BY <1>1 DEF Told, OneItem, Apart

\* StartWaiting, StartDone and Posted.
LEMMA PortAdds ==
  ASSUME NEW Ks, NEW Bs, NEW p \in Ports(Ks, Bs), NEW x \in Items(Ks, Bs), NEW q,
         \/ q = [p EXCEPT !.waiting = Append(@, x)]
         \/ q = [p EXCEPT !.done = Append(@, x)]
  PROVE  /\ q \in Ports(Ks, Bs)
         /\ Told(q) = Told(p) \cup {x}
         /\ \A Cs : OneItem(p, Cs) /\ (\A y \in Told(p) : y.block = x.block => x.block \notin Cs)
                      => OneItem(q, Cs)
<1>0. p.waiting \in Seq(Items(Ks, Bs)) /\ p.done \in Seq(Items(Ks, Bs))
  BY DEF Ports
<1>1. /\ Append(p.waiting, x) \in Seq(Items(Ks, Bs)) /\ Append(p.done, x) \in Seq(Items(Ks, Bs))
      /\ Elements(Append(p.waiting, x)) = Elements(p.waiting) \cup {x}
      /\ Elements(Append(p.done, x)) = Elements(p.done) \cup {x}
  BY <1>0, ListGrows
<1>2. \/ q.waiting = Append(p.waiting, x) /\ q.done = p.done
      \/ q.done = Append(p.done, x) /\ q.waiting = p.waiting
  BY DEF Ports
<1>3. q \in Ports(Ks, Bs)
  BY <1>1 DEF Ports
<1>4. Told(q) = Told(p) \cup {x}
  BY <1>1, <1>2 DEF Told
<1>5. ASSUME NEW Cs, OneItem(p, Cs), \A y \in Told(p) : y.block = x.block => x.block \notin Cs
      PROVE  OneItem(q, Cs)
  <2>1. OneItemIn(Append(p.waiting, x), Cs)
    BY <1>0, <1>5, AppendedItem DEF OneItem, Told
  <2>2. OneItemIn(Append(p.done, x), Cs)
    BY <1>0, <1>5, AppendedItem DEF OneItem, Told
  <2>3. Apart(q, Cs)
    BY <1>1, <1>2, <1>5 DEF OneItem, Apart, Told
  <2>. QED
    BY <1>2, <1>5, <2>1, <2>2, <2>3 DEF OneItem
<1>. QED
  BY <1>3, <1>4, <1>5

LEMMA PortDequeues ==
  ASSUME NEW Ks, NEW Bs, NEW p \in Ports(Ks, Bs), p.done # <<>>
  PROVE  /\ Dequeued(p) \in Ports(Ks, Bs) /\ Head(p.done) \in Items(Ks, Bs)
         /\ Told(p) = Told(Dequeued(p)) \cup {Head(p.done)}
         /\ \A Cs : OneItem(p, Cs) =>
              /\ OneItem(Dequeued(p), Cs)
              /\ \A y \in Told(Dequeued(p)) : y.block = Head(p.done).block => y.block \notin Cs
<1>. DEFINE s == p.done
<1>1. /\ s \in Seq(Items(Ks, Bs)) /\ s # <<>>
      /\ Dequeued(p).done = Tail(s) /\ Dequeued(p).waiting = p.waiting
      /\ Dequeued(p).associated = p.associated
  BY DEF Ports, Dequeued
<1>2. Dequeued(p) = [p EXCEPT !.done = Tail(s)]
  BY DEF Dequeued
<1>. HIDE DEF s
<1>3. /\ Tail(s) \in Seq(Items(Ks, Bs)) /\ Len(s) \in Nat \ {0} /\ Head(s) = s[1]
      /\ DOMAIN s = 1 .. Len(s) /\ DOMAIN Tail(s) = 1 .. Len(s) - 1
      /\ \A k \in 1 .. Len(s) - 1 : Tail(s)[k] = s[k + 1]
  BY <1>1
<1>4. \A k \in DOMAIN s : k = 1 \/ (k - 1 \in DOMAIN Tail(s) /\ Tail(s)[k - 1] = s[k])
  BY <1>3
<1>5. \A k \in DOMAIN Tail(s) : k + 1 \in DOMAIN s /\ Tail(s)[k] = s[k + 1] /\ k + 1 # 1 /\ k \in Int
  BY <1>3
<1>6. Elements(s) \subseteq Elements(Tail(s)) \cup {Head(s)}
  <2>. SUFFICES ASSUME NEW k \in DOMAIN s
                PROVE  s[k] \in Elements(Tail(s)) \/ s[k] = Head(s)
    BY DEF Elements
  <2>. QED
    BY <1>3, <1>4 DEF Elements
<1>7. Elements(Tail(s)) \cup {Head(s)} \subseteq Elements(s)
  BY <1>3, <1>5 DEF Elements
<1>8. Dequeued(p) \in Ports(Ks, Bs) /\ Head(s) \in Items(Ks, Bs)
  <2>1. Head(s) \in Items(Ks, Bs)
    BY <1>1
  <2>. QED
    BY <1>2, <1>3, <2>1 DEF Ports
<1>9. Told(p) = Told(Dequeued(p)) \cup {Head(s)}
  BY <1>1, <1>6, <1>7 DEF Told, s
<1>10. ASSUME NEW Cs, OneItem(p, Cs)
       PROVE  /\ OneItem(Dequeued(p), Cs)
              /\ \A y \in Told(Dequeued(p)) : y.block = Head(s).block => y.block \notin Cs
  <2>1. OneItemIn(s, Cs)
    BY <1>10 DEF OneItem, s
  <2>2. \A i, j \in DOMAIN Tail(s) : i + 1 = j + 1 => i = j
    BY <1>5
  <2>3. OneItemIn(Tail(s), Cs)
    BY <1>5, <2>1, <2>2 DEF OneItemIn
  <2>4. Apart(Dequeued(p), Cs)
    BY <1>1, <1>7, <1>10 DEF OneItem, Apart, s
  <2>5. \A k \in DOMAIN Tail(s) : Tail(s)[k].block = Head(s).block => Tail(s)[k].block \notin Cs
    BY <1>3, <1>5, <2>1 DEF OneItemIn
  <2>6. \A y \in Elements(Tail(s)) : y.block = Head(s).block => y.block \notin Cs
    BY <2>5 DEF Elements
  <2>7. \A y \in Elements(p.waiting) : y.block = Head(s).block => y.block \notin Cs
    BY <1>7, <1>10 DEF OneItem, Apart, s
  <2>. QED
    BY <1>1, <1>10, <2>3, <2>4, <2>6, <2>7 DEF OneItem, Told
<1>. QED
  BY <1>8, <1>9, <1>10 DEF s

\* CancelAll and CancelOne are of this form.
LEMMA PortForgets ==
  ASSUME NEW Ks, NEW Bs, NEW p \in Ports(Ks, Bs), NEW K \in SUBSET DOMAIN p.waiting, NEW q,
         q.waiting = Kept(p.waiting, K), q.done = p.done
  PROVE  /\ q.waiting \in Seq(Items(Ks, Bs)) /\ q.done \in Seq(Items(Ks, Bs))
         /\ Elements(q.waiting) = {p.waiting[n] : n \in K}
         /\ Told(q) \subseteq Told(p)
         /\ \A Cs : OneItem(p, Cs) => OneItem(q, Cs)
<1>1. p.waiting \in Seq(Items(Ks, Bs)) /\ p.done \in Seq(Items(Ks, Bs))
  BY DEF Ports
<1>2. q.waiting \in Seq(Items(Ks, Bs)) /\ Elements(q.waiting) = {p.waiting[n] : n \in K}
  BY <1>1, KeptElements
<1>3. Elements(q.waiting) \subseteq Elements(p.waiting)
  BY <1>2 DEF Elements
<1>4. ASSUME NEW Cs, OneItem(p, Cs)
      PROVE  OneItem(q, Cs)
  <2>1. OneItemIn(q.waiting, Cs)
    BY <1>1, <1>4, KeptItems DEF OneItem
  <2>2. Apart(q, Cs)
    BY <1>3, <1>4 DEF OneItem, Apart
  <2>. QED
    BY <1>4, <2>1, <2>2 DEF OneItem
<1>. QED
  BY <1>1, <1>2, <1>3, <1>4 DEF Told

LEMMA PortCancelsAll ==
  ASSUME NEW Ks, NEW Bs, NEW p \in Ports(Ks, Bs), NEW i
  PROVE  /\ CancelAll(p, i) \in Ports(Ks, Bs)
         /\ Told(CancelAll(p, i)) \subseteq Told(p)
         /\ \A k, b : Knows(p, k, b) /\ k # i => Knows(CancelAll(p, i), k, b)
         /\ \A Cs : OneItem(p, Cs) => OneItem(CancelAll(p, i), Cs)
<1>. DEFINE K == {n \in DOMAIN p.waiting : p.waiting[n].key # i}
            q == CancelAll(p, i)
<1>0. q = [p EXCEPT !.waiting = Kept(p.waiting, K), !.associated = p.associated \ {i}]
  BY Zenon DEF CancelAll
<1>2. K \in SUBSET DOMAIN p.waiting
  OBVIOUS
<1>3. \A n \in DOMAIN p.waiting : p.waiting[n].key # i => n \in K
  OBVIOUS
<1>. HIDE DEF K, q
<1>1. /\ q.waiting = Kept(p.waiting, K) /\ q.done = p.done /\ q.associated \in SUBSET Ks
      /\ q = [associated |-> q.associated, waiting |-> q.waiting, done |-> q.done]
  BY <1>0 DEF Ports
<1>4. /\ q.waiting \in Seq(Items(Ks, Bs)) /\ q.done \in Seq(Items(Ks, Bs))
      /\ Elements(q.waiting) = {p.waiting[n] : n \in K}
      /\ Told(q) \subseteq Told(p)
      /\ \A Cs : OneItem(p, Cs) => OneItem(q, Cs)
  BY <1>1, <1>2, PortForgets
<1>5. q \in Ports(Ks, Bs)
  BY <1>1, <1>4 DEF Ports
<1>6. \A x \in Told(p) : x.key # i => x \in Told(q)
  BY <1>1, <1>3, <1>4 DEF Told, Elements
<1>7. \A k, b : Knows(p, k, b) /\ k # i => Knows(q, k, b)
  BY <1>6 DEF Knows
<1>. QED
  BY <1>4, <1>5, <1>7 DEF q

LEMMA PortCancelsOne ==
  ASSUME NEW Ks, NEW Bs, NEW p \in Ports(Ks, Bs), NEW i, NEW c
  PROVE  /\ CancelOne(p, i, c) \in Ports(Ks, Bs)
         /\ Told(CancelOne(p, i, c)) \subseteq Told(p)
         /\ \A k, b : Knows(p, k, b) /\ b # c => Knows(CancelOne(p, i, c), k, b)
         /\ \A Cs : OneItem(p, Cs) => OneItem(CancelOne(p, i, c), Cs)
<1>. DEFINE K == {n \in DOMAIN p.waiting : ~(p.waiting[n].key = i /\ p.waiting[n].block = c)}
            q == CancelOne(p, i, c)
<1>0. q = [p EXCEPT !.waiting = Kept(p.waiting, K)]
  BY Zenon DEF CancelOne
<1>2. K \in SUBSET DOMAIN p.waiting
  OBVIOUS
<1>3. \A n \in DOMAIN p.waiting : p.waiting[n].block # c => n \in K
  OBVIOUS
<1>. HIDE DEF K, q
<1>1. /\ q.waiting = Kept(p.waiting, K) /\ q.done = p.done /\ q.associated \in SUBSET Ks
      /\ q = [associated |-> q.associated, waiting |-> q.waiting, done |-> q.done]
  BY <1>0 DEF Ports
<1>4. /\ q.waiting \in Seq(Items(Ks, Bs)) /\ q.done \in Seq(Items(Ks, Bs))
      /\ Elements(q.waiting) = {p.waiting[n] : n \in K}
      /\ Told(q) \subseteq Told(p)
      /\ \A Cs : OneItem(p, Cs) => OneItem(q, Cs)
  BY <1>1, <1>2, PortForgets
<1>5. q \in Ports(Ks, Bs)
  BY <1>1, <1>4 DEF Ports
<1>6. \A x \in Told(p) : x.block # c => x \in Told(q)
  BY <1>1, <1>3, <1>4 DEF Told, Elements
<1>7. \A k, b : Knows(p, k, b) /\ b # c => Knows(q, k, b)
  BY <1>6 DEF Knows
<1>. QED
  BY <1>4, <1>5, <1>7 DEF q

LEMMA PortFinishes ==
  ASSUME NEW Ks, NEW Bs, NEW p \in Ports(Ks, Bs), NEW S, NEW E
  PROVE  /\ Finished(p, S, E) \in Ports(Ks, Bs)
         /\ ComeFrom(Finished(p, S, E), p)
         /\ \A k, b : Knows(p, k, b) => Knows(Finished(p, S, E), k, b)
         /\ \A Cs : OneItem(p, Cs) => OneItem(Finished(p, S, E), Cs)
<1>. DEFINE M == {n \in DOMAIN p.waiting : p.waiting[n] \in S}
            N == DOMAIN p.waiting \ M
            moved == Kept(p.waiting, M)
            q == Finished(p, S, E)
<1>0. q = [p EXCEPT !.waiting = Kept(p.waiting, N), !.done = p.done \o Results(moved, E)]
  BY Zenon DEF Finished
<1>2. /\ M \in SUBSET DOMAIN p.waiting /\ N \in SUBSET DOMAIN p.waiting
      /\ \A n \in DOMAIN p.waiting : n \in M \/ n \in N
      /\ M \cap N = {}
  OBVIOUS
<1>3. moved = Kept(p.waiting, M)
  OBVIOUS
<1>. HIDE DEF M, N, moved, q
<1>1. /\ q.waiting = Kept(p.waiting, N) /\ q.done = p.done \o Results(moved, E)
      /\ q.associated \in SUBSET Ks
      /\ q = [associated |-> q.associated, waiting |-> q.waiting, done |-> q.done]
  BY <1>0 DEF Ports
<1>4. p.waiting \in Seq(Items(Ks, Bs)) /\ p.done \in Seq(Items(Ks, Bs))
  BY DEF Ports
<1>5. /\ q.waiting \in Seq(Items(Ks, Bs)) /\ Elements(q.waiting) = {p.waiting[n] : n \in N}
      /\ moved \in Seq(Items(Ks, Bs)) /\ Elements(moved) = {p.waiting[n] : n \in M}
  BY <1>1, <1>2, <1>3, <1>4, KeptElements
<1>6. /\ Results(moved, E) \in Seq(Items(Ks, Bs))
      /\ \A x \in Elements(Results(moved, E)) : \E y \in Elements(moved) : SameItem(x, y)
      /\ \A y \in Elements(moved) : \E x \in Elements(Results(moved, E)) : SameItem(x, y)
  BY <1>5, ResultItems
<1>7. /\ q.done \in Seq(Items(Ks, Bs))
      /\ Elements(q.done) = Elements(p.done) \cup Elements(Results(moved, E))
  BY <1>1, <1>4, <1>6, JoinedLists
<1>8. q \in Ports(Ks, Bs)
  BY <1>1, <1>5, <1>7 DEF Ports
<1>9. Elements(p.waiting) = Elements(q.waiting) \cup Elements(moved)
  BY <1>2, <1>5 DEF Elements
<1>10. ComeFrom(q, p)
  <2>1. \A x : SameItem(x, x)
    BY DEF SameItem
  <2>. QED
    BY <1>6, <1>7, <1>9, <2>1 DEF ComeFrom, Told
<1>11. \A y \in Told(p) : \E x \in Told(q) : SameItem(x, y)
  <2>1. \A x : SameItem(x, x)
    BY DEF SameItem
  <2>. QED
    BY <1>6, <1>7, <1>9, <2>1 DEF Told
<1>12. \A k, b : Knows(p, k, b) => Knows(q, k, b)
  BY <1>11 DEF Knows, SameItem
<1>13. ASSUME NEW Cs, OneItem(p, Cs)
       PROVE  OneItem(q, Cs)
  <2>1. OneItemIn(p.waiting, Cs) /\ OneItemIn(p.done, Cs) /\ Apart(p, Cs)
    BY <1>13 DEF OneItem
  <2>2. OneItemIn(q.waiting, Cs) /\ OneItemIn(moved, Cs)
    BY <2>1, <1>1, <1>2, <1>3, <1>4, KeptItems
  <2>3. OneItemIn(Results(moved, E), Cs)
    BY <2>2, <1>5, ResultItems
  <2>4. \A x \in Elements(p.done), y \in Elements(Results(moved, E)) :
          x.block = y.block => x.block \notin Cs
    BY <2>1, <1>6, <1>9 DEF Apart, SameItem
  <2>5. OneItemIn(q.done, Cs)
    BY <2>1, <2>3, <2>4, <1>1, <1>4, <1>6, JoinedItems
  <2>6. \A x \in Elements(q.waiting), y \in Elements(moved) : x.block = y.block => x.block \notin Cs
    <3>1. \A m \in N, n \in M : p.waiting[m].block = p.waiting[n].block => p.waiting[m].block \notin Cs
      BY <2>1, <1>2 DEF OneItemIn
    <3>. QED
      BY <3>1, <1>5
  <2>7. Apart(q, Cs)
    BY <2>1, <2>6, <1>6, <1>7, <1>9 DEF Apart, SameItem
  <2>. QED
    BY <2>2, <2>5, <2>7 DEF OneItem
<1>. QED
  BY <1>8, <1>10, <1>12, <1>13 DEF q

LEMMA PortRecycles ==
  ASSUME NEW Ks, NEW Bs, NEW p \in Ports(Ks, Bs), NEW B
  PROVE  /\ Recycled(p, B) \in Ports(Ks, Bs)
         /\ \A x \in Told(Recycled(p, B)) : \E y \in Told(p) : x = Outlive(y, B)
         /\ \A k, b : Knows(p, k, b) /\ b \notin B => Knows(Recycled(p, B), k, b)
         /\ \A Cs : OneItem(p, Cs) => OneItem(Recycled(p, B), Cs)
<1>. DEFINE q == Recycled(p, B)
<1>0. q = [p EXCEPT !.waiting = Outlives(p.waiting, B), !.done = Outlives(p.done, B)]
  BY Zenon DEF Recycled
<1>. HIDE DEF q
<1>1. /\ q.waiting = Outlives(p.waiting, B) /\ q.done = Outlives(p.done, B)
      /\ q.associated \in SUBSET Ks
      /\ q = [associated |-> q.associated, waiting |-> q.waiting, done |-> q.done]
  BY <1>0 DEF Ports
<1>2. p.waiting \in Seq(Items(Ks, Bs)) /\ p.done \in Seq(Items(Ks, Bs))
  BY DEF Ports
<1>3. /\ q.waiting \in Seq(Items(Ks, Bs)) /\ q.done \in Seq(Items(Ks, Bs))
      /\ \A x \in Elements(q.waiting) : \E y \in Elements(p.waiting) : x = Outlive(y, B)
      /\ \A x \in Elements(q.done) : \E y \in Elements(p.done) : x = Outlive(y, B)
      /\ \A y \in Elements(p.waiting) : Outlive(y, B) \in Elements(q.waiting)
      /\ \A y \in Elements(p.done) : Outlive(y, B) \in Elements(q.done)
  BY <1>1, <1>2, OutliveItems
<1>4. q \in Ports(Ks, Bs)
  BY <1>1, <1>3 DEF Ports
<1>5. \A y \in Items(Ks, Bs) : /\ Outlive(y, B).key = y.key /\ Outlive(y, B).block = y.block
                              /\ y.block \notin B => Outlive(y, B).fresh = y.fresh
  BY DEF Outlive, Items
<1>6. Told(p) \subseteq Items(Ks, Bs)
  BY <1>2 DEF Told, Elements
<1>7. \A k, b : Knows(p, k, b) /\ b \notin B => Knows(q, k, b)
  <2>1. \A y \in Told(p) : Outlive(y, B) \in Told(q)
    BY <1>3 DEF Told
  <2>2. \A y \in Told(p) : /\ Outlive(y, B).key = y.key /\ Outlive(y, B).block = y.block
                           /\ y.block \notin B => Outlive(y, B).fresh = y.fresh
    BY <1>6 DEF Outlive, Items
  <2>. QED
    BY <2>1, <2>2 DEF Knows
<1>8. ASSUME NEW Cs, OneItem(p, Cs)
      PROVE  OneItem(q, Cs)
  <2>1. OneItemIn(q.waiting, Cs) /\ OneItemIn(q.done, Cs)
    BY <1>1, <1>2, <1>8, OutliveItems DEF OneItem
  <2>2. Apart(q, Cs)
    <3>1. \A y \in Told(p) : Outlive(y, B).block = y.block
      BY <1>6 DEF Outlive, Items
    <3>. QED
      BY <3>1, <1>3, <1>8 DEF OneItem, Apart, Told
  <2>. QED
    BY <2>1, <2>2 DEF OneItem
<1>. QED
  BY <1>3, <1>4, <1>7, <1>8 DEF q, Told

-----------------------------------------------------------------------------
(* The invariants.                                                         *)

Keys     == 0 .. LastIdent             \* of completions: 0 is Quit's
Overlaps == Blocks \cup {None}

Taken == [kind : {"data", "accept"}, ident : Idents, clock : {"never", "before", "due", "after"},
          err : BOOLEAN, own : BOOLEAN]
HalfDone == [name : {"listen", "close"}, ident : Idents, delayed : BOOLEAN]

SocketTypes ==
  /\ issued \subseteq Idents /\ open \subseteq Idents /\ listeners \subseteq Idents
  /\ invoking \in [Idents -> Int] /\ delay \in [Idents -> Int] /\ accepts \in [Idents -> Int]
  /\ incoming \in [Idents -> SUBSET Blocks] /\ marks \in [Idents -> SUBSET Marks]

ListTypes ==
  /\ initial \in Seq(Blocks) /\ outgoing \in Seq(Blocks)
  /\ block \in [Blocks -> {Free, Lost} \cup Taken]

PortTypes ==
  /\ port \in Ports(Keys, Overlaps)
  /\ hand \in Items(Keys, Overlaps) \cup {None}
  /\ portOn \in BOOLEAN

ThreadTypes ==
  /\ initAt \in {"ask", "do", "accepts", "timeouts", "call", "ended"}
  /\ at \in [Workers -> {"idle", "do", "call"}]
  /\ serving \in [Callers -> Blocks \cup {None}]
  /\ op \in [Actors -> {NoOp} \cup HalfDone]
  /\ offAt \in {"up", "stopInit", "quit", "pool", "down"}

\* The owner's progress, and what it says of the threads.
OffInv ==
  /\ \A x \in Callers : serving[x] # None <=> InCallback(x)
  /\ \A x \in Callers : op[x] # NoOp => InCallback(x)
  /\ offAt # "up" => \A u \in Users : op[u] = NoOp
  /\ offAt \in {"quit", "pool", "down"} => initAt = "ended"
  /\ offAt \in {"pool", "down"} => ~portOn
  /\ ~portOn => hand = None

\* A block that was taken on and not given back.
Live(b)   == block[b].kind \in {"data", "accept"}
Served(b) == \E x \in Callers : serving[x] = b

\* A live block is at one station; in a list, its socket is open.
Listed(b) == Live(b) /\ block[b].own /\ block[b].ident \in open /\ ~Served(b)
InitialInv ==
  /\ OnceEach(initial)
  /\ \A b \in Elements(initial) :
       Listed(b) /\ b \notin Elements(outgoing) /\ \A i \in Idents : b \notin incoming[i]
OutgoingInv ==
  /\ OnceEach(outgoing)
  /\ \A b \in Elements(outgoing) : Listed(b) /\ \A i \in Idents : b \notin incoming[i]
IncomingInv == \A i \in Idents : \A b \in incoming[i] : Listed(b) /\ block[b].ident = i
ServedInv ==
  /\ \A x \in Callers : serving[x] # None => Live(serving[x])
  /\ \A x, y \in Callers : serving[x] # None /\ serving[x] = serving[y] => x = y
FoundInv ==
  \A b \in Blocks : Live(b) =>
    \/ b \in Elements(initial) \/ b \in Elements(outgoing)
    \/ b \in incoming[block[b].ident] \/ Served(b)
ListInv == InitialInv /\ OutgoingInv /\ IncomingInv /\ ServedInv /\ FoundInv

\* The counters: CallbacksCounted in two parts, and which of the two is in use.
Closing(a, i) == op[a] = Half("close", i, FALSE)
Calls(i) == IF i \in open THEN invoking[i] ELSE delay[i]
IssuedInv == \A i \in Idents :
  i \in issued <=> \/ i \in open \/ delay[i] > 0
                  \/ \E a \in Actors : Closing(a, i)
CountInv ==
  /\ \A i \in Idents : Calls(i) = Cardinality(Serving(i))
  /\ IssuedInv
  /\ \A i \in Idents : IF i \in open THEN delay[i] = 0 ELSE invoking[i] = 0
  /\ \A a \in Actors, i \in Idents : Closing(a, i) =>
       i \notin open /\ delay[i] = 0 /\ \A c \in Actors : Closing(c, i) => c = a

\* Accepts under way, and what is said of them: nothing while the ident is in the
\* middle of a close, nor of a socket that got its ident then.
UnderWay(i) ==
  {b \in Blocks : Live(b) /\ block[b].kind = "accept" /\ block[b].ident = i /\ block[b].own
                  /\ ~Served(b)}
Crossed(i) == "crossed" \in marks[i]
InListen(i) == \E a \in Actors : op[a] = Half("listen", i, FALSE)
Counted(i) ==
  /\ accepts[i] = Cardinality(UnderWay(i))
  /\ UnderWay(i) # {} => i \in listeners
  /\ "listens" \in marks[i] => i \in listeners \/ InListen(i)
AcceptsInv ==
  /\ \A i \in open : InClose(i) => Crossed(i)
  /\ \A i \in Idents : i \notin open /\ ~InClose(i) => accepts[i] = 0
  /\ \A i \in open : ~Crossed(i) => Counted(i)
ClockInv == \A b \in Blocks : block[b].kind = "accept" => block[b].clock = "never"

\* The port knows of what is pending.
InHand(i, b) == hand # None /\ hand.key = i /\ hand.block = b /\ hand.fresh
KnownInv ==
  HandleOpen => \A i \in Idents : \A b \in incoming[i] : Knows(port, i, b) \/ InHand(i, b)

\* Without timeouts, what the port knows of is pending, or a block that close()
\* lost.
PendingOrLost(x) ==
  x.block \in Blocks =>
    block[x.block] = Lost \/ (x.key \in Idents /\ x.block \in incoming[x.key])
Heard == Told(port) \cup ({hand} \ {None})
FreshInv ==
  /\ \A b \in Blocks : block[b].clock = "never"
  /\ initAt # "call"
  /\ \A x \in Heard : x.fresh /\ PendingOrLost(x)
  /\ OneItem(port, Blocks)
  /\ hand # None => \A x \in Told(port) : x.block = hand.block => x.block \notin Blocks

SocketInv ==
  /\ SocketTypes /\ ListTypes /\ PortTypes /\ ThreadTypes /\ OffInv
  /\ ListInv /\ CountInv /\ IdentKept /\ ClockInv /\ KnownInv /\ AcceptsInv
  /\ ~Finite => FreshInv

-----------------------------------------------------------------------------
(* Facts about the constants and the states.                               *)

LEMMA Constants ==
  /\ IsFiniteSet(Blocks) /\ None \notin Blocks
  /\ LastIdent \in Nat /\ AcceptPool \in Nat \ {0}
  /\ Initiator \in Callers /\ Initiator \notin Workers /\ Callers \subseteq Actors
  /\ \A x \in Callers : x \notin Users
  /\ IsFiniteSet(Callers)
  /\ None \notin Items(Keys, Overlaps)
  /\ Idents \subseteq Keys /\ 0 \notin Idents
<1>1. IsFiniteSet(Callers)
  BY ThreadsAssumption, FS_AddElement DEF Callers
<1>2. None \notin Items(Keys, Overlaps)
  BY NoneAssumption DEF Items, Keys, Overlaps
<1>3. Idents \subseteq Keys /\ 0 \notin Idents
  BY SizesAssumption DEF Idents, Keys
<1>4. \A x \in Callers : x \notin Users
  BY ActorsAssumption
<1>. QED
  BY <1>1, <1>2, <1>3, <1>4, BlocksAssumption, SizesAssumption, ActorsAssumption DEF Callers, Actors

LEMMA BlockStates ==
  ASSUME ListTypes, NEW b \in Blocks
  PROVE  /\ Live(b) <=> block[b] \in Taken
         /\ ~Live(b) <=> block[b] \in {Free, Lost}
         /\ Live(b) <=> Allocated(b) /\ block[b] # Lost
         /\ Live(b) => block[b].ident \in Idents
         /\ \A i \in Idents : b \in BlocksOf(i) <=> Live(b) /\ block[b].ident = i
<1>1. block[b] \in {Free, Lost} \cup Taken
  BY DEF ListTypes
<1>2. Free.kind = "free" /\ Lost.kind = "lost" /\ Free.ident = 0 /\ Lost.ident = 0 /\ Free # Lost
  BY DEF Free, Lost
<1>3. block[b] \in Taken => block[b].kind \in {"data", "accept"} /\ block[b].ident \in Idents
  BY DEF Taken
<1>. QED
  BY <1>1, <1>2, <1>3, Constants DEF Live, Allocated, BlocksOf

LEMMA ServingCounts ==
  ASSUME NEW i
  PROVE  IsFiniteSet(Serving(i)) /\ Cardinality(Serving(i)) \in Nat
<1>1. Serving(i) \in SUBSET Callers
  BY DEF Serving
<1>. QED
  BY <1>1, Constants, FS_Subset, FS_CardinalityType

LEMMA UnderWayCounts ==
  ASSUME NEW i
  PROVE  IsFiniteSet(UnderWay(i)) /\ Cardinality(UnderWay(i)) \in Nat
<1>1. UnderWay(i) \in SUBSET Blocks
  BY DEF UnderWay
<1>. QED
  BY <1>1, Constants, FS_Subset, FS_CardinalityType

\* A block that is not live is nowhere.
LEMMA Nowhere ==
  ASSUME ListTypes, ThreadTypes, ListInv, NEW b \in Blocks, ~Live(b)
  PROVE  /\ b \notin Elements(initial) /\ b \notin Elements(outgoing)
         /\ \A i \in Idents : b \notin incoming[i]
         /\ ~Served(b)
<1>1. b # None
  BY Constants
<1>. QED
  BY <1>1 DEF ListInv, InitialInv, OutgoingInv, IncomingInv, ServedInv, Listed, Served

LEMMA ListsHoldBlocks ==
  ASSUME ListTypes
  PROVE  Elements(initial) \subseteq Blocks /\ Elements(outgoing) \subseteq Blocks
BY DEF ListTypes, Elements

\* An ident that is out of use is not called back for.
LEMMA UnissuedUnused ==
  ASSUME SocketInv, NEW i \in Idents \ issued
  PROVE  /\ i \notin open /\ delay[i] = 0 /\ invoking[i] = 0 /\ Serving(i) = {}
         /\ \A a \in Actors : ~Closing(a, i)
<1>1. i \notin open /\ ~(delay[i] > 0) /\ \A a \in Actors : ~Closing(a, i)
  BY DEF SocketInv, CountInv, IssuedInv
<1>2. invoking[i] = 0 /\ delay[i] = Cardinality(Serving(i))
  BY <1>1 DEF SocketInv, CountInv, Calls
<1>3. delay[i] = 0
  BY <1>1, <1>2, ServingCounts
<1>. QED
  BY <1>1, <1>2, <1>3, ServingCounts, FS_EmptySet

-----------------------------------------------------------------------------
(* What does not change a variable does not disturb what is said of it.    *)

LEMMA ListFrame ==
  ASSUME ListInv, UNCHANGED <<initial, outgoing, block, open, incoming, serving>>
  PROVE  ListInv' /\ \A b : Served(b)' = Served(b)
BY DEF ListInv, InitialInv, OutgoingInv, IncomingInv, ServedInv, FoundInv, Listed, Live, Served

\* Those who call back call back for the same sockets.
SameServed ==
  /\ serving' = serving
  /\ \A x \in Callers : serving[x] # None =>
       /\ block'[serving[x]].ident = block[serving[x]].ident
       /\ block'[serving[x]].own = block[serving[x]].own

LEMMA CountFrame ==
  ASSUME SocketInv, SameServed, UNCHANGED <<open, invoking, delay, issued, op>>
  PROVE  CountInv' /\ IdentKept'
<1>1. \A i : Serving(i)' = Serving(i)
  BY DEF SameServed, Serving
<1>2. \A i \in Idents : (Calls(i) = Cardinality(Serving(i)))'
  BY <1>1 DEF SocketInv, CountInv, Calls
<1>3. CountInv'
  BY <1>2 DEF SocketInv, CountInv, IssuedInv, Closing
<1>4. IdentKept'
  BY DEF SocketInv, IdentKept, SameServed
<1>. QED
  BY <1>3, <1>4

LEMMA AcceptsKept ==
  ASSUME AcceptsInv, UNCHANGED <<op, open, accepts, listeners, marks>>,
         \A j : UnderWay(j)' = UnderWay(j)
  PROVE  AcceptsInv'
BY DEF AcceptsInv, InClose, Crossed, Counted, InListen

LEMMA AcceptsFrame ==
  ASSUME AcceptsInv, UNCHANGED <<op, open, accepts, listeners, marks, block, serving>>
  PROVE  AcceptsInv'
<1>1. \A j : UnderWay(j)' = UnderWay(j)
  BY DEF UnderWay, Live, Served
<1>. QED
  BY <1>1, AcceptsKept

LEMMA KnownFrame ==
  ASSUME KnownInv, HandleOpen' => HandleOpen, UNCHANGED <<incoming, port, hand>>
  PROVE  KnownInv'
BY DEF KnownInv, Knows, Told, InHand

LEMMA FreshFrame ==
  ASSUME FreshInv, initAt' # "call", UNCHANGED <<block, incoming, port, hand>>
  PROVE  FreshInv'
BY DEF FreshInv, Heard, Told, PendingOrLost, OneItem, Apart, OneItemIn

-----------------------------------------------------------------------------
LEMMA SocketInit == Init => SocketInv
<1>. SUFFICES ASSUME Init PROVE SocketInv
  OBVIOUS
<1>1. /\ \A b \in Blocks : ~Live(b)
      /\ Elements(initial) = {} /\ Elements(outgoing) = {}
      /\ \A i \in Idents : incoming[i] = {}
      /\ \A x \in Callers : serving[x] = None
      /\ \A a \in Actors : op[a] = NoOp
      /\ open = {} /\ issued = {} /\ hand = None
  BY DEF Init, Live, Free, Elements
<1>2. SocketTypes /\ ListTypes
  BY DEF Init, SocketTypes, ListTypes
<1>3. PortTypes
  BY EmptyPort DEF Init, PortTypes
<1>4. ThreadTypes /\ OffInv
  <2>1. ThreadTypes
    BY DEF Init, ThreadTypes
  <2>2. \A x \in Callers : ~InCallback(x)
    BY DEF Init, InCallback, Callers
  <2>3. \A u \in Users : op[u] = NoOp
    BY <1>1 DEF Actors
  <2>4. \A x \in Callers : serving[x] = None /\ op[x] = NoOp
    BY <1>1 DEF Actors
  <2>5. initAt = "ask" /\ offAt = "up" /\ portOn
    BY DEF Init
  <2>. QED
    BY <2>1, <2>2, <2>3, <2>4, <2>5 DEF OffInv
<1>5. ListInv
  BY <1>1 DEF Init, ListInv, InitialInv, OutgoingInv, IncomingInv, ServedInv, FoundInv, OnceEach
<1>6. CountInv /\ IdentKept
  <2>1. \A i : Serving(i) = {}
    BY <1>1 DEF Serving
  <2>2. \A i : Cardinality(Serving(i)) = 0
    BY <2>1, FS_EmptySet
  <2>3. \A a \in Actors, i \in Idents : ~Closing(a, i)
    BY <1>1 DEF Closing, Half, NoOp
  <2>4. \A i \in Idents : delay[i] = 0 /\ invoking[i] = 0
    BY DEF Init
  <2>5. IssuedInv /\ \A i \in Idents : Calls(i) = Cardinality(Serving(i))
    BY <1>1, <2>2, <2>3, <2>4 DEF IssuedInv, Calls
  <2>. QED
    BY <1>1, <2>3, <2>4, <2>5 DEF CountInv, IdentKept
<1>7. ClockInv /\ KnownInv
  BY <1>1 DEF Init, ClockInv, KnownInv, Free
<1>8. AcceptsInv
  BY <1>1 DEF Init, AcceptsInv, InClose, NoOp
<1>9. FreshInv
  <2>1. Told(port) = {} /\ OneItem(port, Blocks)
    BY EmptyPort DEF Init
  <2>. QED
    BY <1>1, <2>1 DEF Init, FreshInv, Heard, Free
<1>. QED
  BY <1>2, <1>3, <1>4, <1>5, <1>6, <1>7, <1>8, <1>9 DEF SocketInv

-----------------------------------------------------------------------------
(* Steps that move a thread, and nothing else.                             *)

LEMMA QuietStep ==
  ASSUME SocketInv, UNCHANGED <<socketVars, listVars, portVars, serving, op>>,
         ThreadTypes', OffInv', HandleOpen' => HandleOpen, initAt' = "call" => initAt = "call"
  PROVE  SocketInv'
<1>1. UNCHANGED <<issued, open, invoking, incoming, delay, listeners, accepts, marks,
                  initial, outgoing, block, port, hand, portOn>>
  BY DEF socketVars, listVars, portVars
<1>2. SocketTypes' /\ ListTypes' /\ PortTypes'
  BY <1>1 DEF SocketInv, SocketTypes, ListTypes, PortTypes
<1>3. ListInv'
  BY <1>1, ListFrame DEF SocketInv
<1>4. CountInv' /\ IdentKept'
  BY <1>1, CountFrame DEF SameServed
<1>5. ClockInv' /\ KnownInv'
  BY <1>1, KnownFrame DEF SocketInv, ClockInv
<1>6. AcceptsInv'
  BY <1>1, AcceptsFrame DEF SocketInv
<1>7. ~Finite => FreshInv'
  BY <1>1, FreshFrame DEF SocketInv, FreshInv
<1>. QED
  BY <1>2, <1>3, <1>4, <1>5, <1>6, <1>7 DEF SocketInv

LEMMA InitiatorMoves ==
  ASSUME SocketInv, UNCHANGED <<socketVars, listVars, portVars, at, serving, op, offAt>>,
         initAt \notin {"call", "ended"}, initAt' \in {"ask", "do", "accepts", "timeouts", "ended"}
  PROVE  SocketInv'
<1>1. ThreadTypes'
  BY DEF SocketInv, ThreadTypes
<1>2. \A x \in Callers : InCallback(x)' = InCallback(x)
  BY DEF InCallback
<1>3. OffInv'
  BY <1>2 DEF SocketInv, OffInv, portVars
<1>. QED
  BY <1>1, <1>3, QuietStep DEF HandleOpen

LEMMA InitiatorSteps ==
  ASSUME SocketInv, InitAsk \/ NothingToStart \/ NoAcceptToPost \/ NothingTimesOut
  PROVE  SocketInv'
<1>1. /\ UNCHANGED <<socketVars, listVars, portVars, at, serving, op, offAt>>
      /\ initAt \notin {"call", "ended"} /\ initAt' \in {"ask", "do", "accepts", "timeouts", "ended"}
  BY DEF InitAsk, NothingToStart, NoAcceptToPost, NothingTimesOut
<1>. QED
  BY <1>1, InitiatorMoves

LEMMA WorkerAskStep ==
  ASSUME SocketInv, NEW w \in Workers, WorkerAsk(w)
  PROVE  SocketInv'
<1>1. /\ UNCHANGED <<socketVars, listVars, portVars, initAt, serving, op, offAt>>
      /\ at[w] = "idle" /\ at' = [at EXCEPT ![w] = "do"]
  BY DEF WorkerAsk
<1>2. ThreadTypes'
  BY <1>1 DEF SocketInv, ThreadTypes
<1>3. \A x \in Callers : InCallback(x)' = InCallback(x)
  BY <1>1 DEF SocketInv, ThreadTypes, InCallback, Callers
<1>4. OffInv'
  BY <1>1, <1>3 DEF SocketInv, OffInv, portVars
<1>. QED
  BY <1>1, <1>2, <1>4, QuietStep DEF HandleOpen

LEMMA OffStartStep ==
  ASSUME SocketInv, OffStart
  PROVE  SocketInv'
<1>1. /\ UNCHANGED <<socketVars, listVars, portVars, initAt, at, serving, op>>
      /\ offAt = "up" /\ offAt' = "stopInit" /\ \A u \in Users : op[u] = NoOp
  BY DEF OffStart, threadVars
<1>2. ThreadTypes'
  BY <1>1 DEF SocketInv, ThreadTypes
<1>3. \A x \in Callers : InCallback(x)' = InCallback(x)
  BY <1>1 DEF InCallback
<1>4. OffInv'
  BY <1>1, <1>3 DEF SocketInv, OffInv, portVars
<1>. QED
  BY <1>1, <1>2, <1>4, QuietStep DEF HandleOpen

-----------------------------------------------------------------------------
(* Calls that leave the blocks alone.                                      *)

LEMMA CallerMay ==
  ASSUME SocketInv, NEW a \in Actors, CanCall(a) \/ op[a] # NoOp
  PROVE  /\ a \in Callers => InCallback(a)
         /\ a \in Users => offAt = "up"
<1>1. a \in Callers => a \notin Users
  BY Constants
<1>. QED
  BY <1>1 DEF CanCall, SocketInv, OffInv, Actors

\* The half-done call of an actor begins or ends.
LEMMA OpChanges ==
  ASSUME SocketInv, NEW a \in Actors, CanCall(a) \/ op[a] # NoOp, NEW o \in {NoOp} \cup HalfDone,
         op' = [op EXCEPT ![a] = o],
         UNCHANGED <<initAt, at, serving, offAt, portOn>>, hand = None => hand' = None
  PROVE  ThreadTypes' /\ OffInv'
<1>1. ThreadTypes'
  BY DEF SocketInv, ThreadTypes
<1>2. \A x \in Callers : InCallback(x)' = InCallback(x)
  BY DEF InCallback
<1>3. /\ \A x \in Callers : op'[x] # NoOp => InCallback(x)
      /\ offAt # "up" => \A u \in Users : op'[u] = NoOp
  BY CallerMay DEF SocketInv, OffInv, ThreadTypes, Actors
<1>4. OffInv'
  BY <1>2, <1>3 DEF SocketInv, OffInv
<1>. QED
  BY <1>1, <1>4

\* A socket that is not open has no operation that waits.
LEMMA ClosedIdle ==
  ASSUME SocketInv, NEW i \in Idents \ open
  PROVE  UnderWay(i) = {}
<1>. SUFFICES ASSUME NEW b \in Blocks, Live(b), block[b].ident = i, ~Served(b)
              PROVE  FALSE
  BY DEF UnderWay
<1>1. b \in Elements(initial) \/ b \in Elements(outgoing) \/ b \in incoming[i]
  BY DEF SocketInv, ListInv, FoundInv
<1>. QED
  BY <1>1 DEF SocketInv, ListInv, InitialInv, OutgoingInv, IncomingInv, Listed

\* A new socket is marked, or nothing is left of the one before.
LEMMA AssignMarks ==
  ASSUME SocketInv, NEW i \in Idents, Assign(i)
  PROVE  /\ marks' \in [Idents -> SUBSET Marks]
         /\ marks'[i] = IF InClose(i) THEN {"crossed"} ELSE {}
         /\ \A j \in Idents \ {i} : marks'[j] = marks[j]
<1>. PICK m : m = IF InClose(i) THEN {"crossed"} ELSE {}
  OBVIOUS
<1>1. m \in SUBSET Marks /\ marks' = [marks EXCEPT ![i] = m]
  BY DEF Marks, Assign
<1>2. marks \in [Idents -> SUBSET Marks]
  BY DEF SocketInv, SocketTypes
<1>. QED
  BY <1>1, <1>2

LEMMA NewSocketCounted ==
  ASSUME SocketInv, NEW i \in Idents \ issued, Assign(i), op' = op,
         accepts'[i] = accepts[i], UnderWay(i)' = UnderWay(i)
  PROVE  (InClose(i) => Crossed(i)') /\ (~InClose(i) => Counted(i)')
<1>1. marks'[i] = IF InClose(i) THEN {"crossed"} ELSE {}
  BY AssignMarks
<1>2. i \notin open
  BY UnissuedUnused
<1>3. UnderWay(i) = {} /\ Cardinality(UnderWay(i)) = 0
  BY <1>2, ClosedIdle, FS_EmptySet
<1>4. ~InClose(i) => accepts[i] = 0
  BY <1>2 DEF SocketInv, AcceptsInv
<1>. QED
  BY <1>1, <1>3, <1>4 DEF Crossed, Counted

LEMMA CreateStep ==
  ASSUME SocketInv, NEW a \in Actors, Create(a)
  PROVE  SocketInv'
<1>. PICK i \in Idents \ issued : Assign(i)
  BY DEF Create
<1>1. /\ issued' = issued \cup {i} /\ open' = open \cup {i} /\ port' = Associate(port, i)
      /\ UNCHANGED <<invoking, incoming, delay, listeners, accepts, initial, outgoing, block, hand,
                     portOn, initAt, at, serving, op, offAt>>
      /\ marks' \in [Idents -> SUBSET Marks] /\ \A j \in Idents \ {i} : marks'[j] = marks[j]
  BY AssignMarks DEF Create, Assign, listVars, threadVars
<1>2. /\ i \notin open /\ delay[i] = 0 /\ invoking[i] = 0 /\ Serving(i) = {}
      /\ \A c \in Actors : ~Closing(c, i)
  BY UnissuedUnused
<1>3. /\ port' \in Ports(Keys, Overlaps) /\ Told(port') = Told(port)
      /\ OneItem(port, Blocks) => OneItem(port', Blocks)
  BY <1>1, PortAssociates, Constants DEF SocketInv, PortTypes
<1>4. SocketTypes' /\ ListTypes' /\ PortTypes' /\ ThreadTypes'
  BY <1>1, <1>3 DEF SocketInv, SocketTypes, ListTypes, PortTypes, ThreadTypes
<1>5. OffInv'
  BY <1>1 DEF SocketInv, OffInv, InCallback
<1>6. ListInv'
  BY <1>1 DEF SocketInv, ListInv, InitialInv, OutgoingInv, IncomingInv, ServedInv, FoundInv, Listed,
              Live, Served
<1>7. CountInv'
  <2>1. \A j : Serving(j)' = Serving(j)
    BY <1>1 DEF Serving
  <2>2. \A j \in Idents : Calls(j)' = Cardinality(Serving(j))
    BY <1>1, <1>2, FS_EmptySet DEF SocketInv, CountInv, Calls
  <2>3. IssuedInv'
    BY <1>1 DEF SocketInv, CountInv, IssuedInv, Closing
  <2>4. \A j \in Idents : IF j \in open' THEN delay'[j] = 0 ELSE invoking'[j] = 0
    BY <1>1, <1>2 DEF SocketInv, CountInv
  <2>5. \A c \in Actors, j \in Idents : Closing(c, j)' =>
          j \notin open' /\ delay'[j] = 0 /\ \A d \in Actors : Closing(d, j)' => d = c
    BY <1>1, <1>2 DEF SocketInv, CountInv, Closing
  <2>. QED
    BY <2>1, <2>2, <2>3, <2>4, <2>5 DEF CountInv
<1>8. IdentKept'
  <2>1. \A x \in Callers : serving[x] # None => block[serving[x]].ident # i
    BY <1>2 DEF Serving
  <2>. QED
    BY <1>1, <2>1 DEF SocketInv, IdentKept
<1>9. ClockInv' /\ KnownInv'
  BY <1>1, <1>3 DEF SocketInv, ClockInv, KnownInv, HandleOpen, Knows, InHand
<1>10. AcceptsInv'
  <2>1. \A j : UnderWay(j)' = UnderWay(j)
    BY <1>1 DEF UnderWay, Live, Served
  <2>2. \A j : (InClose(j)' <=> InClose(j)) /\ (InListen(j)' <=> InListen(j))
    BY <1>1 DEF InClose, InListen
  <2>3. (InClose(i) => Crossed(i)') /\ (~InClose(i) => Counted(i)')
    BY <1>1, <2>1, NewSocketCounted
  <2>4. \A j \in open : j \in Idents /\ j # i
    BY <1>2 DEF SocketInv, SocketTypes
  <2>5. \A j \in open : (Crossed(j)' <=> Crossed(j)) /\ (Counted(j) => Counted(j)')
    BY <1>1, <2>1, <2>2, <2>4 DEF Crossed, Counted
  <2>. QED
    BY <1>1, <2>2, <2>3, <2>4, <2>5 DEF SocketInv, AcceptsInv
<1>11. ~Finite => FreshInv'
  BY <1>1, <1>3 DEF SocketInv, FreshInv, Heard, PendingOrLost
<1>. QED
  BY <1>4, <1>5, <1>6, <1>7, <1>8, <1>9, <1>10, <1>11 DEF SocketInv

LEMMA ListenStep ==
  ASSUME SocketInv, NEW a \in Actors, NEW i \in Idents, Listen(a, i)
  PROVE  SocketInv'
<1>1. /\ CanCall(a) /\ op' = [op EXCEPT ![a] = Half("listen", i, FALSE)] /\ i \in open
      /\ marks' = [marks EXCEPT ![i] = @ \cup {"listens"}]
      /\ UNCHANGED <<issued, open, invoking, incoming, delay, listeners, accepts, initial, outgoing,
                     block, port, hand, portOn, initAt, at, serving, offAt>>
  BY Zenon DEF Listen, listVars, portVars, threadVars
<1>2. Half("listen", i, FALSE) \in {NoOp} \cup HalfDone
  BY DEF Half, HalfDone
<1>3. ThreadTypes' /\ OffInv'
  BY <1>1, <1>2, OpChanges, Zenon
<1>4. op[a] = NoOp
  BY <1>1 DEF CanCall
<1>5. \A c \in Actors, j \in Idents : Closing(c, j)' <=> Closing(c, j)
  <2>. SUFFICES ASSUME NEW c \in Actors, NEW j \in Idents PROVE Closing(c, j)' <=> Closing(c, j)
    OBVIOUS
  <2>1. ~Closing(a, j)' /\ ~Closing(a, j)
    <3>1. op'[a].name # "close" /\ op[a].name # "close"
      BY <1>1, <1>4 DEF SocketInv, ThreadTypes, Half, NoOp
    <3>. QED
      BY <3>1 DEF Closing, Half
  <2>2. c # a => op'[c] = op[c]
    BY <1>1 DEF SocketInv, ThreadTypes
  <2>. QED
    BY <2>1, <2>2 DEF Closing
<1>6. \A j \in Idents : InClose(j)' <=> InClose(j)
  BY <1>1, <1>4 DEF SocketInv, ThreadTypes, InClose, Half, NoOp
<1>7. SocketTypes' /\ ListTypes' /\ PortTypes'
  <2>1. marks' \in [Idents -> SUBSET Marks]
    BY <1>1 DEF SocketInv, SocketTypes, Marks
  <2>. QED
    BY <1>1, <2>1 DEF SocketInv, SocketTypes, ListTypes, PortTypes
<1>8. ListInv'
  BY <1>1, ListFrame DEF SocketInv
<1>9. CountInv' /\ IdentKept'
  BY <1>1, <1>5 DEF SocketInv, CountInv, IssuedInv, Calls, Serving, IdentKept
<1>10. ClockInv' /\ KnownInv'
  BY <1>1, KnownFrame DEF SocketInv, ClockInv, HandleOpen
<1>11. AcceptsInv'
  <2>1. \A j : UnderWay(j)' = UnderWay(j)
    BY <1>1 DEF UnderWay, Live, Served
  <2>2. \A j \in Idents : marks'[j] = IF j = i THEN marks[i] \cup {"listens"} ELSE marks[j]
    BY <1>1 DEF SocketInv, SocketTypes
  <2>3. \A j \in Idents : Crossed(j)' <=> Crossed(j)
    BY <2>2 DEF Crossed
  <2>4. \A j \in Idents : InListen(j) => InListen(j)'
    <3>1. \A j \in Idents : op[a] # Half("listen", j, FALSE)
      BY <1>4 DEF Half, NoOp
    <3>2. \A c \in Actors : c # a => op'[c] = op[c]
      BY <1>1 DEF SocketInv, ThreadTypes
    <3>. QED
      BY <3>1, <3>2 DEF InListen
  <2>5. InListen(i)'
    BY <1>1 DEF SocketInv, ThreadTypes, InListen
  <2>6. \A j \in Idents : Counted(j) => Counted(j)'
    BY <1>1, <2>1, <2>2, <2>4, <2>5 DEF Counted
  <2>7. open \subseteq Idents
    BY DEF SocketInv, SocketTypes
  <2>. QED
    BY <1>1, <1>6, <2>3, <2>6, <2>7 DEF SocketInv, AcceptsInv
<1>12. ~Finite => FreshInv'
  BY <1>1, FreshFrame DEF SocketInv, FreshInv
<1>. QED
  BY <1>3, <1>7, <1>8, <1>9, <1>10, <1>11, <1>12 DEF SocketInv

LEMMA ListenEndStep ==
  ASSUME SocketInv, NEW a \in Actors, ListenEnd(a)
  PROVE  SocketInv'
<1>. DEFINE i == op[a].ident
<1>1. /\ op[a].name = "listen" /\ op' = [op EXCEPT ![a] = NoOp] /\ listeners' = listeners \cup {i}
      /\ UNCHANGED <<issued, open, invoking, incoming, delay, accepts, marks, initial, outgoing, block,
                     port, hand, portOn, initAt, at, serving, offAt>>
  BY DEF ListenEnd, listVars, portVars, threadVars
<1>2. op[a] # NoOp /\ op[a] \in HalfDone /\ i \in Idents
  BY <1>1 DEF SocketInv, ThreadTypes, NoOp, HalfDone
<1>3. ThreadTypes' /\ OffInv'
  BY <1>1, <1>2, OpChanges, Zenon
<1>5. \A c \in Actors, j \in Idents : Closing(c, j)' <=> Closing(c, j)
  <2>. SUFFICES ASSUME NEW c \in Actors, NEW j \in Idents PROVE Closing(c, j)' <=> Closing(c, j)
    OBVIOUS
  <2>1. ~Closing(a, j)' /\ ~Closing(a, j)
    <3>1. op'[a].name # "close" /\ op[a].name # "close"
      BY <1>1, <1>2 DEF SocketInv, ThreadTypes, Half, NoOp
    <3>. QED
      BY <3>1 DEF Closing, Half
  <2>2. c # a => op'[c] = op[c]
    BY <1>1 DEF SocketInv, ThreadTypes
  <2>. QED
    BY <2>1, <2>2 DEF Closing
<1>6. \A j \in Idents : InClose(j)' <=> InClose(j)
  BY <1>1 DEF SocketInv, ThreadTypes, InClose, NoOp
<1>7. SocketTypes' /\ ListTypes' /\ PortTypes'
  BY <1>1, <1>2 DEF SocketInv, SocketTypes, ListTypes, PortTypes
<1>8. ListInv'
  BY <1>1, ListFrame DEF SocketInv
<1>9. CountInv' /\ IdentKept'
  BY <1>1, <1>5 DEF SocketInv, CountInv, IssuedInv, Calls, Serving, IdentKept
<1>10. ClockInv' /\ KnownInv'
  BY <1>1, KnownFrame DEF SocketInv, ClockInv, HandleOpen
<1>11. AcceptsInv'
  <2>1. \A j : UnderWay(j)' = UnderWay(j)
    BY <1>1 DEF UnderWay, Live, Served
  <2>2. \A j \in Idents : InListen(j) => InListen(j)' \/ j = i
    <3>1. \A j \in Idents : op[a] = Half("listen", j, FALSE) => j = i
      BY DEF Half
    <3>2. \A c \in Actors : c # a => op'[c] = op[c]
      BY <1>1 DEF SocketInv, ThreadTypes
    <3>. QED
      BY <3>1, <3>2 DEF InListen
  <2>3. \A j \in Idents : Counted(j) => Counted(j)'
    BY <1>1, <2>1, <2>2 DEF Counted
  <2>4. open \subseteq Idents /\ \A j \in Idents : Crossed(j)' <=> Crossed(j)
    BY <1>1 DEF SocketInv, SocketTypes, Crossed
  <2>. QED
    BY <1>1, <1>6, <2>3, <2>4 DEF SocketInv, AcceptsInv
<1>12. ~Finite => FreshInv'
  BY <1>1, FreshFrame DEF SocketInv, FreshInv
<1>. QED
  BY <1>3, <1>7, <1>8, <1>9, <1>10, <1>11, <1>12 DEF SocketInv

LEMMA CloseEndStep ==
  ASSUME SocketInv, NEW a \in Actors, CloseEnd(a)
  PROVE  SocketInv'
<1>. DEFINE i == op[a].ident
<1>1. /\ op[a].name = "close" /\ op' = [op EXCEPT ![a] = NoOp]
      /\ listeners' = listeners \ {i} /\ accepts' = [accepts EXCEPT ![i] = 0]
      /\ issued' = IF op[a].delayed THEN issued ELSE issued \ {i}
      /\ UNCHANGED <<open, invoking, incoming, delay, marks, initial, outgoing, block, port,
                     hand, portOn, initAt, at, serving, offAt>>
  BY DEF CloseEnd, listVars, portVars, threadVars
<1>2. op[a] # NoOp /\ op[a] \in HalfDone /\ i \in Idents
  BY <1>1 DEF SocketInv, ThreadTypes, NoOp, HalfDone
<1>3. ThreadTypes' /\ OffInv'
  BY <1>1, <1>2, OpChanges, Zenon
<1>4. op[a].delayed \/ Closing(a, i)
  BY <1>1, <1>2 DEF HalfDone, Closing, Half
<1>5. \A c \in Actors, j \in Idents : Closing(c, j)' <=> Closing(c, j) /\ c # a
  BY <1>1 DEF SocketInv, ThreadTypes, Closing, Half, NoOp
<1>6. \A j \in Idents : InClose(j)' => InClose(j)
  BY <1>1 DEF SocketInv, ThreadTypes, InClose, NoOp
<1>7. SocketTypes' /\ ListTypes' /\ PortTypes'
  BY <1>1, <1>2 DEF SocketInv, SocketTypes, ListTypes, PortTypes
<1>8. ListInv'
  BY <1>1, ListFrame DEF SocketInv
<1>9. CountInv' /\ IdentKept'
  <2>1. \A j \in Idents : Calls(j)' = Calls(j) /\ Serving(j)' = Serving(j)
    BY <1>1 DEF Calls, Serving
  <2>2. \A j \in Idents : j # i => ~Closing(a, j)
    BY DEF Closing, Half
  <2>3. IssuedInv'
    <3>1. CASE op[a].delayed
      <4>1. ~Closing(a, i)
        BY <3>1 DEF Closing, Half
      <4>. QED
        BY <1>1, <1>5, <2>2, <3>1, <4>1 DEF SocketInv, CountInv, IssuedInv
    <3>2. CASE ~op[a].delayed
      <4>1. i \notin open /\ delay[i] = 0 /\ \A c \in Actors : Closing(c, i) => c = a
        BY <1>2, <1>4, <3>2 DEF SocketInv, CountInv
      <4>. QED
        BY <1>1, <1>5, <2>2, <3>2, <4>1 DEF SocketInv, CountInv, IssuedInv
    <3>. QED
      BY <3>1, <3>2
  <2>. QED
    BY <1>1, <1>5, <2>1, <2>3 DEF SocketInv, CountInv, IdentKept
<1>10. ClockInv' /\ KnownInv'
  BY <1>1, KnownFrame DEF SocketInv, ClockInv, HandleOpen
<1>11. AcceptsInv'
  <2>1. \A j : UnderWay(j)' = UnderWay(j)
    BY <1>1 DEF UnderWay, Live, Served
  <2>2. AcceptsInv /\ InClose(i) /\ open \subseteq Idents /\ accepts \in [Idents -> Int]
    BY <1>1, <1>2 DEF SocketInv, SocketTypes, InClose
  <2>3. \A j \in Idents : j # i /\ InClose(j) => InClose(j)'
    BY <1>1 DEF SocketInv, ThreadTypes, InClose
  <2>4. \A j \in Idents : InListen(j) => InListen(j)'
    <3>1. \A j : op[a] # Half("listen", j, FALSE)
      BY <1>1 DEF Half
    <3>2. \A c \in Actors : c # a => op'[c] = op[c]
      BY <1>1 DEF SocketInv, ThreadTypes
    <3>. QED
      BY <3>1, <3>2 DEF InListen
  <2>5. \A j \in Idents : j # i /\ Counted(j) => Counted(j)'
    BY <1>1, <2>1, <2>2, <2>4 DEF Counted
  <2>6. \A j \in open : Crossed(j)' <=> Crossed(j)
    BY <1>1 DEF Crossed
  <2>7. i \in open => Crossed(i)
    BY <2>2 DEF AcceptsInv
  <2>8. \A j \in open : ~Crossed(j) => Counted(j)'
    BY <2>2, <2>5, <2>7 DEF AcceptsInv
  <2>9. \A j \in Idents : j \notin open /\ ~InClose(j)' => accepts'[j] = 0
    BY <1>1, <1>2, <2>2, <2>3 DEF AcceptsInv
  <2>. QED
    BY <1>1, <1>6, <2>2, <2>6, <2>8, <2>9 DEF AcceptsInv
<1>12. ~Finite => FreshInv'
  BY <1>1, FreshFrame DEF SocketInv, FreshInv
<1>. QED
  BY <1>3, <1>7, <1>8, <1>9, <1>10, <1>11, <1>12 DEF SocketInv

-----------------------------------------------------------------------------
(* A new block joins the initial list.                                     *)

Joins(b, k, i, c) ==
  /\ b \in FreeBlocks /\ i \in open
  /\ k \in {"data", "accept"} /\ c \in {"never", "before"}
  /\ k = "accept" \/ ~Finite => c = "never"
  /\ block' = [block EXCEPT ![b] = Operation(k, i, c)]
  /\ initial' = Append(initial, b)
  /\ UNCHANGED <<issued, open, invoking, incoming, delay, outgoing, port, hand, portOn, serving, op,
                 offAt>>

LEMMA NewBlock ==
  ASSUME SocketInv, NEW b, NEW k, NEW i, NEW c, Joins(b, k, i, c)
  PROVE  /\ ListTypes' /\ ListInv' /\ CountInv' /\ IdentKept' /\ ClockInv' /\ KnownInv'
         /\ ~Finite /\ initAt' # "call" => FreshInv'
         /\ \A j : UnderWay(j)' = IF k = "accept" /\ j = i THEN UnderWay(j) \cup {b} ELSE UnderWay(j)
         /\ \A j : b \notin UnderWay(j)
<1>. USE DEF Joins
<1>1. b \in Blocks /\ block[b] = Free /\ ~Live(b) /\ i \in Idents
  BY DEF FreeBlocks, Allocated, Live, Free, SocketInv, SocketTypes
<1>2. /\ b \notin Elements(initial) /\ b \notin Elements(outgoing) /\ ~Served(b)
      /\ \A j \in Idents : b \notin incoming[j]
  BY <1>1, Nowhere DEF SocketInv
<1>3. /\ Operation(k, i, c) \in Taken /\ Operation(k, i, c).kind = k
      /\ Operation(k, i, c).ident = i /\ Operation(k, i, c).own /\ Operation(k, i, c).clock = c
  BY <1>1 DEF Operation, Taken
<1>4. /\ \A d \in Blocks : block'[d] = IF d = b THEN Operation(k, i, c) ELSE block[d]
      /\ block' \in [Blocks -> {Free, Lost} \cup Taken]
  BY <1>1, <1>3 DEF SocketInv, ListTypes
<1>5. /\ initial' \in Seq(Blocks) /\ Elements(initial') = Elements(initial) \cup {b}
      /\ OnceEach(initial')
  BY <1>1, <1>2, ListGrows DEF SocketInv, ListTypes, ListInv, InitialInv
<1>6. ListTypes'
  BY <1>4, <1>5 DEF SocketInv, ListTypes
<1>7. /\ \A d : Served(d)' = Served(d)
      /\ \A d \in Blocks : Live(d)' <=> Live(d) \/ d = b
  BY <1>1, <1>3, <1>4 DEF Served, Live
<1>8. /\ Listed(b)'
      /\ \A d \in Blocks : Listed(d) => Listed(d)'
  BY <1>1, <1>2, <1>3, <1>4, <1>7 DEF Listed
<1>9. ListInv'
  <2>1. InitialInv'
    BY <1>2, <1>5, <1>8, ListsHoldBlocks DEF SocketInv, ListInv, InitialInv
  <2>2. OutgoingInv' /\ IncomingInv'
    BY <1>2, <1>4, <1>8, ListsHoldBlocks DEF SocketInv, SocketTypes, ListInv, OutgoingInv, IncomingInv
  <2>3. ServedInv'
    BY <1>7 DEF SocketInv, ThreadTypes, ListInv, ServedInv
  <2>4. FoundInv'
    BY <1>4, <1>5, <1>7 DEF SocketInv, ListInv, FoundInv
  <2>. QED
    BY <2>1, <2>2, <2>3, <2>4 DEF ListInv
<1>10. SameServed
  BY <1>2, <1>4 DEF SameServed, Served, SocketInv, ThreadTypes
<1>11. CountInv' /\ IdentKept'
  BY <1>10, CountFrame
<1>12. ClockInv' /\ KnownInv'
  BY <1>3, <1>4, KnownFrame DEF SocketInv, ClockInv, HandleOpen
<1>13. ASSUME ~Finite, initAt' # "call" PROVE FreshInv'
  <2>1. \A x \in Heard : PendingOrLost(x)'
    BY <1>1, <1>2, <1>4, <1>13 DEF SocketInv, FreshInv, PendingOrLost, Free, Lost
  <2>2. Heard' = Heard
    BY DEF Heard, Told
  <2>. QED
    BY <1>3, <1>4, <1>13, <2>1, <2>2 DEF SocketInv, FreshInv, OneItem, Apart, OneItemIn, Told
<1>14. \A j : UnderWay(j)' = IF k = "accept" /\ j = i THEN UnderWay(j) \cup {b} ELSE UnderWay(j)
  BY <1>1, <1>2, <1>3, <1>4, <1>7 DEF UnderWay
<1>15. \A j : b \notin UnderWay(j)
  BY <1>1 DEF UnderWay
<1>. QED
  BY <1>6, <1>9, <1>11, <1>12, <1>13, <1>14, <1>15

LEMMA RequestStep ==
  ASSUME SocketInv, NEW a \in Actors, NEW i \in Idents, Request(a, i)
  PROVE  SocketInv'
<1>. PICK b \in FreeBlocks, c \in IF Finite THEN {"never", "before"} ELSE {"never"} :
            block' = [block EXCEPT ![b] = Operation("data", i, c)] /\ initial' = Append(initial, b)
  BY DEF Request
<1>1. /\ i \in open
      /\ UNCHANGED <<issued, open, invoking, incoming, delay, listeners, accepts, marks, outgoing, port,
                     hand, portOn, initAt, at, serving, op, offAt>>
  BY DEF Request, socketVars, portVars, threadVars
<1>2. Joins(b, "data", i, c)
  BY <1>1 DEF Joins
<1>3. /\ ListTypes' /\ ListInv' /\ CountInv' /\ IdentKept' /\ ClockInv' /\ KnownInv'
      /\ ~Finite /\ initAt' # "call" => FreshInv'
      /\ \A j : UnderWay(j)' = UnderWay(j)
  BY <1>2, NewBlock
<1>4. SocketTypes' /\ PortTypes' /\ ThreadTypes'
  BY <1>1 DEF SocketInv, SocketTypes, PortTypes, ThreadTypes
<1>5. OffInv'
  BY <1>1 DEF SocketInv, OffInv, InCallback
<1>6. AcceptsInv'
  BY <1>1, <1>3, AcceptsKept DEF SocketInv
<1>7. ~Finite => FreshInv'
  BY <1>1, <1>3 DEF SocketInv, FreshInv
<1>. QED
  BY <1>3, <1>4, <1>5, <1>6, <1>7 DEF SocketInv

LEMMA PostAcceptStep ==
  ASSUME SocketInv, NEW i \in Idents, PostAccept(i)
  PROVE  SocketInv'
<1>. PICK b \in FreeBlocks :
            block' = [block EXCEPT ![b] = Operation("accept", i, "never")]
            /\ initial' = Append(initial, b)
  BY DEF PostAccept
<1>1. /\ i \in open /\ i \in listeners /\ initAt = "accepts" /\ initAt' = "ask"
      /\ accepts' = [accepts EXCEPT ![i] = @ + 1]
      /\ UNCHANGED <<issued, open, invoking, incoming, delay, listeners, marks, outgoing, port, hand,
                     portOn, at, serving, op, offAt>>
  BY DEF PostAccept, HasRoom, portVars
<1>2. Joins(b, "accept", i, "never")
  BY <1>1 DEF Joins
<1>3. /\ ListTypes' /\ ListInv' /\ CountInv' /\ IdentKept' /\ ClockInv' /\ KnownInv'
      /\ ~Finite /\ initAt' # "call" => FreshInv'
      /\ \A j : UnderWay(j)' = IF j = i THEN UnderWay(j) \cup {b} ELSE UnderWay(j)
      /\ \A j : b \notin UnderWay(j)
  BY <1>2, NewBlock
<1>4. SocketTypes' /\ PortTypes' /\ ThreadTypes'
  BY <1>1 DEF SocketInv, SocketTypes, PortTypes, ThreadTypes
<1>5. OffInv'
  BY <1>1 DEF SocketInv, OffInv, InCallback
<1>6. AcceptsInv'
  <2>1. Cardinality(UnderWay(i) \cup {b}) = Cardinality(UnderWay(i)) + 1
    BY <1>3, UnderWayCounts, FS_AddElement
  <2>2. accepts \in [Idents -> Int] /\ open \subseteq Idents
    BY DEF SocketInv, SocketTypes
  <2>3. \A j : /\ InClose(j)' <=> InClose(j)
               /\ InListen(j)' <=> InListen(j)
               /\ Crossed(j)' <=> Crossed(j)
    BY <1>1 DEF InClose, InListen, Crossed
  <2>4. Counted(i) => Counted(i)'
    BY <1>1, <1>3, <2>1, <2>2, <2>3 DEF Counted
  <2>5. \A j \in Idents : j # i /\ Counted(j) => Counted(j)'
    BY <1>1, <1>3, <2>2, <2>3 DEF Counted
  <2>. QED
    BY <1>1, <2>2, <2>3, <2>4, <2>5 DEF SocketInv, AcceptsInv
<1>7. ~Finite => FreshInv'
  BY <1>1, <1>3
<1>. QED
  BY <1>3, <1>4, <1>5, <1>6, <1>7 DEF SocketInv

-----------------------------------------------------------------------------
(* A block moves from list to list.                                        *)

LEMMA EndedBlock ==
  ASSUME NEW x \in Taken, NEW e \in BOOLEAN
  PROVE  /\ Ended(x, e) \in Taken
         /\ Ended(x, e).kind = x.kind /\ Ended(x, e).ident = x.ident /\ Ended(x, e).own = x.own
         /\ Ended(x, e).clock = "never"
BY DEF Ended, Taken

\* b stays what it was but for its clock and its error.
Changes(b) ==
  /\ b \in Blocks
  /\ block' \in [Blocks -> {Free, Lost} \cup Taken]
  /\ \A d \in Blocks : d # b => block'[d] = block[d]
  /\ Live(b) /\ block'[b].kind = block[b].kind /\ block'[b].ident = block[b].ident
  /\ block'[b].own = block[b].own
  /\ ~Finite => block'[b].clock = "never"
  /\ block'[b].kind = "accept" => block'[b].clock = "never"

LEMMA ChangedBlock ==
  ASSUME SocketInv, NEW b, Changes(b), UNCHANGED <<open, serving>>
  PROVE  /\ \A d \in Blocks : Live(d)' <=> Live(d)
         /\ \A d \in Blocks : block'[d].ident = block[d].ident
         /\ \A d \in Blocks : Listed(d)' <=> Listed(d)
         /\ \A d \in Blocks : block'[d] = Lost <=> block[d] = Lost
         /\ \A d : Served(d)' <=> Served(d)
         /\ SameServed /\ ClockInv'
         /\ \A j : UnderWay(j)' = UnderWay(j)
         /\ ~Finite => \A d \in Blocks : block'[d].clock = "never"
<1>1. /\ \A d \in Blocks : block'[d].kind = block[d].kind
      /\ \A d \in Blocks : block'[d].ident = block[d].ident
      /\ \A d \in Blocks : block'[d].own = block[d].own
  BY DEF Changes
<1>2. \A d : Served(d)' <=> Served(d)
  BY DEF Served
<1>3. \A d \in Blocks : Live(d)' <=> Live(d)
  BY <1>1 DEF Live
<1>4. \A d \in Blocks : Listed(d)' <=> Listed(d)
  BY <1>1, <1>2, <1>3 DEF Listed
<1>5. Live(b) /\ Live(b)'
  BY <1>3 DEF Changes
<1>6. block[b] # Lost /\ block'[b] # Lost
  BY <1>5 DEF Live, Lost, Free
<1>7. SameServed
  BY <1>1, Constants DEF SameServed, SocketInv, ThreadTypes
<1>8. ClockInv'
  BY DEF SocketInv, ClockInv, Changes
<1>9. \A j : UnderWay(j)' = UnderWay(j)
  BY <1>1, <1>2, <1>3 DEF UnderWay
<1>10. ~Finite => \A d \in Blocks : block'[d].clock = "never"
  BY DEF SocketInv, FreshInv, Changes
<1>. QED
  BY <1>1, <1>2, <1>3, <1>4, <1>6, <1>7, <1>8, <1>9, <1>10 DEF Changes

\* The head of the initial list.
LEMMA InitialHead ==
  ASSUME SocketInv, initial # <<>>
  PROVE  /\ Head(initial) \in Blocks /\ Head(initial) \in Elements(initial)
         /\ Live(Head(initial)) /\ block[Head(initial)] \in Taken /\ Listed(Head(initial))
         /\ Tail(initial) \in Seq(Blocks) /\ OnceEach(Tail(initial))
         /\ Elements(Tail(initial)) = Elements(initial) \ {Head(initial)}
<1>1. initial \in Seq(Blocks) /\ OnceEach(initial)
  BY DEF SocketInv, ListTypes, ListInv, InitialInv
<1>2. /\ Head(initial) \in Blocks /\ Head(initial) \in Elements(initial)
      /\ Tail(initial) \in Seq(Blocks) /\ OnceEach(Tail(initial))
      /\ Elements(Tail(initial)) = Elements(initial) \ {Head(initial)}
  BY <1>1, ListShrinks
<1>3. Listed(Head(initial))
  BY <1>2 DEF SocketInv, ListInv, InitialInv
<1>. QED
  BY <1>2, <1>3, BlockStates DEF SocketInv, Listed

LEMMA OutgoingHead ==
  ASSUME SocketInv, outgoing # <<>>
  PROVE  /\ Head(outgoing) \in Blocks /\ Head(outgoing) \in Elements(outgoing)
         /\ Live(Head(outgoing)) /\ block[Head(outgoing)] \in Taken /\ Listed(Head(outgoing))
         /\ Tail(outgoing) \in Seq(Blocks) /\ OnceEach(Tail(outgoing))
         /\ Elements(Tail(outgoing)) = Elements(outgoing) \ {Head(outgoing)}
<1>1. outgoing \in Seq(Blocks) /\ OnceEach(outgoing)
  BY DEF SocketInv, ListTypes, ListInv, OutgoingInv
<1>2. /\ Head(outgoing) \in Blocks /\ Head(outgoing) \in Elements(outgoing)
      /\ Tail(outgoing) \in Seq(Blocks) /\ OnceEach(Tail(outgoing))
      /\ Elements(Tail(outgoing)) = Elements(outgoing) \ {Head(outgoing)}
  BY <1>1, ListShrinks
<1>3. Listed(Head(outgoing))
  BY <1>2 DEF SocketInv, ListInv, OutgoingInv
<1>. QED
  BY <1>2, <1>3, BlockStates DEF SocketInv, Listed

\* The port refuses the operation.
StartRefused(b) ==
  /\ initial # <<>> /\ b = Head(initial)
  /\ initial' = Tail(initial) /\ outgoing' = Append(outgoing, b)
  /\ block' = [block EXCEPT ![b] = Ended(@, TRUE)]
  /\ UNCHANGED <<incoming, port>>

LEMMA RefusedLists ==
  ASSUME SocketInv, NEW b, StartRefused(b), UNCHANGED <<open, serving>>
  PROVE  Changes(b) /\ ListTypes' /\ ListInv'
<1>. USE DEF StartRefused
<1>0. /\ b \in Blocks /\ b \in Elements(initial) /\ Live(b) /\ Listed(b)
      /\ block[b] \in Taken /\ initial' \in Seq(Blocks) /\ OnceEach(initial')
      /\ Elements(initial') = Elements(initial) \ {b}
  BY InitialHead
<1>1. b \notin Elements(outgoing) /\ \A i \in Idents : b \notin incoming[i]
  BY <1>0 DEF SocketInv, ListInv, InitialInv
<1>2. /\ outgoing' \in Seq(Blocks) /\ OnceEach(outgoing')
      /\ Elements(outgoing') = Elements(outgoing) \cup {b}
  BY <1>0, <1>1, ListGrows DEF SocketInv, ListTypes, ListInv, OutgoingInv
<1>3. block'[b] = Ended(block[b], TRUE) /\ block' \in [Blocks -> {Free, Lost} \cup Taken]
  BY <1>0, EndedBlock DEF SocketInv, ListTypes
<1>4. Changes(b)
  BY <1>0, <1>3, EndedBlock DEF Changes, SocketInv, ListTypes
<1>5. /\ \A d \in Blocks : Live(d)' <=> Live(d)
      /\ \A d \in Blocks : block'[d].ident = block[d].ident
      /\ \A d \in Blocks : Listed(d)' <=> Listed(d)
      /\ \A d : Served(d)' <=> Served(d)
  BY <1>4, ChangedBlock
<1>6. ListTypes'
  BY <1>0, <1>2, <1>3 DEF ListTypes
<1>7. InitialInv'
  BY <1>0, <1>2, <1>5, ListsHoldBlocks DEF SocketInv, ListInv, InitialInv
<1>8. OutgoingInv' /\ IncomingInv'
  <2>1. OutgoingInv'
    BY <1>0, <1>1, <1>2, <1>5, ListsHoldBlocks DEF SocketInv, ListInv, OutgoingInv
  <2>2. \A j \in Idents : \A d \in incoming[j] : d \in Blocks
    BY DEF SocketInv, SocketTypes
  <2>3. IncomingInv'
    BY <1>5, <2>2 DEF SocketInv, ListInv, IncomingInv
  <2>. QED
    BY <2>1, <2>3
<1>9. ServedInv' /\ FoundInv'
  BY <1>0, <1>2, <1>5, Constants DEF SocketInv, ThreadTypes, ListInv, ServedInv, FoundInv
<1>. QED
  BY <1>4, <1>6, <1>7, <1>8, <1>9 DEF ListInv

\* The port takes it.
StartTaken(b, i) ==
  /\ initial # <<>> /\ b = Head(initial) /\ i = block[b].ident
  /\ initial' = Tail(initial)
  /\ incoming' = [incoming EXCEPT ![i] = @ \cup {b}]
  /\ UNCHANGED <<outgoing, block>>

LEMMA TakenLists ==
  ASSUME SocketInv, NEW b, NEW i, StartTaken(b, i), UNCHANGED <<open, serving>>
  PROVE  /\ b \in Blocks /\ i \in open /\ \A j \in Idents : b \notin incoming[j]
         /\ block[b] # Lost
         /\ incoming' \in [Idents -> SUBSET Blocks] /\ ListTypes' /\ ListInv'
<1>. USE DEF StartTaken
<1>0. /\ b \in Blocks /\ b \in Elements(initial) /\ Live(b) /\ Listed(b)
      /\ block[b] \in Taken /\ initial' \in Seq(Blocks) /\ OnceEach(initial')
      /\ Elements(initial') = Elements(initial) \ {b}
  BY InitialHead
<1>1. /\ b \notin Elements(outgoing) /\ \A j \in Idents : b \notin incoming[j]
      /\ i \in open /\ i \in Idents
  BY <1>0 DEF SocketInv, SocketTypes, ListInv, InitialInv, Listed
<1>2. incoming' \in [Idents -> SUBSET Blocks]
      /\ \A j \in Idents : incoming'[j] = IF j = i THEN incoming[j] \cup {b} ELSE incoming[j]
  BY <1>0, <1>1 DEF SocketInv, SocketTypes
<1>3. \A d : Listed(d)' <=> Listed(d)
  BY DEF Listed, Live, Served
<1>4. ListTypes'
  BY <1>0 DEF SocketInv, ListTypes
<1>5. InitialInv' /\ OutgoingInv' /\ IncomingInv'
  BY <1>0, <1>1, <1>2, <1>3 DEF SocketInv, ListInv, InitialInv, OutgoingInv, IncomingInv
<1>6. ServedInv'
  BY DEF SocketInv, ListInv, ServedInv, Live
<1>7. FoundInv'
  BY <1>0, <1>1, <1>2, BlockStates DEF SocketInv, ListInv, FoundInv, Live, Served
<1>8. block[b] # Lost
  BY <1>0 DEF Live, Lost, Free
<1>. QED
  BY <1>0, <1>1, <1>2, <1>4, <1>5, <1>6, <1>7, <1>8 DEF ListInv

\* Each way to start an operation.
LEMMA RefusedStep ==
  ASSUME SocketInv, NEW b, StartRefused(b), initAt = "do", initAt' = "ask",
         UNCHANGED <<issued, open, invoking, delay, listeners, accepts, marks, hand, portOn, at,
                     serving, op, offAt>>
  PROVE  SocketInv'
<1>1. Changes(b) /\ ListTypes' /\ ListInv'
  BY RefusedLists
<1>2. /\ UNCHANGED <<incoming, port>>
      /\ \A d \in Blocks : block'[d] = Lost <=> block[d] = Lost
      /\ SameServed /\ ClockInv'
      /\ \A j : UnderWay(j)' = UnderWay(j)
      /\ ~Finite => \A d \in Blocks : block'[d].clock = "never"
  BY <1>1, ChangedBlock DEF StartRefused
<1>3. SocketTypes' /\ PortTypes' /\ ThreadTypes'
  BY <1>2 DEF SocketInv, SocketTypes, PortTypes, ThreadTypes
<1>4. OffInv'
  BY DEF SocketInv, OffInv, InCallback
<1>5. CountInv' /\ IdentKept'
  BY <1>2, CountFrame
<1>6. KnownInv'
  BY <1>2, KnownFrame DEF SocketInv, HandleOpen
<1>7. AcceptsInv'
  BY <1>2, AcceptsKept DEF SocketInv
<1>8. ASSUME ~Finite PROVE FreshInv'
  <2>1. \A x : PendingOrLost(x) => PendingOrLost(x)'
    BY <1>2 DEF PendingOrLost
  <2>. QED
    BY <1>2, <1>8, <2>1 DEF SocketInv, FreshInv, Heard, Told, OneItem, Apart, OneItemIn
<1>. QED
  BY <1>1, <1>2, <1>3, <1>4, <1>5, <1>6, <1>7, <1>8 DEF SocketInv

LEMMA TakenStep ==
  ASSUME SocketInv, NEW b, NEW i, StartTaken(b, i), initAt = "do", initAt' = "ask",
         port' \in {StartWaiting(port, i, b), StartDone(port, i, b)},
         UNCHANGED <<issued, open, invoking, delay, listeners, accepts, marks, hand, portOn, at,
                     serving, op, offAt>>
  PROVE  SocketInv'
<1>1. /\ b \in Blocks /\ i \in open /\ \A j \in Idents : b \notin incoming[j]
      /\ block[b] # Lost
      /\ incoming' \in [Idents -> SUBSET Blocks] /\ ListTypes' /\ ListInv'
  BY TakenLists
<1>2. /\ incoming' = [incoming EXCEPT ![i] = @ \cup {b}] /\ i \in Idents
      /\ UNCHANGED <<block, outgoing>>
  BY <1>1 DEF StartTaken, SocketInv, SocketTypes
<1>3. /\ \A j \in Idents : incoming'[j] = IF j = i THEN incoming[j] \cup {b} ELSE incoming[j]
  BY <1>2 DEF SocketInv, SocketTypes
<1>4. /\ Item(i, b) \in Items(Keys, Overlaps)
      /\ Item(i, b).key = i /\ Item(i, b).block = b /\ Item(i, b).fresh
  BY <1>1, <1>2, Constants DEF Item, Items, Overlaps
<1>5. /\ port' \in Ports(Keys, Overlaps)
      /\ Told(port') = Told(port) \cup {Item(i, b)}
      /\ OneItem(port, Blocks) /\ (\A y \in Told(port) : y.block = b => b \notin Blocks)
           => OneItem(port', Blocks)
  <2>1. \/ port' = [port EXCEPT !.waiting = Append(@, Item(i, b))]
        \/ port' = [port EXCEPT !.done = Append(@, Item(i, b))]
    BY DEF StartWaiting, StartDone
  <2>2. port \in Ports(Keys, Overlaps)
    BY DEF SocketInv, PortTypes
  <2>3. /\ port' \in Ports(Keys, Overlaps)
        /\ Told(port') = Told(port) \cup {Item(i, b)}
        /\ \A Cs : OneItem(port, Cs)
                   /\ (\A y \in Told(port) : y.block = Item(i, b).block => Item(i, b).block \notin Cs)
                      => OneItem(port', Cs)
    BY <1>4, <2>1, <2>2, PortAdds
  <2>. QED
    BY <1>4, <2>3
<1>6. SocketTypes' /\ PortTypes' /\ ThreadTypes'
  BY <1>1, <1>5 DEF SocketInv, SocketTypes, PortTypes, ThreadTypes
<1>7. OffInv'
  BY DEF SocketInv, OffInv, InCallback
<1>8. CountInv' /\ IdentKept' /\ ClockInv'
  BY <1>2, CountFrame DEF SameServed, SocketInv, ClockInv
<1>9. KnownInv'
  BY <1>2, <1>3, <1>4, <1>5 DEF SocketInv, KnownInv, Knows, InHand, HandleOpen
<1>10. AcceptsInv'
  BY <1>2, AcceptsFrame DEF SocketInv
<1>11. ASSUME ~Finite PROVE FreshInv'
  <2>1. FreshInv
    BY <1>11 DEF SocketInv
  <2>2. \A y \in Heard : y.block # b /\ PendingOrLost(y)'
    BY <1>1, <1>2, <1>3, <2>1 DEF FreshInv, PendingOrLost
  <2>3. Heard' = Heard \cup {Item(i, b)} /\ Told(port) \subseteq Heard
    BY <1>5 DEF Heard
  <2>4. PendingOrLost(Item(i, b))'
    BY <1>2, <1>3, <1>4 DEF PendingOrLost
  <2>5. OneItem(port', Blocks)
    BY <1>5, <2>1, <2>2, <2>3 DEF FreshInv
  <2>6. hand # None => \A x \in Told(port') : x.block = hand.block => x.block \notin Blocks
    BY <1>4, <1>5, <2>1, <2>2 DEF FreshInv, Heard
  <2>. QED
    BY <1>2, <1>4, <2>1, <2>2, <2>3, <2>4, <2>5, <2>6 DEF FreshInv
<1>. QED
  BY <1>1, <1>6, <1>7, <1>8, <1>9, <1>10, <1>11 DEF SocketInv

LEMMA StartStep ==
  ASSUME SocketInv, Start
  PROVE  SocketInv'
<1>. DEFINE b == Head(initial)
            i == block[b].ident
<1>1. /\ initAt = "do" /\ initAt' = "ask"
      /\ UNCHANGED <<issued, open, invoking, delay, listeners, accepts, marks, hand, portOn, at,
                     serving, op, offAt>>
  BY DEF Start
<1>2. \/ StartRefused(b)
      \/ StartTaken(b, i) /\ port' \in {StartWaiting(port, i, b), StartDone(port, i, b)}
  BY DEF Start, StartRefused, StartTaken
<1>3. CASE StartRefused(b)
  BY <1>1, <1>3, RefusedStep
<1>4. CASE StartTaken(b, i) /\ port' \in {StartWaiting(port, i, b), StartDone(port, i, b)}
  <2>. HIDE DEF b, i
  <2>. QED
    BY <1>1, <1>4, TakenStep
<1>. QED
  BY <1>2, <1>3, <1>4

-----------------------------------------------------------------------------
(* Blocks are given back.                                                  *)

LEMMA OutlivedItem ==
  ASSUME NEW y \in Items(Keys, Overlaps), NEW B
  PROVE  /\ Outlive(y, B) \in Items(Keys, Overlaps)
         /\ Outlive(y, B).key = y.key /\ Outlive(y, B).block = y.block
         /\ Outlive(y, B).fresh <=> y.fresh /\ y.block \notin B
<1>1. (y.fresh /\ y.block \notin B) \in BOOLEAN
  OBVIOUS
<1>. QED
  BY <1>1 DEF Outlive, Items

\* The port q, without the blocks B.
PortGives(q, B) ==
  /\ q \in Ports(Keys, Overlaps) /\ port' = Recycled(q, B) /\ hand' = HandAfter(B)
  /\ UNCHANGED portOn

LEMMA GivenBack ==
  ASSUME PortTypes, NEW q, NEW B, PortGives(q, B)
  PROVE  /\ PortTypes'
         /\ \A k, b : Knows(q, k, b) /\ b \notin B => Knows(port', k, b)
         /\ \A k, b : InHand(k, b) /\ b \notin B => InHand(k, b)'
         /\ \A x \in Told(port') : \E y \in Told(q) : x = Outlive(y, B)
         /\ \A Cs : OneItem(q, Cs) => OneItem(port', Cs)
         /\ IF hand = None THEN hand' = None ELSE hand' = Outlive(hand, B) /\ hand' # None
<1>1. /\ port' \in Ports(Keys, Overlaps)
      /\ \A k, b : Knows(q, k, b) /\ b \notin B => Knows(port', k, b)
      /\ \A x \in Told(port') : \E y \in Told(q) : x = Outlive(y, B)
      /\ \A Cs : OneItem(q, Cs) => OneItem(port', Cs)
  <2>1. q \in Ports(Keys, Overlaps) /\ port' = Recycled(q, B)
    BY DEF PortGives
  <2>2. /\ Recycled(q, B) \in Ports(Keys, Overlaps)
        /\ \A k, b : Knows(q, k, b) /\ b \notin B => Knows(Recycled(q, B), k, b)
        /\ \A x \in Told(Recycled(q, B)) : \E y \in Told(q) : x = Outlive(y, B)
        /\ \A Cs : OneItem(q, Cs) => OneItem(Recycled(q, B), Cs)
    BY <2>1, PortRecycles
  <2>. QED
    BY <2>1, <2>2
<1>2. /\ IF hand = None THEN hand' = None ELSE hand' = Outlive(hand, B) /\ hand' # None
      /\ hand' \in Items(Keys, Overlaps) \cup {None}
  BY OutlivedItem, Constants DEF PortGives, HandAfter, PortTypes
<1>3. PortTypes'
  BY <1>1, <1>2 DEF PortTypes, PortGives
<1>4. \A k, b : InHand(k, b) /\ b \notin B => InHand(k, b)'
  BY <1>2, OutlivedItem DEF InHand, PortTypes
<1>. QED
  BY <1>1, <1>2, <1>3, <1>4

LEMMA ToldItems ==
  ASSUME NEW p \in Ports(Keys, Overlaps)
  PROVE  Told(p) \subseteq Items(Keys, Overlaps)
BY DEF Told, Ports, Elements

\* Blocks that the port does not know of are given back.
LEMMA FreshAfter ==
  ASSUME FreshInv, PortTypes, NEW q, NEW B, PortGives(q, B),
         Told(q) \subseteq Told(port), OneItem(port, Blocks) => OneItem(q, Blocks),
         initAt' # "call", \A b \in Blocks : block'[b].clock = "never",
         \A b \in B : b \in Blocks /\ block[b] # Lost /\ \A i \in Idents : b \notin incoming[i],
         \A x : x.block \notin B /\ PendingOrLost(x) => PendingOrLost(x)'
  PROVE  FreshInv'
<1>1. /\ \A x \in Told(port') : \E y \in Told(q) : x = Outlive(y, B)
      /\ OneItem(q, Blocks) => OneItem(port', Blocks)
      /\ IF hand = None THEN hand' = None ELSE hand' = Outlive(hand, B) /\ hand' # None
  BY GivenBack
<1>2. /\ Told(q) \subseteq Items(Keys, Overlaps) /\ Told(q) \subseteq Heard
      /\ Heard \subseteq Items(Keys, Overlaps)
  BY ToldItems DEF PortTypes, PortGives, Heard
<1>3. \A y \in Heard : y.block \notin B /\ y.fresh /\ PendingOrLost(y)'
  BY DEF FreshInv, PendingOrLost
<1>4. \A y \in Heard : /\ Outlive(y, B).fresh /\ Outlive(y, B).block = y.block
                       /\ PendingOrLost(Outlive(y, B))'
  BY <1>2, <1>3, OutlivedItem DEF PendingOrLost
<1>5. \A x \in Heard' : x.fresh /\ PendingOrLost(x)'
  BY <1>1, <1>2, <1>4 DEF Heard
<1>6. hand' # None => \A x \in Told(port') : x.block = hand'.block => x.block \notin Blocks
  BY <1>1, <1>2, <1>4 DEF FreshInv, Heard
<1>. QED
  BY <1>1, <1>5, <1>6 DEF FreshInv

-----------------------------------------------------------------------------
(* A callback is over: its block goes back.                                *)

CallEnds(x, b, i, q) ==
  /\ x \in Callers /\ b \in Blocks /\ serving[x] = b /\ i = block[b].ident
  /\ CallbackOver(i)
  /\ block' = Returned({b})
  /\ PortGives(q, {b})
  /\ serving' = [serving EXCEPT ![x] = None]
  /\ UNCHANGED <<open, incoming, listeners, accepts, marks, initial, outgoing, op, offAt>>

LEMMA ServedBlock ==
  ASSUME SocketInv, NEW x \in Callers, NEW b \in Blocks, serving[x] = b
  PROVE  /\ Live(b) /\ Served(b) /\ block[b].ident \in Idents /\ block[b] # Lost
         /\ b \notin Elements(initial) /\ b \notin Elements(outgoing)
         /\ \A j \in Idents : b \notin incoming[j]
         /\ \A y \in Callers : serving[y] = b => y = x
         /\ x \in Serving(block[b].ident)
<1>1. b # None
  BY Constants
<1>2. Live(b) /\ Served(b)
  BY <1>1 DEF SocketInv, ListInv, ServedInv, Served
<1>3. \A y \in Callers : serving[y] = b => y = x
  BY <1>1 DEF SocketInv, ListInv, ServedInv
<1>4. /\ b \notin Elements(initial) /\ b \notin Elements(outgoing)
      /\ \A j \in Idents : b \notin incoming[j]
  BY <1>2 DEF SocketInv, ListInv, InitialInv, OutgoingInv, IncomingInv, Listed
<1>. QED
  BY <1>1, <1>2, <1>3, <1>4, BlockStates DEF SocketInv, Serving

LEMMA CallEndsBlocks ==
  ASSUME SocketInv, NEW x, NEW b, NEW i, NEW q, CallEnds(x, b, i, q)
  PROVE  /\ \A d \in Blocks : block'[d] = IF d = b THEN Free ELSE block[d]
         /\ \A d \in Blocks : Served(d)' <=> Served(d) /\ d # b
         /\ \A d \in Blocks : Live(d)' <=> Live(d) /\ d # b
         /\ \A j : UnderWay(j)' = UnderWay(j)
         /\ ListTypes' /\ ListInv' /\ ClockInv'
<1>. USE DEF CallEnds
<1>0. x \in Callers /\ b \in Blocks /\ serving[x] = b
  OBVIOUS
<1>1. /\ Live(b) /\ Served(b) /\ i \in Idents
      /\ b \notin Elements(initial) /\ b \notin Elements(outgoing)
      /\ \A j \in Idents : b \notin incoming[j]
      /\ \A y \in Callers : serving[y] = b => y = x
  BY <1>0, ServedBlock
<1>2. /\ \A d \in Blocks : block'[d] = IF d = b THEN Free ELSE block[d]
      /\ block' \in [Blocks -> {Free, Lost} \cup Taken]
  BY DEF Returned, SocketInv, ListTypes
<1>3. /\ serving' \in [Callers -> Blocks \cup {None}]
      /\ \A y \in Callers : serving'[y] = IF y = x THEN None ELSE serving[y]
  BY DEF SocketInv, ThreadTypes
<1>4. \A d \in Blocks : Served(d)' <=> Served(d) /\ d # b
  BY <1>0, <1>1, <1>3, Constants DEF Served
<1>5. \A d \in Blocks : Live(d)' <=> Live(d) /\ d # b
  BY <1>2 DEF Live, Free
<1>6. \A d \in Blocks : d # b /\ Listed(d) => Listed(d)'
  BY <1>2, <1>4, <1>5 DEF Listed
<1>7. ListTypes'
  BY <1>2 DEF SocketInv, ListTypes
<1>8. InitialInv' /\ OutgoingInv'
  BY <1>1, <1>6, ListsHoldBlocks DEF SocketInv, ListInv, InitialInv, OutgoingInv
<1>9. IncomingInv'
  BY <1>1, <1>2, <1>6, ZenonT(40) DEF SocketInv, SocketTypes, ListInv, IncomingInv
<1>10. ServedInv'
  BY <1>1, <1>3, <1>5 DEF SocketInv, ThreadTypes, ListInv, ServedInv
<1>11. FoundInv'
  BY <1>2, <1>4, <1>5 DEF SocketInv, ListInv, FoundInv
<1>12. \A j : UnderWay(j)' = UnderWay(j)
  BY <1>1, <1>2, <1>4, <1>5 DEF UnderWay
<1>13. ClockInv'
  <2>1. Free.kind # "accept"
    BY DEF Free
  <2>2. \A d \in Blocks : block[d].kind = "accept" => block[d].clock = "never"
    BY DEF SocketInv, ClockInv
  <2>. QED
    BY <1>2, <2>1, <2>2 DEF ClockInv
<1>. QED
  BY <1>2, <1>4, <1>5, <1>7, <1>8, <1>9, <1>10, <1>11, <1>12, <1>13 DEF ListInv

LEMMA CallEndsCounts ==
  ASSUME SocketInv, NEW x, NEW b, NEW i, NEW q, CallEnds(x, b, i, q)
  PROVE  SocketTypes' /\ CountInv' /\ IdentKept'
<1>. USE DEF CallEnds
<1>0. x \in Callers /\ b \in Blocks /\ serving[x] = b
  OBVIOUS
<1>1. /\ i \in Idents /\ x \in Serving(i)
      /\ \A y \in Callers : serving[y] = b => y = x
  BY <1>0, ServedBlock
<1>2. \A d \in Blocks : block'[d] = IF d = b THEN Free ELSE block[d]
  BY DEF Returned
<1>3. /\ serving \in [Callers -> Blocks \cup {None}]
      /\ \A y \in Callers : serving'[y] = IF y = x THEN None ELSE serving[y]
  BY DEF SocketInv, ThreadTypes
<1>4. Serving(i)' = Serving(i) \ {x} /\ \A j \in Idents : j # i => Serving(j)' = Serving(j)
  <2>1. \A y \in Callers : y # x => serving'[y] = serving[y] /\ serving[y] # b
    BY <1>1, <1>3
  <2>2. \A y \in Callers : y # x /\ serving[y] # None => block'[serving[y]] = block[serving[y]]
    BY <1>2, <1>3, <2>1
  <2>3. \A j : x \notin Serving(j)'
    BY <1>3 DEF Serving
  <2>4. \A j : \A y \in Callers : y # x => (y \in Serving(j)' <=> y \in Serving(j))
    BY <2>1, <2>2 DEF Serving
  <2>5. \A j \in Idents : j # i => x \notin Serving(j)
    BY DEF Serving
  <2>6. \A j : Serving(j) \subseteq Callers /\ Serving(j)' \subseteq Callers
    BY DEF Serving
  <2>7. Serving(i)' = Serving(i) \ {x}
    BY <2>3, <2>4, <2>6, Zenon
  <2>8. ASSUME NEW j \in Idents, j # i PROVE Serving(j)' = Serving(j)
    <3>1. x \notin Serving(j) /\ x \notin Serving(j)'
      BY <2>3, <2>5, <2>8
    <3>2. \A y \in Callers : y \in Serving(j)' <=> y \in Serving(j)
      BY <2>4, <3>1, Zenon
    <3>3. Serving(j) \subseteq Callers /\ Serving(j)' \subseteq Callers
      BY <2>6, Zenon
    <3>. QED
      BY <3>2, <3>3, Zenon
  <2>. QED
    BY <2>7, <2>8
<1>5. Cardinality(Serving(i)') = Cardinality(Serving(i)) - 1 /\ Cardinality(Serving(i)) > 0
  <2>1. Cardinality(Serving(i) \ {x}) = Cardinality(Serving(i)) - 1
    BY <1>1, ServingCounts, FS_RemoveElement
  <2>2. IsFiniteSet(Serving(i) \ {x})
    BY ServingCounts, FS_RemoveElement
  <2>3. Cardinality(Serving(i) \ {x}) \in Nat /\ Cardinality(Serving(i)) \in Nat
    BY <2>2, ServingCounts, FS_CardinalityType
  <2>4. Cardinality(Serving(i)) # 0
    BY <1>1, ServingCounts, FS_EmptySet
  <2>5. Cardinality(Serving(i)') = Cardinality(Serving(i) \ {x})
    BY <1>4
  <2>. QED
    BY <2>1, <2>3, <2>4, <2>5
<1>6. Calls(i) = Cardinality(Serving(i)) /\ \A j \in Idents : Calls(j) = Cardinality(Serving(j))
  BY <1>1 DEF SocketInv, CountInv
<1>7. /\ \A y \in Callers : serving'[y] # None => serving[y] = serving'[y] /\ serving[y] # b
      /\ \A y \in Callers : serving'[y] # None => block'[serving[y]] = block[serving[y]]
  BY <1>1, <1>2, <1>3
<1>8. IdentKept'
  <2>1. IdentKept
    BY DEF SocketInv
  <2>2. open' = open
    OBVIOUS
  <2>. HIDE DEF CallEnds
  <2>3. \A y \in Callers : serving'[y] # None => block'[serving'[y]] = block[serving[y]]
    BY <1>7
  <2>4. \A y \in Callers : serving'[y] # None => serving[y] # None
    BY <1>7
  <2>. QED
    BY <2>1, <2>2, <2>3, <2>4 DEF IdentKept
<1>9. /\ invoking \in [Idents -> Int] /\ delay \in [Idents -> Int]
      /\ issued \subseteq Idents
  BY DEF SocketInv, SocketTypes
<1>10. CASE i \in open
  <2>1. /\ invoking' = [invoking EXCEPT ![i] = @ - 1] /\ UNCHANGED <<delay, issued>>
    BY <1>10 DEF CallbackOver
  <2>2. \A j \in Idents : invoking'[j] = IF j = i THEN invoking[j] - 1 ELSE invoking[j]
    BY <1>1, <1>9, <2>1
  <2>3. \A j \in Idents : Calls(j)' = Cardinality(Serving(j)')
    BY <1>4, <1>5, <1>6, <1>9, <1>10, <2>1, <2>2 DEF Calls
  <2>4. SocketTypes'
    BY <1>1, <1>9, <2>1 DEF SocketInv, SocketTypes
  <2>5. \A j \in Idents : IF j \in open' THEN delay'[j] = 0 ELSE invoking'[j] = 0
    BY <1>10, <2>1, <2>2 DEF SocketInv, CountInv
  <2>6. IssuedInv' /\ \A a \in Actors, j \in Idents : Closing(a, j)' =>
          j \notin open' /\ delay'[j] = 0 /\ \A c \in Actors : Closing(c, j)' => c = a
    BY <2>1 DEF SocketInv, CountInv, IssuedInv, Closing
  <2>. QED
    BY <1>8, <2>3, <2>4, <2>5, <2>6 DEF CountInv
<1>11. CASE i \notin open
  <2>0. delay[i] = Cardinality(Serving(i)) /\ delay[i] > 0
    BY <1>5, <1>6, <1>11 DEF Calls
  <2>1. /\ delay' = [delay EXCEPT ![i] = IF @ > 0 THEN @ - 1 ELSE 0]
        /\ issued' = IF delay[i] = 1 THEN issued \ {i} ELSE issued
        /\ invoking' = invoking
    BY <1>11 DEF CallbackOver
  <2>2. \A j \in Idents : delay'[j] = IF j = i THEN delay[j] - 1 ELSE delay[j]
    BY <1>1, <1>9, <2>0, <2>1
  <2>3. \A j \in Idents : Calls(j)' = Cardinality(Serving(j)')
    BY <1>4, <1>5, <1>6, <1>9, <1>11, <2>1, <2>2 DEF Calls
  <2>4. SocketTypes'
    BY <2>1, <1>9, <1>1 DEF SocketInv, SocketTypes
  <2>5. \A j \in Idents : IF j \in open' THEN delay'[j] = 0 ELSE invoking'[j] = 0
    BY <1>11, <2>1, <2>2 DEF SocketInv, CountInv
  <2>6. \A a \in Actors : ~Closing(a, i)
    BY <1>1, <2>0 DEF SocketInv, CountInv
  <2>7. \A a \in Actors, j \in Idents : Closing(a, j)' =>
          j \notin open' /\ delay'[j] = 0 /\ \A c \in Actors : Closing(c, j)' => c = a
    BY <2>2, <2>6 DEF SocketInv, CountInv, Closing
  <2>8. IssuedInv'
    <3>1. \A j \in Idents : j \in issued <=> \/ j \in open \/ delay[j] > 0
                                             \/ \E a \in Actors : Closing(a, j)
      BY DEF SocketInv, CountInv, IssuedInv
    <3>2. \A a \in Actors, j \in Idents : Closing(a, j)' <=> Closing(a, j)
      BY DEF Closing
    <3>3. i \in issued' <=> delay'[i] > 0
      BY <1>1, <1>9, <2>0, <2>1, <2>2, <3>1
    <3>4. \A j \in Idents : j # i => (j \in issued' <=> j \in issued) /\ delay'[j] = delay[j]
      BY <2>1, <2>2
    <3>. QED
      BY <1>11, <2>6, <3>1, <3>2, <3>3, <3>4 DEF IssuedInv
  <2>. QED
    BY <1>8, <2>3, <2>4, <2>5, <2>7, <2>8 DEF CountInv
<1>. QED
  BY <1>10, <1>11

\* What is left to show is where the threads are.
LEMMA CallEndsInv ==
  ASSUME SocketInv, NEW x, NEW b, NEW i, NEW q, CallEnds(x, b, i, q),
         Told(q) \subseteq Told(port), \A Cs : OneItem(port, Cs) => OneItem(q, Cs),
         \A k, d : Knows(port, k, d) /\ d # b => Knows(q, k, d),
         ThreadTypes', \A y \in Callers : serving'[y] # None <=> InCallback(y)',
         \A y \in Callers : op'[y] # NoOp => InCallback(y)',
         initAt' = "ended" <=> initAt = "ended", ~Finite => initAt' # "call"
  PROVE  SocketInv'
<1>1. /\ \A d \in Blocks : block'[d] = IF d = b THEN Free ELSE block[d]
      /\ \A j : UnderWay(j)' = UnderWay(j)
      /\ ListTypes' /\ ListInv' /\ ClockInv'
  BY CallEndsBlocks
<1>2. SocketTypes' /\ CountInv' /\ IdentKept'
  BY CallEndsCounts
<1>3. /\ b \in Blocks /\ block[b] # Lost /\ \A j \in Idents : b \notin incoming[j]
      /\ UNCHANGED <<incoming, op, offAt, open, accepts, listeners, marks>>
      /\ PortGives(q, {b})
  BY ServedBlock DEF CallEnds
<1>4. /\ PortTypes'
      /\ \A k, d : Knows(q, k, d) /\ d \notin {b} => Knows(port', k, d)
      /\ \A k, d : InHand(k, d) /\ d \notin {b} => InHand(k, d)'
      /\ hand = None => hand' = None
  BY <1>3, GivenBack DEF SocketInv
<1>5. OffInv'
  BY <1>3, <1>4 DEF SocketInv, OffInv, PortGives
<1>6. KnownInv'
  <2>1. \A j \in Idents : \A d \in incoming[j] : d # b
    BY <1>3
  <2>. QED
    BY <1>3, <1>4, <2>1 DEF SocketInv, KnownInv, HandleOpen
<1>7. AcceptsInv'
  BY <1>1, <1>3, AcceptsKept DEF SocketInv
<1>8. ASSUME ~Finite PROVE FreshInv'
  <2>1. FreshInv /\ PortTypes /\ initAt' # "call"
    BY <1>8 DEF SocketInv
  <2>2. \A d \in Blocks : block'[d].clock = "never"
    <3>1. Free.clock = "never" /\ \A d \in Blocks : block[d].clock = "never"
      BY <2>1 DEF Free, FreshInv
    <3>. QED
      BY <1>1, <3>1
  <2>3. \A y : y.block \notin {b} /\ PendingOrLost(y) => PendingOrLost(y)'
    BY <1>1, <1>3 DEF PendingOrLost
  <2>4. \A d \in {b} : d \in Blocks /\ block[d] # Lost /\ \A j \in Idents : d \notin incoming[j]
    BY <1>3
  <2>5. OneItem(port, Blocks) => OneItem(q, Blocks)
    OBVIOUS
  <2>. QED
    BY <1>3, <2>1, <2>2, <2>3, <2>4, <2>5, FreshAfter
<1>. QED
  BY <1>1, <1>2, <1>4, <1>5, <1>6, <1>7, <1>8 DEF SocketInv

LEMMA TimedOutStep ==
  ASSUME SocketInv, TimedOut
  PROVE  SocketInv'
<1>. DEFINE b == serving[Initiator]
            i == block[b].ident
            q == CancelOne(port, i, b)
<1>1. /\ initAt = "call" /\ op[Initiator] = NoOp /\ CallbackOver(i)
      /\ block' = Returned({b}) /\ port' = Recycled(q, {b}) /\ hand' = HandAfter({b})
      /\ serving' = [serving EXCEPT ![Initiator] = None] /\ initAt' = "ask"
      /\ UNCHANGED <<open, incoming, listeners, accepts, marks, initial, outgoing, portOn, at, op,
                     offAt>>
  BY DEF TimedOut
<1>2. b \in Blocks /\ Initiator \in Callers
  BY <1>1, Constants DEF SocketInv, ThreadTypes, OffInv, InCallback
<1>3. /\ q \in Ports(Keys, Overlaps) /\ Told(q) \subseteq Told(port)
      /\ \A Cs : OneItem(port, Cs) => OneItem(q, Cs)
      /\ \A k, d : Knows(port, k, d) /\ d # b => Knows(q, k, d)
  BY PortCancelsOne DEF SocketInv, PortTypes
<1>4. CallEnds(Initiator, b, i, q)
  BY <1>1, <1>2, <1>3 DEF CallEnds, PortGives
<1>5. ThreadTypes'
  BY <1>1, <1>2 DEF SocketInv, ThreadTypes
<1>6. /\ \A y \in Callers : serving'[y] # None <=> InCallback(y)'
      /\ \A y \in Callers : op'[y] # NoOp => InCallback(y)'
  BY <1>1, <1>2 DEF SocketInv, ThreadTypes, OffInv, InCallback
<1>7. (initAt' = "ended" <=> initAt = "ended") /\ initAt' # "call"
  BY <1>1
<1>. HIDE DEF b, i, q
<1>. QED
  BY <1>3, <1>4, <1>5, <1>6, <1>7, CallEndsInv

LEMMA WorkerDoneStep ==
  ASSUME SocketInv, NEW w \in Workers, WorkerDone(w)
  PROVE  SocketInv'
<1>. DEFINE b == serving[w]
            i == block[b].ident
<1>1. /\ at[w] = "call" /\ op[w] = NoOp /\ CallbackOver(i)
      /\ block' = Returned({b}) /\ port' = Recycled(port, {b}) /\ hand' = HandAfter({b})
      /\ serving' = [serving EXCEPT ![w] = None] /\ at' = [at EXCEPT ![w] = "idle"]
      /\ UNCHANGED <<open, incoming, listeners, accepts, marks, initial, outgoing, portOn, initAt, op,
                     offAt>>
  BY DEF WorkerDone
<1>2. w \in Callers /\ w # Initiator
  BY Constants DEF Callers
<1>3. b \in Blocks
  BY <1>1, <1>2 DEF SocketInv, ThreadTypes, OffInv, InCallback
<1>4. CallEnds(w, b, i, port) /\ port \in Ports(Keys, Overlaps)
  BY <1>1, <1>2, <1>3 DEF CallEnds, PortGives, SocketInv, PortTypes
<1>5. ThreadTypes'
  BY <1>1, <1>2 DEF SocketInv, ThreadTypes
<1>6. /\ \A y \in Callers : serving'[y] # None <=> InCallback(y)'
      /\ \A y \in Callers : op'[y] # NoOp => InCallback(y)'
  BY <1>1, <1>2 DEF SocketInv, ThreadTypes, OffInv, InCallback, Callers
<1>7. (initAt' = "ended" <=> initAt = "ended") /\ (~Finite => initAt' # "call")
  BY <1>1 DEF SocketInv, FreshInv
<1>. HIDE DEF b, i
<1>. QED
  BY <1>4, <1>5, <1>6, <1>7, CallEndsInv

-----------------------------------------------------------------------------
(* A callback begins.                                                      *)

CallBegins(x, b, i) ==
  /\ x \in Callers /\ serving[x] = None
  /\ b \in Blocks /\ ~Served(b) /\ i = block[b].ident /\ i \in open /\ block[b].own
  /\ serving' = [serving EXCEPT ![x] = b]
  /\ invoking' = [invoking EXCEPT ![i] = @ + 1]
  /\ \A d \in Blocks : block'[d].ident = block[d].ident /\ block'[d].own = block[d].own
  /\ UNCHANGED <<delay, op>>

\* At most one socket is opened by the way.
Opens(j) == issued' = issued \cup {j} /\ open' = open \cup {j}

LEMMA CallBeginsServing ==
  ASSUME SocketInv, NEW x, NEW b, NEW i, CallBegins(x, b, i)
  PROVE  /\ i \in Idents /\ serving' \in [Callers -> Blocks \cup {None}]
         /\ \A y \in Callers : serving'[y] = IF y = x THEN b ELSE serving[y]
         /\ \A d \in Blocks : Served(d)' <=> Served(d) \/ d = b
         /\ Cardinality(Serving(i)') = Cardinality(Serving(i)) + 1
         /\ \A j \in Idents : j # i => Serving(j)' = Serving(j)
<1>. USE DEF CallBegins
<1>1. i \in Idents /\ b # None
  BY Constants DEF SocketInv, SocketTypes
<1>2. /\ serving' \in [Callers -> Blocks \cup {None}]
      /\ \A y \in Callers : serving'[y] = IF y = x THEN b ELSE serving[y]
  BY DEF SocketInv, ThreadTypes
<1>3. \A d \in Blocks : Served(d)' <=> Served(d) \/ d = b
  BY <1>1, <1>2, Constants DEF Served
<1>4. \A y \in Callers : serving[y] # None => serving[y] \in Blocks
  BY DEF SocketInv, ThreadTypes
<1>5. \A j : \A y \in Callers : y # x => (y \in Serving(j)' <=> y \in Serving(j))
  BY <1>2, <1>4 DEF Serving
<1>6. \A j : Serving(j) \subseteq Callers /\ Serving(j)' \subseteq Callers /\ x \notin Serving(j)
  BY DEF Serving
<1>7. x \in Serving(i)' /\ \A j : j # i => x \notin Serving(j)'
  BY <1>1, <1>2 DEF Serving
<1>8. Serving(i)' = Serving(i) \cup {x}
  BY <1>5, <1>6, <1>7, Zenon
<1>9. ASSUME NEW j \in Idents, j # i PROVE Serving(j)' = Serving(j)
  <2>1. \A y \in Callers : y \in Serving(j)' <=> y \in Serving(j)
    BY <1>5, <1>6, <1>7, <1>9, Zenon
  <2>2. Serving(j) \subseteq Callers /\ Serving(j)' \subseteq Callers
    BY <1>6, Zenon
  <2>. QED
    BY <2>1, <2>2, Zenon
<1>10. Cardinality(Serving(i) \cup {x}) = Cardinality(Serving(i)) + 1
  BY <1>6, ServingCounts, FS_AddElement
<1>. QED
  BY <1>1, <1>2, <1>3, <1>8, <1>9, <1>10

LEMMA CallBeginsCounts ==
  ASSUME SocketInv, NEW x, NEW b, NEW i, CallBegins(x, b, i),
         UNCHANGED <<issued, open>> \/ \E j \in Idents \ issued : Opens(j)
  PROVE  invoking' \in [Idents -> Int] /\ CountInv' /\ IdentKept'
<1>1. /\ i \in Idents /\ serving \in [Callers -> Blocks \cup {None}]
      /\ \A y \in Callers : serving'[y] = IF y = x THEN b ELSE serving[y]
      /\ Cardinality(Serving(i)') = Cardinality(Serving(i)) + 1
      /\ \A j \in Idents : j # i => Serving(j)' = Serving(j)
  BY CallBeginsServing DEF SocketInv, ThreadTypes
<1>. USE DEF CallBegins
<1>2. /\ invoking' \in [Idents -> Int] /\ invoking \in [Idents -> Int]
      /\ \A j \in Idents : invoking'[j] = IF j = i THEN invoking[j] + 1 ELSE invoking[j]
  BY <1>1 DEF SocketInv, SocketTypes
<1>3. ASSUME NEW j \in Idents, j \notin open, j \in open'
      PROVE  /\ j \notin issued /\ j # i /\ delay[j] = 0 /\ invoking[j] = 0
             /\ Serving(j) = {} /\ Cardinality(Serving(j)) = 0 /\ \A a \in Actors : ~Closing(a, j)
  <2>1. j \notin issued /\ j # i
    BY <1>3 DEF Opens
  <2>. QED
    BY <2>1, UnissuedUnused, FS_EmptySet
<1>4. open \subseteq open' /\ \A j \in Idents : j \in issued' <=> (j \in issued \/ (j \in open' /\ j \notin open))
  BY UnissuedUnused DEF Opens
<1>5. ASSUME NEW j \in Idents PROVE Calls(j)' = Cardinality(Serving(j)')
  <2>1. Calls(j) = Cardinality(Serving(j)) /\ delay' = delay
    BY DEF SocketInv, CountInv
  <2>2. CASE j = i
    BY <1>1, <1>2, <1>4, <2>1, <2>2 DEF Calls
  <2>3. CASE j # i /\ j \in open
    BY <1>1, <1>2, <1>4, <2>1, <2>3 DEF Calls
  <2>4. CASE j # i /\ j \notin open /\ j \in open'
    BY <1>1, <1>2, <1>3, <2>4 DEF Calls
  <2>5. CASE j # i /\ j \notin open /\ j \notin open'
    BY <1>1, <2>1, <2>5 DEF Calls
  <2>. QED
    BY <2>2, <2>3, <2>4, <2>5
<1>6. \A a \in Actors, j \in Idents : Closing(a, j)' <=> Closing(a, j)
  BY DEF Closing
<1>7. IssuedInv'
  BY <1>3, <1>4, <1>6 DEF SocketInv, CountInv, IssuedInv
<1>8. \A j \in Idents : IF j \in open' THEN delay'[j] = 0 ELSE invoking'[j] = 0
  <2>1. \A j \in Idents : IF j \in open THEN delay[j] = 0 ELSE invoking[j] = 0
    BY DEF SocketInv, CountInv
  <2>. QED
    BY <1>2, <1>3, <1>4, <2>1
<1>9. \A a \in Actors, j \in Idents : Closing(a, j)' =>
        j \notin open' /\ delay'[j] = 0 /\ \A c \in Actors : Closing(c, j)' => c = a
  BY <1>3, <1>6 DEF SocketInv, CountInv
<1>10. CountInv'
  BY <1>5, <1>7, <1>8, <1>9 DEF CountInv
<1>11. IdentKept'
  <2>. SUFFICES ASSUME NEW y \in Callers, serving'[y] # None, block'[serving'[y]].ident \in open'
                PROVE  block'[serving'[y]].own
    BY Zenon DEF IdentKept
  <2>1. CASE y = x
    BY <1>1, <2>1
  <2>2. CASE y # x
    <3>1. serving[y] = serving'[y] /\ serving[y] \in Blocks /\ block[serving[y]].ident \in open'
      BY <1>1, <2>2
    <3>2. block[serving[y]].ident \in Idents
      <4>1. serving[y] # None
        BY <3>1
      <4>. QED
        BY <3>1, <4>1, BlockStates DEF SocketInv, ListInv, ServedInv
    <3>3. y \in Serving(block[serving[y]].ident)
      BY <3>1 DEF Serving
    <3>4. block[serving[y]].ident \in open
      BY <1>3, <3>1, <3>2, <3>3
    <3>. QED
      BY <3>1, <3>4 DEF SocketInv, IdentKept
  <2>. QED
    BY <2>1, <2>2
<1>. QED
  BY <1>2, <1>10, <1>11

LEMMA TimeOutStep ==
  ASSUME SocketInv, NEW i \in Idents, NEW b \in Blocks, TimeOut(i, b)
  PROVE  SocketInv'
<1>1. /\ initAt = "timeouts" /\ i \in open /\ b \in incoming[i] /\ TimesOut(b)
      /\ incoming' = [incoming EXCEPT ![i] = @ \ {b}]
      /\ invoking' = [invoking EXCEPT ![i] = @ + 1]
      /\ serving' = [serving EXCEPT ![Initiator] = b]
      /\ block' = [block EXCEPT ![b] = Ended(@, TRUE)] /\ initAt' = "call"
      /\ UNCHANGED <<issued, open, delay, listeners, accepts, marks, initial, outgoing, port, hand,
                     portOn, at, op, offAt>>
  BY DEF TimeOut, TakenOff, portVars
<1>2. /\ Initiator \in Callers /\ serving[Initiator] = None
  BY <1>1, Constants DEF SocketInv, OffInv, InCallback
<1>3. /\ Listed(b) /\ block[b].ident = i /\ block[b] \in Taken /\ Live(b) /\ ~Served(b) /\ block[b].own
      /\ b \notin Elements(initial) /\ b \notin Elements(outgoing)
      /\ \A j \in Idents : j # i => b \notin incoming[j]
  <2>1. Listed(b) /\ block[b].ident = i
    BY <1>1 DEF SocketInv, ListInv, IncomingInv
  <2>. QED
    BY <1>1, <2>1, BlockStates DEF SocketInv, ListInv, InitialInv, OutgoingInv, IncomingInv, Listed
<1>4. /\ block'[b] = Ended(block[b], TRUE) /\ block' \in [Blocks -> {Free, Lost} \cup Taken]
      /\ \A d \in Blocks : d # b => block'[d] = block[d]
  BY <1>1, <1>3, EndedBlock DEF SocketInv, ListTypes
<1>5. /\ block'[b].kind = block[b].kind /\ block'[b].own = block[b].own
      /\ block'[b].ident = block[b].ident /\ block'[b].clock = "never"
  BY <1>3, <1>4, ZenonT(40) DEF Ended, Taken
<1>6. /\ \A d \in Blocks : block'[d].ident = block[d].ident /\ block'[d].own = block[d].own
      /\ \A d \in Blocks : block'[d].kind = block[d].kind
      /\ \A d \in Blocks : Live(d)' <=> Live(d)
  BY <1>4, <1>5 DEF Live
<1>7. CallBegins(Initiator, b, i)
  BY <1>1, <1>2, <1>3, <1>6 DEF CallBegins
<1>8. /\ invoking' \in [Idents -> Int] /\ CountInv' /\ IdentKept'
      /\ serving' \in [Callers -> Blocks \cup {None}]
      /\ \A y \in Callers : serving'[y] = IF y = Initiator THEN b ELSE serving[y]
      /\ \A d \in Blocks : Served(d)' <=> Served(d) \/ d = b
  BY <1>1, <1>7, CallBeginsServing, CallBeginsCounts
<1>9. /\ incoming' \in [Idents -> SUBSET Blocks]
      /\ \A j \in Idents : incoming'[j] = IF j = i THEN incoming[j] \ {b} ELSE incoming[j]
  BY <1>1 DEF SocketInv, SocketTypes
<1>10. SocketTypes' /\ ListTypes' /\ PortTypes' /\ ThreadTypes'
  BY <1>1, <1>4, <1>8, <1>9 DEF SocketInv, SocketTypes, ListTypes, PortTypes, ThreadTypes
<1>11. OffInv'
  <2>1. \A y \in Callers : serving'[y] # None <=> InCallback(y)'
    BY <1>1, <1>8, Constants DEF SocketInv, OffInv, InCallback
  <2>2. \A y \in Callers : op'[y] # NoOp => InCallback(y)'
    BY <1>1 DEF SocketInv, OffInv, InCallback
  <2>. QED
    BY <1>1, <2>1, <2>2 DEF SocketInv, OffInv
<1>12. ListInv'
  <2>1. \A d \in Blocks : Listed(d) /\ d # b => Listed(d)'
    BY <1>1, <1>6, <1>8 DEF Listed
  <2>2. InitialInv' /\ OutgoingInv'
    BY <1>1, <1>3, <1>9, <2>1, ListsHoldBlocks DEF SocketInv, ListInv, InitialInv, OutgoingInv
  <2>3. IncomingInv'
    <3>1. \A j \in Idents : \A d \in incoming'[j] : d # b /\ d \in incoming[j] /\ d \in Blocks
      BY <1>3, <1>9
    <3>. QED
      BY <1>6, <2>1, <3>1 DEF SocketInv, ListInv, IncomingInv
  <2>4. ServedInv'
    <3>1. \A y \in Callers : serving[y] # b
      BY <1>3 DEF Served
    <3>2. \A y \in Callers : serving[y] # None => serving[y] \in Blocks
      BY DEF SocketInv, ThreadTypes
    <3>. QED
      BY <1>3, <1>6, <1>8, <3>1, <3>2 DEF SocketInv, ListInv, ServedInv
  <2>5. FoundInv'
    <3>. SUFFICES ASSUME NEW d \in Blocks, Live(d)'
                  PROVE  \/ d \in Elements(initial') \/ d \in Elements(outgoing')
                         \/ d \in incoming'[block'[d].ident] \/ Served(d)'
      BY DEF FoundInv
    <3>1. d = b => Served(d)'
      BY <1>8
    <3>2. d # b => block'[d] = block[d] /\ block[d].ident \in Idents
      BY <1>4, <1>6, BlockStates DEF SocketInv
    <3>. QED
      BY <1>1, <1>6, <1>8, <1>9, <3>1, <3>2 DEF SocketInv, ListInv, FoundInv
  <2>. QED
    BY <2>2, <2>3, <2>4, <2>5 DEF ListInv
<1>13. ClockInv'
  BY <1>4, <1>5 DEF SocketInv, ClockInv
<1>14. KnownInv'
  BY <1>1, <1>9 DEF SocketInv, KnownInv, HandleOpen, InHand
<1>15. AcceptsInv'
  <2>1. block[b].kind # "accept"
    BY <1>1 DEF SocketInv, ClockInv, TimesOut
  <2>2. \A j : UnderWay(j)' = UnderWay(j)
    BY <1>6, <1>8, <2>1 DEF UnderWay
  <2>. QED
    BY <1>1, <2>2, AcceptsKept DEF SocketInv
<1>16. Finite
  BY <1>1 DEF SocketInv, FreshInv, TimesOut
<1>. QED
  BY <1>8, <1>10, <1>11, <1>12, <1>13, <1>14, <1>15, <1>16 DEF SocketInv

LEMMA WorkerCallStep ==
  ASSUME SocketInv, NEW w \in Workers, WorkerCall(w)
  PROVE  SocketInv'
<1>. PICK b, i : b = Head(outgoing) /\ i = block[b].ident
  OBVIOUS
<1>1. /\ at[w] = "do" /\ outgoing # <<>> /\ i \in open
      /\ outgoing' = Tail(outgoing) /\ invoking' = [invoking EXCEPT ![i] = @ + 1]
      /\ accepts' = Answered(b)
      /\ serving' = [serving EXCEPT ![w] = b] /\ at' = [at EXCEPT ![w] = "call"]
      /\ UNCHANGED <<incoming, delay, listeners, initial, block, hand, portOn, initAt, op, offAt>>
  BY DEF WorkerCall
<1>2. UNCHANGED <<issued, open, marks, port>> \/ \E j \in Idents \ issued : Assign(j)
  BY DEF WorkerCall
<1>3. w \in Callers /\ w # Initiator /\ serving[w] = None
  BY <1>1, Constants DEF SocketInv, OffInv, InCallback, Callers
<1>4. /\ b \in Blocks /\ b \in Elements(outgoing) /\ Live(b) /\ Listed(b)
      /\ outgoing' \in Seq(Blocks) /\ OnceEach(outgoing')
      /\ Elements(outgoing') = Elements(outgoing) \ {b}
  BY <1>1, OutgoingHead
<1>5. ~Served(b) /\ block[b].own
  BY <1>4 DEF Listed
<1>6. /\ b \notin Elements(initial) /\ \A j \in Idents : b \notin incoming[j]
  BY <1>4 DEF SocketInv, ListInv, InitialInv, OutgoingInv
<1>7. CallBegins(w, b, i)
  BY <1>1, <1>3, <1>4, <1>5 DEF CallBegins
<1>8. UNCHANGED <<issued, open>> \/ \E j \in Idents \ issued : Opens(j)
  BY <1>2 DEF Assign, Opens
<1>9. /\ invoking' \in [Idents -> Int] /\ CountInv' /\ IdentKept'
      /\ serving' \in [Callers -> Blocks \cup {None}] /\ i \in Idents
      /\ \A y \in Callers : serving'[y] = IF y = w THEN b ELSE serving[y]
      /\ \A d \in Blocks : Served(d)' <=> Served(d) \/ d = b
  BY <1>7, <1>8, CallBeginsServing, CallBeginsCounts
<1>10. /\ port' \in Ports(Keys, Overlaps) /\ Told(port') = Told(port)
       /\ OneItem(port, Blocks) => OneItem(port', Blocks)
  <2>1. \A j \in Idents : /\ Associate(port, j) \in Ports(Keys, Overlaps)
                          /\ Told(Associate(port, j)) = Told(port)
                          /\ \A Cs : OneItem(port, Cs) => OneItem(Associate(port, j), Cs)
    BY PortAssociates, Constants DEF SocketInv, PortTypes
  <2>2. port' = port \/ \E j \in Idents : port' = Associate(port, j)
    BY <1>2 DEF Assign
  <2>3. port \in Ports(Keys, Overlaps)
    BY DEF SocketInv, PortTypes
  <2>. QED
    BY <2>1, <2>2, <2>3
<1>11. /\ issued' \subseteq Idents /\ open' \subseteq Idents /\ open \subseteq open'
  BY <1>8 DEF Opens, SocketInv, SocketTypes
<1>12. accepts' \in [Idents -> Int]
       /\ \A j \in Idents : accepts'[j] = IF j = i /\ block[b].kind = "accept" /\ i \in listeners
                                            THEN accepts[j] - 1 ELSE accepts[j]
  BY <1>1, <1>9 DEF Answered, SocketInv, SocketTypes
<1>13. SocketTypes' /\ ListTypes' /\ PortTypes' /\ ThreadTypes'
  <2>1. marks' \in [Idents -> SUBSET Marks]
    BY <1>2, AssignMarks DEF SocketInv, SocketTypes
  <2>. QED
    BY <1>1, <1>4, <1>9, <1>10, <1>11, <1>12, <2>1
       DEF SocketInv, SocketTypes, ListTypes, PortTypes, ThreadTypes
<1>14. OffInv'
  <2>1. \A y \in Callers : InCallback(y)' <=> InCallback(y) \/ y = w
    BY <1>1, <1>3 DEF SocketInv, ThreadTypes, InCallback, Callers
  <2>. QED
    BY <1>1, <1>4, <1>9, <2>1, Constants DEF SocketInv, OffInv
<1>15. ListInv'
  <2>1. \A d \in Blocks : Listed(d) /\ d # b => Listed(d)'
    BY <1>1, <1>9, <1>11 DEF Listed, Live
  <2>2. InitialInv' /\ OutgoingInv'
    BY <1>1, <1>4, <1>6, <2>1, ListsHoldBlocks DEF SocketInv, ListInv, InitialInv, OutgoingInv
  <2>3. IncomingInv'
    <3>1. \A j \in Idents : \A d \in incoming[j] : d # b /\ d \in Blocks
      BY <1>6 DEF SocketInv, SocketTypes
    <3>. QED
      BY <1>1, <2>1, <3>1 DEF SocketInv, ListInv, IncomingInv
  <2>4. ServedInv'
    <3>1. \A y \in Callers : serving[y] # b
      BY <1>5 DEF Served
    <3>. QED
      BY <1>1, <1>4, <1>9, <3>1 DEF SocketInv, ListInv, ServedInv, Live
  <2>5. FoundInv'
    BY <1>1, <1>4, <1>9 DEF SocketInv, ListInv, FoundInv, Live
  <2>. QED
    BY <2>2, <2>3, <2>4, <2>5 DEF ListInv
<1>16. ClockInv' /\ KnownInv'
  BY <1>1, <1>10 DEF SocketInv, ClockInv, KnownInv, HandleOpen, Knows, InHand
<1>17. AcceptsInv'
  <2>1. \A j : UnderWay(j)' = UnderWay(j) \ {b}
    BY <1>1, <1>9 DEF UnderWay, Live
  <2>2. \A j : b \in UnderWay(j) <=> j = i /\ block[b].kind = "accept"
    BY <1>4, <1>5 DEF UnderWay
  <2>3. \A j : (InClose(j)' <=> InClose(j)) /\ (InListen(j)' <=> InListen(j))
    BY <1>1 DEF InClose, InListen
  <2>4. \A j \in Idents : j \in open => (Crossed(j)' <=> Crossed(j)) /\ marks'[j] = marks[j]
    <3>1. \A j \in Idents \ issued : j \notin open
      BY UnissuedUnused
    <3>2. UNCHANGED marks \/ \E k \in Idents \ issued : \A j \in Idents \ {k} : marks'[j] = marks[j]
      BY <1>2, AssignMarks
    <3>. QED
      BY <3>1, <3>2 DEF Crossed
  <2>5. Counted(i) => Counted(i)'
    <3>1. CASE block[b].kind = "accept"
      <4>1. Cardinality(UnderWay(i) \ {b}) = Cardinality(UnderWay(i)) - 1
        BY <2>2, <3>1, UnderWayCounts, FS_RemoveElement
      <4>2. Counted(i) => i \in listeners /\ accepts'[i] = accepts[i] - 1
        BY <1>9, <1>12, <2>2, <3>1 DEF Counted
      <4>. QED
        BY <1>1, <1>9, <2>1, <2>3, <2>4, <4>1, <4>2 DEF Counted
    <3>2. CASE block[b].kind # "accept"
      <4>1. UnderWay(i)' = UnderWay(i)
        BY <2>1, <2>2, <3>2
      <4>2. accepts'[i] = accepts[i]
        BY <1>9, <1>12, <3>2
      <4>. QED
        BY <1>1, <1>9, <2>3, <2>4, <4>1, <4>2 DEF Counted
    <3>. QED
      BY <3>1, <3>2
  <2>6. \A j \in Idents : j # i => UnderWay(j)' = UnderWay(j) /\ accepts'[j] = accepts[j]
    BY <1>12, <2>1, <2>2
  <2>7. \A j \in open : j # i /\ Counted(j) => Counted(j)'
    BY <1>1, <1>11, <2>3, <2>4, <2>6 DEF Counted
  <2>8. ASSUME NEW j \in open', j \notin open
        PROVE  (InClose(j) => Crossed(j)') /\ (~InClose(j) => Counted(j)')
    <3>1. j \in Idents \ issued /\ Assign(j)
      BY <1>2, <2>8 DEF Assign
    <3>2. j # i
      BY <1>1, <2>8
    <3>. QED
      BY <1>1, <2>6, <3>1, <3>2, NewSocketCounted
  <2>9. \A j \in open' : InClose(j)' => Crossed(j)'
    BY <1>11, <2>3, <2>4, <2>8 DEF SocketInv, AcceptsInv
  <2>10. \A j \in open' : ~Crossed(j)' => Counted(j)'
    BY <1>11, <2>4, <2>5, <2>7, <2>8 DEF SocketInv, AcceptsInv
  <2>11. \A j \in Idents : j \notin open' /\ ~InClose(j)' => accepts'[j] = 0
    BY <1>1, <1>11, <2>3, <2>6 DEF SocketInv, AcceptsInv
  <2>. QED
    BY <2>9, <2>10, <2>11 DEF AcceptsInv
<1>18. ASSUME ~Finite PROVE FreshInv'
  BY <1>1, <1>10, <1>18 DEF SocketInv, FreshInv, Heard, PendingOrLost
<1>. QED
  BY <1>9, <1>13, <1>14, <1>15, <1>16, <1>17, <1>18 DEF SocketInv

-----------------------------------------------------------------------------
(* The port thread, the kernel and the clock.                              *)

LEMMA WorkerNothingStep ==
  ASSUME SocketInv, NEW w \in Workers, WorkerNothing(w)
  PROVE  SocketInv'
<1>1. outgoing = <<>>
  BY OutgoingHead DEF WorkerNothing, Listed
<1>2. /\ UNCHANGED <<socketVars, listVars, portVars, initAt, serving, op, offAt>>
      /\ at[w] = "do" /\ at' = [at EXCEPT ![w] = "idle"]
  BY <1>1 DEF WorkerNothing, listVars, portVars
<1>3. ThreadTypes'
  BY <1>2 DEF SocketInv, ThreadTypes
<1>4. \A x \in Callers : InCallback(x)' = InCallback(x)
  BY <1>2 DEF SocketInv, ThreadTypes, InCallback, Callers
<1>5. OffInv'
  BY <1>2, <1>4 DEF SocketInv, OffInv, portVars
<1>. QED
  BY <1>2, <1>3, <1>5, QuietStep DEF HandleOpen

\* A step of the port alone.
LEMMA PortStep ==
  ASSUME SocketInv, UNCHANGED <<socketVars, listVars, threadVars, op>>,
         offAt = offAt' \/ OffInv', offAt' \in {"up", "stopInit", "quit", "pool", "down"},
         PortTypes', portOn = portOn' \/ ~portOn', ~portOn' => hand' = None,
         KnownInv', ~Finite => FreshInv'
  PROVE  SocketInv'
<1>1. UNCHANGED <<issued, open, invoking, incoming, delay, listeners, accepts, marks,
                  initial, outgoing, block, initAt, at, serving, op>>
  BY DEF socketVars, listVars, threadVars
<1>2. SocketTypes' /\ ListTypes' /\ ThreadTypes'
  BY <1>1 DEF SocketInv, SocketTypes, ListTypes, ThreadTypes
<1>3. OffInv'
  BY <1>1 DEF SocketInv, OffInv, InCallback
<1>4. ListInv'
  BY <1>1, ListFrame DEF SocketInv
<1>5. CountInv' /\ IdentKept' /\ ClockInv'
  BY <1>1, CountFrame DEF SameServed, SocketInv, ClockInv
<1>6. AcceptsInv'
  BY <1>1, AcceptsFrame DEF SocketInv
<1>. QED
  BY <1>2, <1>3, <1>4, <1>5, <1>6 DEF SocketInv

LEMMA PortTakeStep ==
  ASSUME SocketInv, PortTake
  PROVE  SocketInv'
<1>. PICK x : x = Head(port.done)
  OBVIOUS
<1>1. /\ portOn /\ hand = None /\ port.done # <<>> /\ port' = Dequeued(port)
      /\ IF x = Quit THEN portOn' = FALSE /\ UNCHANGED hand ELSE hand' = x /\ UNCHANGED portOn
      /\ UNCHANGED <<socketVars, listVars, threadVars, op, offAt>>
  BY DEF PortTake
<1>2. /\ port' \in Ports(Keys, Overlaps) /\ x \in Items(Keys, Overlaps)
      /\ Told(port) = Told(port') \cup {x}
      /\ OneItem(port, Blocks) =>
           OneItem(port', Blocks) /\ \A y \in Told(port') : y.block = x.block => y.block \notin Blocks
  <2>1. port \in Ports(Keys, Overlaps) /\ port.done # <<>>
    BY <1>1 DEF SocketInv, PortTypes
  <2>2. /\ Dequeued(port) \in Ports(Keys, Overlaps) /\ x \in Items(Keys, Overlaps)
        /\ Told(port) = Told(Dequeued(port)) \cup {x}
        /\ \A Cs : OneItem(port, Cs) =>
             /\ OneItem(Dequeued(port), Cs)
             /\ \A y \in Told(Dequeued(port)) : y.block = x.block => y.block \notin Cs
    BY <2>1, PortDequeues
  <2>. QED
    BY <1>1, <2>2
<1>3. PortTypes' /\ hand' \in {None, x} /\ (~portOn' => hand' = None) /\ (portOn' = portOn \/ ~portOn')
  BY <1>1, <1>2 DEF SocketInv, PortTypes
<1>4. KnownInv'
  <2>. SUFFICES ASSUME HandleOpen, NEW i \in Idents, NEW b \in incoming[i]
                PROVE  Knows(port', i, b) \/ InHand(i, b)'
    BY <1>1 DEF KnownInv, HandleOpen, socketVars
  <2>1. PICK y \in Told(port) : y.key = i /\ y.block = b /\ y.fresh
    BY <1>1 DEF SocketInv, KnownInv, Knows, InHand
  <2>2. CASE y \in Told(port')
    BY <2>1, <2>2 DEF Knows
  <2>3. CASE y = x
    <3>1. y # Quit
      BY <2>1, Constants DEF Quit
    <3>. QED
      BY <1>1, <1>2, <2>1, <2>3, <3>1, Constants DEF InHand
  <2>. QED
    BY <1>2, <2>2, <2>3
<1>5. ASSUME ~Finite PROVE FreshInv'
  <2>1. FreshInv /\ UNCHANGED <<block, incoming, initAt>>
    BY <1>1, <1>5 DEF SocketInv, socketVars, listVars, threadVars
  <2>2. Heard' \subseteq Heard
    BY <1>2, <1>3, Constants DEF Heard
  <2>3. \A y \in Heard : PendingOrLost(y)'
    BY <2>1 DEF FreshInv, PendingOrLost
  <2>4. hand' # None => \A y \in Told(port') : y.block = hand'.block => y.block \notin Blocks
    BY <1>2, <1>3, <2>1 DEF FreshInv
  <2>. QED
    BY <1>2, <2>1, <2>2, <2>3, <2>4 DEF FreshInv
<1>. QED
  BY <1>1, <1>3, <1>4, <1>5, PortStep DEF SocketInv, ThreadTypes

LEMMA SignalStep ==
  ASSUME SocketInv, NEW i \in Idents, Signal(i)
  PROVE  SocketInv'
<1>. PICK S, E : port' = Finished(port, S, E)
  BY DEF Signal
<1>1. UNCHANGED <<socketVars, listVars, hand, portOn, threadVars, op, offAt>>
  BY DEF Signal
<1>2. /\ port' \in Ports(Keys, Overlaps) /\ ComeFrom(port', port)
      /\ \A k, b : Knows(port, k, b) => Knows(port', k, b)
      /\ OneItem(port, Blocks) => OneItem(port', Blocks)
  <2>1. port \in Ports(Keys, Overlaps)
    BY DEF SocketInv, PortTypes
  <2>2. /\ Finished(port, S, E) \in Ports(Keys, Overlaps) /\ ComeFrom(Finished(port, S, E), port)
        /\ \A k, b : Knows(port, k, b) => Knows(Finished(port, S, E), k, b)
        /\ \A Cs : OneItem(port, Cs) => OneItem(Finished(port, S, E), Cs)
    BY <2>1, PortFinishes
  <2>. QED
    BY <2>2
<1>3. PortTypes' /\ (~portOn' => hand' = None)
  BY <1>1, <1>2 DEF SocketInv, PortTypes, OffInv
<1>4. KnownInv'
  BY <1>1, <1>2 DEF SocketInv, KnownInv, HandleOpen, InHand, socketVars
<1>5. ASSUME ~Finite PROVE FreshInv'
  <2>1. FreshInv /\ UNCHANGED <<block, incoming, initAt, hand>>
    BY <1>1, <1>5 DEF SocketInv, socketVars, listVars, threadVars
  <2>2. \A x \in Told(port') : \E y \in Told(port) : SameItem(x, y)
    BY <1>2 DEF ComeFrom
  <2>3. \A x \in Told(port') : x.fresh /\ PendingOrLost(x)'
    BY <2>1, <2>2 DEF FreshInv, Heard, SameItem, PendingOrLost
  <2>4. \A x \in Heard' : x.fresh /\ PendingOrLost(x)'
    BY <2>1, <2>3 DEF FreshInv, Heard, PendingOrLost
  <2>5. hand' # None => \A y \in Told(port') : y.block = hand'.block => y.block \notin Blocks
    BY <2>1, <2>2 DEF FreshInv, SameItem
  <2>. QED
    BY <1>2, <2>1, <2>4, <2>5 DEF FreshInv
<1>. QED
  BY <1>1, <1>3, <1>4, <1>5, PortStep DEF SocketInv, ThreadTypes

LEMMA TickStep ==
  ASSUME SocketInv, NEW b \in Blocks, Tick(b)
  PROVE  SocketInv'
<1>. PICK c \in {"due", "after"} : block' = [block EXCEPT ![b].clock = c]
  BY DEF Tick
<1>1. /\ \E i \in Idents : b \in incoming[i]
      /\ block[b].clock \in {"before", "due"}
      /\ UNCHANGED <<socketVars, initial, outgoing, portVars, threadVars, op, offAt>>
  BY DEF Tick
<1>2. Live(b) /\ block[b] \in Taken
  BY <1>1, BlockStates DEF SocketInv, ListInv, IncomingInv, Listed
<1>3. block[b].kind # "accept" /\ Finite
  BY <1>1 DEF SocketInv, ClockInv, FreshInv
<1>4. /\ block'[b] \in Taken /\ block'[b].kind = block[b].kind /\ block'[b].ident = block[b].ident
      /\ block'[b].own = block[b].own
      /\ \A d \in Blocks : d # b => block'[d] = block[d]
      /\ block' \in [Blocks -> {Free, Lost} \cup Taken]
  BY <1>2 DEF SocketInv, ListTypes, Taken
<1>5. UNCHANGED <<issued, open, invoking, incoming, delay, listeners, accepts, marks, initial, outgoing,
                  port, hand, portOn, initAt, at, serving, op, offAt>>
  BY <1>1 DEF socketVars, portVars, threadVars
<1>6. Changes(b)
  BY <1>2, <1>3, <1>4 DEF Changes
<1>7. /\ \A d \in Blocks : Live(d)' <=> Live(d)
      /\ \A d \in Blocks : block'[d].ident = block[d].ident
      /\ \A d \in Blocks : Listed(d)' <=> Listed(d)
      /\ SameServed /\ ClockInv'
      /\ \A j : UnderWay(j)' = UnderWay(j)
      /\ \A d : Served(d)' <=> Served(d)
  BY <1>5, <1>6, ChangedBlock
<1>8. SocketTypes' /\ ListTypes' /\ PortTypes' /\ ThreadTypes'
  BY <1>4, <1>5 DEF SocketInv, SocketTypes, ListTypes, PortTypes, ThreadTypes
<1>9. OffInv'
  BY <1>5 DEF SocketInv, OffInv, InCallback
<1>10. ListInv'
  <2>1. InitialInv' /\ OutgoingInv'
    BY <1>5, <1>7, ListsHoldBlocks DEF SocketInv, ListInv, InitialInv, OutgoingInv
  <2>2. IncomingInv'
    <3>1. \A j \in Idents : \A d \in incoming[j] : d \in Blocks
      BY DEF SocketInv, SocketTypes
    <3>. QED
      BY <1>5, <1>7, <3>1 DEF SocketInv, ListInv, IncomingInv
  <2>3. ServedInv' /\ FoundInv'
    BY <1>5, <1>7, Constants DEF SocketInv, ThreadTypes, ListInv, ServedInv, FoundInv
  <2>. QED
    BY <2>1, <2>2, <2>3 DEF ListInv
<1>11. CountInv' /\ IdentKept' /\ KnownInv'
  BY <1>5, <1>7, CountFrame, KnownFrame DEF SocketInv, HandleOpen
<1>12. AcceptsInv'
  BY <1>5, <1>7, AcceptsKept DEF SocketInv
<1>. QED
  BY <1>3, <1>7, <1>8, <1>9, <1>10, <1>11, <1>12 DEF SocketInv

LEMMA CompleteStep ==
  ASSUME SocketInv, Complete
  PROVE  SocketInv'
<1>. PICK i, b : i = hand.key /\ b = hand.block
  OBVIOUS
<1>1. /\ hand # None /\ hand' = None
      /\ UNCHANGED <<issued, open, invoking, delay, listeners, accepts, marks, initial, port, portOn,
                     initAt, at, serving, op, offAt>>
  BY DEF Complete, threadVars
<1>2. \/ /\ i \in open /\ b \in incoming[i]
         /\ incoming' = [incoming EXCEPT ![i] = @ \ {b}]
         /\ block' = [block EXCEPT ![b] = Ended(@, hand.err)]
         /\ outgoing' = Append(outgoing, b)
      \/ ~(i \in open /\ b \in incoming[i]) /\ UNCHANGED <<incoming, block, outgoing>>
  BY DEF Complete
<1>3. hand \in Items(Keys, Overlaps) /\ hand.err \in BOOLEAN
  BY <1>1 DEF SocketInv, PortTypes, Items
<1>4. PortTypes' /\ ThreadTypes'
  BY <1>1 DEF SocketInv, PortTypes, ThreadTypes
<1>5. OffInv'
  BY <1>1 DEF SocketInv, OffInv, InCallback
<1>6. CASE ~(i \in open /\ b \in incoming[i]) /\ UNCHANGED <<incoming, block, outgoing>>
  <2>1. SocketTypes' /\ ListTypes'
    BY <1>1, <1>6 DEF SocketInv, SocketTypes, ListTypes
  <2>2. ListInv'
    BY <1>1, <1>6, ListFrame DEF SocketInv
  <2>3. CountInv' /\ IdentKept' /\ ClockInv'
    BY <1>1, <1>6, CountFrame DEF SameServed, SocketInv, ClockInv
  <2>4. AcceptsInv'
    BY <1>1, <1>6, AcceptsFrame DEF SocketInv
  <2>5. \A j \in Idents : \A d \in incoming[j] : j \in open
    BY DEF SocketInv, ListInv, IncomingInv, Listed
  <2>6. KnownInv'
    BY <1>1, <1>6, <2>5 DEF SocketInv, KnownInv, InHand, HandleOpen
  <2>7. ~Finite => FreshInv'
    BY <1>1, <1>6 DEF SocketInv, FreshInv, Heard, PendingOrLost
  <2>. QED
    BY <1>4, <1>5, <2>1, <2>2, <2>3, <2>4, <2>6, <2>7 DEF SocketInv
<1>7. CASE /\ i \in open /\ b \in incoming[i]
           /\ incoming' = [incoming EXCEPT ![i] = @ \ {b}]
           /\ block' = [block EXCEPT ![b] = Ended(@, hand.err)]
           /\ outgoing' = Append(outgoing, b)
  <2>1. i \in Idents /\ b \in Blocks
    BY <1>7 DEF SocketInv, SocketTypes
  <2>2. /\ Listed(b) /\ block[b].ident = i /\ Live(b) /\ block[b] \in Taken /\ ~Served(b)
        /\ b \notin Elements(initial) /\ b \notin Elements(outgoing)
        /\ \A j \in Idents : j # i => b \notin incoming[j]
    <3>1. Listed(b) /\ block[b].ident = i
      BY <1>7, <2>1 DEF SocketInv, ListInv, IncomingInv
    <3>. QED
      BY <1>7, <2>1, <3>1, BlockStates
         DEF SocketInv, ListInv, InitialInv, OutgoingInv, IncomingInv, Listed
  <2>3. PICK e \in BOOLEAN : e = hand.err
    BY <1>3
  <2>4. /\ block'[b] = Ended(block[b], e) /\ block' \in [Blocks -> {Free, Lost} \cup Taken]
        /\ \A d \in Blocks : d # b => block'[d] = block[d]
    BY <1>7, <2>1, <2>2, <2>3, EndedBlock DEF SocketInv, ListTypes
  <2>5. Changes(b)
    BY <2>1, <2>2, <2>3, <2>4, EndedBlock DEF Changes
  <2>6. /\ \A d \in Blocks : Live(d)' <=> Live(d)
        /\ \A d \in Blocks : block'[d].ident = block[d].ident
        /\ \A d \in Blocks : Listed(d)' <=> Listed(d)
        /\ \A d \in Blocks : block'[d] = Lost <=> block[d] = Lost
        /\ SameServed /\ ClockInv'
        /\ \A j : UnderWay(j)' = UnderWay(j)
        /\ \A d : Served(d)' <=> Served(d)
        /\ ~Finite => \A d \in Blocks : block'[d].clock = "never"
    BY <1>1, <2>5, ChangedBlock
  <2>7. /\ incoming' \in [Idents -> SUBSET Blocks]
        /\ \A j \in Idents : incoming'[j] = IF j = i THEN incoming[j] \ {b} ELSE incoming[j]
    BY <1>7, <2>1 DEF SocketInv, SocketTypes
  <2>8. /\ outgoing' \in Seq(Blocks) /\ Elements(outgoing') = Elements(outgoing) \cup {b}
        /\ OnceEach(outgoing')
    BY <1>7, <2>1, <2>2, ListGrows DEF SocketInv, ListTypes, ListInv, OutgoingInv
  <2>9. SocketTypes' /\ ListTypes'
    BY <1>1, <2>4, <2>7, <2>8 DEF SocketInv, SocketTypes, ListTypes
  <2>10. ListInv'
    <3>1. InitialInv'
      BY <1>1, <2>2, <2>6, <2>7, <2>8, ListsHoldBlocks DEF SocketInv, ListInv, InitialInv
    <3>2. OutgoingInv'
      BY <2>1, <2>2, <2>6, <2>7, <2>8, ListsHoldBlocks DEF SocketInv, ListInv, OutgoingInv
    <3>3. IncomingInv'
      <4>1. \A j \in Idents : \A d \in incoming'[j] : d \in incoming[j] /\ d \in Blocks
        BY <2>7
      <4>. QED
        BY <2>6, <4>1 DEF SocketInv, ListInv, IncomingInv
    <3>4. ServedInv'
      BY <1>1, <2>6, Constants DEF SocketInv, ThreadTypes, ListInv, ServedInv
    <3>5. FoundInv'
      <4>. SUFFICES ASSUME NEW d \in Blocks, Live(d)
                    PROVE  \/ d \in Elements(initial) \/ d \in Elements(outgoing')
                           \/ d \in incoming'[block[d].ident] \/ Served(d)
        BY <1>1, <2>6 DEF FoundInv
      <4>1. block[d].ident \in Idents
        BY BlockStates DEF SocketInv
      <4>. QED
        BY <2>7, <2>8, <4>1 DEF SocketInv, ListInv, FoundInv
    <3>. QED
      BY <3>1, <3>2, <3>3, <3>4, <3>5 DEF ListInv
  <2>11. CountInv' /\ IdentKept'
    BY <1>1, <2>6, CountFrame
  <2>12. KnownInv'
    <3>1. \A j \in Idents : \A d \in incoming'[j] : d # b /\ d \in incoming[j]
      BY <2>2, <2>7
    <3>. QED
      BY <1>1, <3>1 DEF SocketInv, KnownInv, InHand, HandleOpen
  <2>13. AcceptsInv'
    BY <1>1, <2>6, AcceptsKept DEF SocketInv
  <2>14. ASSUME ~Finite PROVE FreshInv'
    <3>1. FreshInv /\ Heard' = Told(port) /\ Told(port) \subseteq Heard
      BY <1>1, <2>14 DEF SocketInv, Heard
    <3>2. \A x \in Told(port) : x.block # b /\ PendingOrLost(x)
      BY <1>1, <2>1, <3>1 DEF FreshInv
    <3>3. \A x \in Told(port) : PendingOrLost(x)'
      BY <2>6, <2>7, <3>2 DEF PendingOrLost
    <3>. QED
      BY <1>1, <2>6, <2>14, <3>1, <3>3 DEF FreshInv
  <2>. QED
    BY <1>4, <1>5, <2>6, <2>9, <2>10, <2>11, <2>12, <2>13, <2>14 DEF SocketInv
<1>. QED
  BY <1>2, <1>6, <1>7

-----------------------------------------------------------------------------
(* close, first half.                                                      *)

LEMMA WithoutList ==
  ASSUME NEW S, NEW s \in Seq(S), NEW B, OnceEach(s)
  PROVE  /\ Without(s, B) \in Seq(S) /\ OnceEach(Without(s, B))
         /\ Elements(Without(s, B)) = Elements(s) \ B
<1>. DEFINE K == {n \in DOMAIN s : s[n] \notin B}
<1>1. K \in SUBSET DOMAIN s
  OBVIOUS
<1>2. Without(s, B) = Kept(s, K)
  BY DEF Without
<1>3. Elements(s) \ B = {s[k] : k \in K}
  BY DEF Elements
<1>. HIDE DEF K
<1>. QED
  BY <1>1, <1>2, <1>3, KeptElements

\* What close makes of the lists.
Empties(i) ==
  /\ i \in open /\ open' = open \ {i}
  /\ incoming' = [incoming EXCEPT ![i] = {}]
  /\ initial' = Without(initial, Swept(i)) /\ outgoing' = Without(outgoing, Swept(i))
  /\ block' = [b \in Blocks |-> IF b \in Swept(i) THEN Free
                                ELSE IF b \in incoming[i] THEN Lost
                                ELSE IF b \in BlocksOf(i) THEN [block[b] EXCEPT !.own = FALSE]
                                ELSE block[b]]
  /\ UNCHANGED serving

LEMMA EmptiedBlocks ==
  ASSUME SocketInv, NEW i, Empties(i)
  PROVE  /\ i \in Idents /\ block' \in [Blocks -> {Free, Lost} \cup Taken]
         /\ \A b \in Blocks : Live(b) /\ block[b].ident = i =>
              /\ b \notin Swept(i) /\ b \notin incoming[i] <=> Served(b)
              /\ Served(b) => /\ block'[b].kind = block[b].kind /\ block'[b].ident = i
                              /\ block'[b].clock = block[b].clock
              /\ ~Served(b) => block'[b] \in {Free, Lost}
              /\ ~Served(b) => block'[b] = IF b \in incoming[i] THEN Lost ELSE Free
         /\ \A b \in Blocks : ~(Live(b) /\ block[b].ident = i) =>
              b \notin Swept(i) /\ b \notin incoming[i] /\ block'[b] = block[b]
<1>. USE DEF Empties
<1>1. i \in Idents
  BY DEF SocketInv, SocketTypes
<1>2. \A b \in Blocks : b \in BlocksOf(i) <=> Live(b) /\ block[b].ident = i
  BY <1>1, BlockStates DEF SocketInv
<1>3. \A b \in incoming[i] : b \in BlocksOf(i) /\ ~Served(b) /\ b \in Blocks /\ b \notin Swept(i)
  <2>1. \A b \in incoming[i] : Listed(b) /\ block[b].ident = i /\ b \in Blocks
    BY <1>1 DEF SocketInv, ListInv, IncomingInv, SocketTypes
  <2>2. \A b \in incoming[i] : b \notin Elements(initial) /\ b \notin Elements(outgoing)
    BY <1>1 DEF SocketInv, ListInv, InitialInv, OutgoingInv
  <2>. QED
    BY <1>2, <2>1, <2>2 DEF Listed, Swept
<1>4. \A b \in Swept(i) : b \in BlocksOf(i) /\ ~Served(b)
  BY DEF Swept, SocketInv, ListInv, InitialInv, OutgoingInv, Listed
<1>5. \A b \in BlocksOf(i) : b \in Swept(i) \/ b \in incoming[i] \/ Served(b)
  <2>1. \A b \in BlocksOf(i) : b \in Blocks /\ Live(b) /\ block[b].ident = i
    BY <1>2 DEF BlocksOf
  <2>. QED
    BY <2>1 DEF SocketInv, ListInv, FoundInv, Swept
<1>6. ASSUME NEW b \in Blocks, b \in BlocksOf(i), b \notin Swept(i), b \notin incoming[i]
      PROVE  /\ block'[b] \in Taken /\ block'[b].kind = block[b].kind
             /\ block'[b].ident = block[b].ident /\ block'[b].clock = block[b].clock
  <2>1. block'[b] = [block[b] EXCEPT !.own = FALSE]
    BY <1>6
  <2>2. block[b] \in Taken
    BY <1>2, <1>6, BlockStates DEF SocketInv
  <2>. QED
    BY <2>1, <2>2 DEF Taken
<1>7. \A b \in Blocks : b \notin BlocksOf(i) =>
        b \notin Swept(i) /\ b \notin incoming[i] /\ block'[b] = block[b]
  BY <1>3, <1>4
<1>8. /\ \A b \in Swept(i) : b \in Blocks => block'[b] = Free
      /\ \A b \in incoming[i] : block'[b] = Lost
  BY <1>3
<1>9. block' \in [Blocks -> {Free, Lost} \cup Taken]
  <2>1. \A b \in Blocks : block'[b] \in {Free, Lost} \cup Taken
    BY <1>6, <1>7, <1>8 DEF SocketInv, ListTypes
  <2>2. DOMAIN block' = Blocks /\ block' = [b \in Blocks |-> block'[b]]
    OBVIOUS
  <2>. HIDE DEF Empties
  <2>. QED
    BY <2>1, <2>2
<1>. HIDE DEF Empties
<1>. QED
  BY <1>1, <1>2, <1>3, <1>4, <1>5, <1>6, <1>7, <1>8, <1>9

LEMMA EmptiedLists ==
  ASSUME SocketInv, NEW i, Empties(i)
  PROVE  /\ ListTypes' /\ ListInv' /\ ClockInv'
         /\ incoming' \in [Idents -> SUBSET Blocks]
         /\ \A j \in Idents : incoming'[j] = IF j = i THEN {} ELSE incoming[j]
         /\ \A j \in Idents : j # i => UnderWay(j)' = UnderWay(j)
         /\ \A x \in Callers : serving[x] # None =>
              /\ block'[serving[x]].ident = block[serving[x]].ident
              /\ block[serving[x]].ident # i => block'[serving[x]] = block[serving[x]]
<1>1. /\ i \in Idents /\ block' \in [Blocks -> {Free, Lost} \cup Taken]
      /\ \A b \in Blocks : Live(b) /\ block[b].ident = i =>
           /\ b \notin Swept(i) /\ b \notin incoming[i] <=> Served(b)
           /\ Served(b) => /\ block'[b].kind = block[b].kind /\ block'[b].ident = i
                           /\ block'[b].clock = block[b].clock
           /\ ~Served(b) => block'[b] \in {Free, Lost}
      /\ \A b \in Blocks : ~(Live(b) /\ block[b].ident = i) =>
           b \notin Swept(i) /\ b \notin incoming[i] /\ block'[b] = block[b]
  BY EmptiedBlocks
<1>2. /\ incoming' \in [Idents -> SUBSET Blocks]
      /\ \A j \in Idents : incoming'[j] = IF j = i THEN {} ELSE incoming[j]
  BY <1>1 DEF Empties, SocketInv, SocketTypes
<1>3. /\ initial' \in Seq(Blocks) /\ OnceEach(initial')
      /\ Elements(initial') = Elements(initial) \ Swept(i)
      /\ outgoing' \in Seq(Blocks) /\ OnceEach(outgoing')
      /\ Elements(outgoing') = Elements(outgoing) \ Swept(i)
  BY WithoutList DEF Empties, SocketInv, ListTypes, ListInv, InitialInv, OutgoingInv
<1>4. ListTypes'
  BY <1>1, <1>3 DEF ListTypes
<1>5. \A b : Served(b)' <=> Served(b)
  BY DEF Served, Empties
<1>6. \A b \in Blocks : Live(b)' <=> Live(b) /\ (block[b].ident = i => Served(b))
  <2>1. \A b \in Blocks : block'[b] \in {Free, Lost} => ~Live(b)'
    BY DEF Free, Lost, Live
  <2>. QED
    BY <1>1, <2>1 DEF Live
<1>7. \A b \in Blocks : Listed(b) /\ block[b].ident # i => Listed(b)'
  <2>1. open' = open \ {i}
    BY DEF Empties
  <2>. QED
    BY <1>1, <1>5, <1>6, <2>1 DEF Listed
<1>8. \A b \in Elements(initial') \cup Elements(outgoing') : b \in Blocks /\ block[b].ident # i
  <2>1. \A b \in Elements(initial') \cup Elements(outgoing') :
          b \in Blocks /\ b \notin Swept(i) /\ Listed(b) /\ b \notin incoming[i]
    BY <1>1, <1>3, ListsHoldBlocks DEF SocketInv, ListInv, InitialInv, OutgoingInv
  <2>. QED
    BY <1>1, <2>1 DEF Listed
<1>9. InitialInv' /\ OutgoingInv'
  BY <1>2, <1>3, <1>7, <1>8 DEF SocketInv, ListInv, InitialInv, OutgoingInv
<1>10. IncomingInv'
  <2>1. \A j \in Idents : \A b \in incoming'[j] : j # i /\ b \in incoming[j] /\ b \in Blocks
    BY <1>2
  <2>. QED
    BY <1>1, <1>7, <2>1 DEF SocketInv, ListInv, IncomingInv
<1>11. ServedInv'
  <2>1. \A x \in Callers : serving[x] # None => serving[x] \in Blocks /\ Served(serving[x])
    BY DEF SocketInv, ThreadTypes, Served
  <2>. QED
    BY <1>6, <2>1 DEF SocketInv, ListInv, ServedInv, Empties
<1>12. FoundInv'
  <2>. SUFFICES ASSUME NEW b \in Blocks, Live(b)', ~Served(b)
                PROVE  \/ b \in Elements(initial') \/ b \in Elements(outgoing')
                       \/ b \in incoming'[block'[b].ident]
    BY <1>5 DEF FoundInv
  <2>1. /\ Live(b) /\ block[b].ident # i /\ block'[b] = block[b] /\ block[b].ident \in Idents
        /\ b \notin Swept(i)
    BY <1>1, <1>6, BlockStates DEF SocketInv
  <2>. QED
    BY <1>2, <1>3, <2>1 DEF SocketInv, ListInv, FoundInv
<1>13. ClockInv'
  <2>1. \A b \in Blocks : block'[b] \in {Free, Lost} => block'[b].kind # "accept"
    BY DEF Free, Lost
  <2>. QED
    BY <1>1, <2>1 DEF SocketInv, ClockInv
<1>14. \A j \in Idents : j # i => UnderWay(j)' = UnderWay(j)
  <2>1. ASSUME NEW j \in Idents, j # i, NEW b \in Blocks
        PROVE  b \in UnderWay(j)' <=> b \in UnderWay(j)
    <3>1. Live(b) /\ block[b].ident = i => ~(Live(b)' /\ block'[b].ident = j)
      BY <1>1, <1>6, <2>1
    <3>. QED
      BY <1>1, <1>5, <1>6, <2>1, <3>1 DEF UnderWay
  <2>2. \A j : UnderWay(j) \subseteq Blocks /\ UnderWay(j)' \subseteq Blocks
    BY DEF UnderWay
  <2>. QED
    BY <2>1, <2>2
<1>15. \A x \in Callers : serving[x] # None =>
         /\ block'[serving[x]].ident = block[serving[x]].ident
         /\ block[serving[x]].ident # i => block'[serving[x]] = block[serving[x]]
  <2>1. \A x \in Callers : serving[x] # None => serving[x] \in Blocks /\ Served(serving[x])
    BY DEF SocketInv, ThreadTypes, Served
  <2>. QED
    BY <1>1, <2>1
<1>. QED
  BY <1>2, <1>4, <1>9, <1>10, <1>11, <1>12, <1>13, <1>14, <1>15 DEF ListInv

LEMMA CloseStep ==
  ASSUME SocketInv, NEW a \in Actors, NEW i \in Idents, Close(a, i)
  PROVE  SocketInv'
<1>. PICK gone, q : gone = Swept(i) /\ q = CancelAll(port, i)
  OBVIOUS
<1>1. /\ CanCall(a) /\ HandleOpen
      /\ delay' = [delay EXCEPT ![i] = @ + invoking[i]]
      /\ invoking' = [invoking EXCEPT ![i] = 0]
      /\ port' = Recycled(q, gone) /\ hand' = HandAfter(gone)
      /\ marks' = [marks EXCEPT ![i] = {}]
      /\ UNCHANGED <<issued, listeners, accepts, portOn, initAt, at, serving, offAt>>
  BY DEF Close, Delay, threadVars
<1>2. op' = [op EXCEPT ![a] = [name |-> "close", ident |-> i, delayed |-> (invoking[i] > 0)]]
  BY DEF Close, Half
<1>3. Empties(i)
  BY <1>1 DEF Close, Empties
<1>4. i \in open /\ open' = open \ {i}
  BY <1>3 DEF Empties
<1>5. /\ ListTypes' /\ ListInv' /\ ClockInv'
      /\ incoming' \in [Idents -> SUBSET Blocks]
      /\ \A j \in Idents : incoming'[j] = IF j = i THEN {} ELSE incoming[j]
      /\ \A j \in Idents : j # i => UnderWay(j)' = UnderWay(j)
      /\ \A x \in Callers : serving[x] # None =>
           /\ block'[serving[x]].ident = block[serving[x]].ident
           /\ block[serving[x]].ident # i => block'[serving[x]] = block[serving[x]]
  BY <1>3, EmptiedLists
<1>6. /\ q \in Ports(Keys, Overlaps) /\ Told(q) \subseteq Told(port)
      /\ \A k, b : Knows(port, k, b) /\ k # i => Knows(q, k, b)
      /\ OneItem(port, Blocks) => OneItem(q, Blocks)
  BY PortCancelsAll DEF SocketInv, PortTypes
<1>7. PortGives(q, gone)
  BY <1>1, <1>6 DEF PortGives
<1>8. /\ PortTypes'
      /\ \A k, b : Knows(q, k, b) /\ b \notin gone => Knows(port', k, b)
      /\ \A k, b : InHand(k, b) /\ b \notin gone => InHand(k, b)'
      /\ hand = None => hand' = None
  BY <1>7, GivenBack DEF SocketInv
<1>9. invoking[i] \in Nat /\ invoking[i] = Cardinality(Serving(i)) /\ delay[i] = 0
  <2>1. invoking[i] = Cardinality(Serving(i)) /\ delay[i] = 0
    BY <1>4 DEF SocketInv, CountInv, Calls
  <2>. QED
    BY <2>1, ServingCounts
<1>. PICK o : o = op'[a]
  OBVIOUS
<1>10. /\ o \in HalfDone /\ o.name = "close" /\ o.ident = i /\ (o.delayed <=> invoking[i] > 0)
       /\ op' = [op EXCEPT ![a] = o]
       /\ \A c \in Actors : op'[c] = IF c = a THEN o ELSE op[c]
  <2>1. (invoking[i] > 0) \in BOOLEAN
    OBVIOUS
  <2>. QED
    BY <1>2, <2>1 DEF SocketInv, ThreadTypes, HalfDone
<1>11. ThreadTypes' /\ OffInv'
  BY <1>1, <1>8, <1>10, OpChanges
<1>12. SocketTypes'
  <2>1. delay' \in [Idents -> Int] /\ invoking' \in [Idents -> Int]
    BY <1>1 DEF SocketInv, SocketTypes
  <2>2. marks' \in [Idents -> SUBSET Marks]
    BY <1>1 DEF SocketInv, SocketTypes
  <2>. QED
    BY <1>1, <1>4, <1>5, <2>1, <2>2 DEF SocketInv, SocketTypes
<1>13. op[a] = NoOp
  BY <1>1 DEF CanCall
<1>14. /\ \A c \in Actors, j \in Idents : c # a => (Closing(c, j)' <=> Closing(c, j))
       /\ \A j \in Idents : ~Closing(a, j)
       /\ \A j \in Idents : Closing(a, j)' <=> j = i /\ invoking[i] = 0
  <2>1. \A c \in Actors, j \in Idents : c # a => (Closing(c, j)' <=> Closing(c, j))
    BY <1>10 DEF Closing
  <2>2. \A j \in Idents : ~Closing(a, j)
    BY <1>13 DEF Closing, Half, NoOp
  <2>3. \A j \in Idents : Closing(a, j)' <=> j = i /\ ~o.delayed
    <3>1. ASSUME NEW j \in Idents
          PROVE  o = [name |-> "close", ident |-> j, delayed |-> FALSE] <=> j = i /\ ~o.delayed
      <4>1. o \in HalfDone /\ o.name = "close" /\ o.ident = i
        BY <1>10
      <4>2. j = i /\ ~o.delayed => o = [name |-> "close", ident |-> j, delayed |-> FALSE]
        BY <4>1 DEF HalfDone
      <4>3. o = [name |-> "close", ident |-> j, delayed |-> FALSE] => j = i
        BY <4>1 DEF HalfDone
      <4>4. o = [name |-> "close", ident |-> j, delayed |-> FALSE] => o.delayed = FALSE
        BY DEF HalfDone
      <4>. QED
        BY <4>2, <4>3, <4>4
    <3>2. op'[a] = o
      BY <1>10
    <3>. QED
      BY <3>1, <3>2 DEF Closing, Half
  <2>. QED
    BY <1>9, <1>10, <2>1, <2>2, <2>3
<1>15. CountInv'
  <2>1. ASSUME NEW j \in Idents PROVE Serving(j)' = Serving(j)
    BY <1>1, <1>5 DEF Serving
  <2>2. \A j \in Idents : /\ delay'[j] = IF j = i THEN invoking[i] ELSE delay[j]
                          /\ invoking'[j] = IF j = i THEN 0 ELSE invoking[j]
    BY <1>1, <1>9 DEF SocketInv, SocketTypes
  <2>3. ASSUME NEW j \in Idents PROVE Calls(j)' = Cardinality(Serving(j)')
    <3>1. Calls(j) = Cardinality(Serving(j))
      BY DEF SocketInv, CountInv
    <3>. QED
      BY <1>4, <1>9, <2>1, <2>2, <3>1 DEF Calls
  <2>4. IssuedInv'
    <3>1. \A j \in Idents : j \in issued <=> \/ j \in open \/ delay[j] > 0
                                             \/ \E c \in Actors : Closing(c, j)
      BY DEF SocketInv, CountInv, IssuedInv
    <3>2. i \in issued'
      BY <1>1, <1>4, <3>1
    <3>3. delay'[i] > 0 \/ Closing(a, i)'
      BY <1>9, <1>14, <2>2
    <3>4. \A j \in Idents : j # i =>
            (\E c \in Actors : Closing(c, j)') <=> (\E c \in Actors : Closing(c, j))
      BY <1>14
    <3>5. \A j \in Idents : j # i => (j \in issued' <=> j \in issued) /\ (j \in open' <=> j \in open)
                                     /\ delay'[j] = delay[j]
      BY <1>1, <1>4, <2>2
    <3>. QED
      BY <3>1, <3>2, <3>3, <3>4, <3>5 DEF IssuedInv
  <2>5. \A j \in Idents : IF j \in open' THEN delay'[j] = 0 ELSE invoking'[j] = 0
    BY <1>4, <2>2 DEF SocketInv, CountInv
  <2>6. \A c \in Actors, j \in Idents : Closing(c, j)' =>
          j \notin open' /\ delay'[j] = 0 /\ \A d \in Actors : Closing(d, j)' => d = c
    <3>1. \A c \in Actors, j \in Idents : Closing(c, j) => 
            j \notin open /\ delay[j] = 0 /\ \A d \in Actors : Closing(d, j) => d = c
      BY DEF SocketInv, CountInv
    <3>2. \A c \in Actors : ~Closing(c, i)
      BY <1>4, <3>1
    <3>. QED
      BY <1>4, <1>14, <2>2, <3>1, <3>2
  <2>. QED
    BY <2>3, <2>4, <2>5, <2>6 DEF CountInv
<1>16. IdentKept'
  <2>1. \A x \in Callers : serving'[x] # None /\ block'[serving'[x]].ident \in open'
          => block'[serving'[x]].own
    BY <1>1, <1>4, <1>5 DEF SocketInv, IdentKept
  <2>. QED
    BY <2>1 DEF IdentKept
<1>17. \A b \in gone : b \in Blocks /\ block[b] # Lost /\ \A j \in Idents : b \notin incoming[j]
  BY DEF Swept, BlocksOf, SocketInv, ListInv, InitialInv, OutgoingInv, Listed, Live, Lost, Free
<1>18. KnownInv'
  BY <1>1, <1>5, <1>6, <1>8, <1>17 DEF SocketInv, KnownInv, HandleOpen
<1>19. AcceptsInv'
  <2>1. \A j \in Idents : InClose(j)' <=> InClose(j) \/ j = i
    BY <1>10, <1>13 DEF InClose, NoOp
  <2>2. \A j \in Idents : InListen(j) => InListen(j)'
    <3>1. \A j : op[a] # Half("listen", j, FALSE)
      BY <1>13 DEF Half, NoOp
    <3>. QED
      BY <1>10, <3>1 DEF InListen
  <2>3. \A j \in open' : j \in Idents /\ j # i /\ j \in open
    BY <1>4 DEF SocketInv, SocketTypes
  <2>4. \A j \in open' : (Crossed(j)' <=> Crossed(j)) /\ marks'[j] = marks[j]
    BY <1>1, <2>3 DEF SocketInv, SocketTypes, Crossed
  <2>5. \A j \in open' : Counted(j) => Counted(j)'
    BY <1>1, <1>5, <2>2, <2>3, <2>4 DEF Counted
  <2>6. \A j \in Idents : j \notin open' /\ ~InClose(j)' => accepts'[j] = 0
    BY <1>1, <1>4, <2>1 DEF SocketInv, AcceptsInv
  <2>. QED
    BY <2>1, <2>3, <2>4, <2>5, <2>6 DEF SocketInv, AcceptsInv
<1>20. ASSUME ~Finite PROVE FreshInv'
  <2>1. FreshInv /\ PortTypes /\ initAt' # "call"
    BY <1>1, <1>20 DEF SocketInv, FreshInv
  <2>2. \A b \in Blocks : block'[b].clock = "never"
    <3>1. /\ \A b \in Blocks : Live(b) /\ block[b].ident = i =>
               /\ Served(b) => block'[b].clock = block[b].clock
               /\ ~Served(b) => block'[b] \in {Free, Lost}
          /\ \A b \in Blocks : ~(Live(b) /\ block[b].ident = i) => block'[b] = block[b]
      BY <1>3, EmptiedBlocks
    <3>2. Free.clock = "never" /\ Lost.clock = "never"
      BY DEF Free, Lost
    <3>3. \A b \in Blocks : block[b].clock = "never"
      BY <2>1 DEF FreshInv
    <3>. QED
      BY <3>1, <3>2, <3>3
  <2>3. \A b \in Blocks : block[b] = Lost \/ b \in incoming[i] => block'[b] = Lost
    <3>1. /\ \A b \in Blocks : Live(b) /\ block[b].ident = i /\ ~Served(b) =>
               block'[b] = IF b \in incoming[i] THEN Lost ELSE Free
          /\ \A b \in Blocks : ~(Live(b) /\ block[b].ident = i) => block'[b] = block[b]
      BY <1>3, EmptiedBlocks
    <3>2. \A b \in incoming[i] : Live(b) /\ block[b].ident = i /\ ~Served(b)
      BY DEF SocketInv, ListInv, IncomingInv, Listed
    <3>3. \A b \in Blocks : block[b] = Lost => ~Live(b)
      BY DEF Live, Lost, Free
    <3>. QED
      BY <3>1, <3>2, <3>3
  <2>4. \A x : x.block \notin gone /\ PendingOrLost(x) => PendingOrLost(x)'
    <3>. SUFFICES ASSUME NEW x, x.block \in Blocks, PendingOrLost(x)
                  PROVE  block'[x.block] = Lost \/ (x.key \in Idents /\ x.block \in incoming'[x.key])
      BY DEF PendingOrLost
    <3>1. block[x.block] = Lost \/ (x.key \in Idents /\ x.block \in incoming[x.key])
      BY DEF PendingOrLost
    <3>2. CASE block[x.block] = Lost
      BY <2>3, <3>2
    <3>3. CASE x.key \in Idents /\ x.block \in incoming[x.key]
      BY <1>5, <2>3, <3>3
    <3>. QED
      BY <3>1, <3>2, <3>3
  <2>. QED
    BY <1>6, <1>7, <1>17, <2>1, <2>2, <2>4, FreshAfter
<1>. QED
  BY <1>5, <1>8, <1>11, <1>12, <1>15, <1>16, <1>18, <1>19, <1>20 DEF SocketInv

-----------------------------------------------------------------------------
(* The owner.                                                              *)

LEMMA OffPostQuitStep ==
  ASSUME SocketInv, OffPostQuit
  PROVE  SocketInv'
<1>1. /\ offAt = "stopInit" /\ initAt = "ended" /\ offAt' = "quit" /\ port' = Posted(port, Quit)
      /\ UNCHANGED <<socketVars, listVars, hand, portOn, threadVars, op>>
  BY DEF OffPostQuit
<1>2. Quit \in Items(Keys, Overlaps) /\ Quit.block = None /\ Quit.fresh
  BY Constants, SizesAssumption DEF Quit, Items, Keys, Overlaps
<1>3. /\ port' \in Ports(Keys, Overlaps) /\ Told(port') = Told(port) \cup {Quit}
      /\ OneItem(port, Blocks) => OneItem(port', Blocks)
  <2>1. /\ port \in Ports(Keys, Overlaps)
        /\ \/ port' = [port EXCEPT !.waiting = Append(@, Quit)]
           \/ port' = [port EXCEPT !.done = Append(@, Quit)]
    BY <1>1 DEF SocketInv, PortTypes, Posted
  <2>2. /\ port' \in Ports(Keys, Overlaps) /\ Told(port') = Told(port) \cup {Quit}
        /\ \A Cs : OneItem(port, Cs)
                   /\ (\A y \in Told(port) : y.block = Quit.block => Quit.block \notin Cs)
                      => OneItem(port', Cs)
    BY <1>2, <2>1, PortAdds
  <2>. QED
    BY <1>2, <2>2, Constants
<1>4. PortTypes' /\ (~portOn' => hand' = None)
  BY <1>1, <1>3 DEF SocketInv, PortTypes, OffInv
<1>5. OffInv'
  BY <1>1 DEF SocketInv, OffInv, InCallback, threadVars
<1>6. KnownInv'
  BY <1>1, <1>3 DEF SocketInv, KnownInv, Knows, HandleOpen, InHand, socketVars
<1>7. ASSUME ~Finite PROVE FreshInv'
  <2>1. FreshInv /\ UNCHANGED <<block, incoming, initAt, hand>>
    BY <1>1, <1>7 DEF SocketInv, socketVars, listVars, threadVars
  <2>2. Heard' = Heard \cup {Quit}
    BY <1>3, <2>1 DEF Heard
  <2>3. \A x \in Heard' : x.fresh /\ PendingOrLost(x)'
    BY <1>2, <2>1, <2>2, Constants DEF FreshInv, PendingOrLost
  <2>4. hand' # None => \A y \in Told(port') : y.block = hand'.block => y.block \notin Blocks
    BY <1>2, <1>3, <2>1, Constants DEF FreshInv
  <2>. QED
    BY <1>3, <2>1, <2>3, <2>4 DEF FreshInv
<1>. QED
  BY <1>1, <1>4, <1>5, <1>6, <1>7, PortStep

LEMMA OffClosePortStep ==
  ASSUME SocketInv, OffClosePort
  PROVE  SocketInv'
<1>1. /\ offAt = "quit" /\ ~portOn /\ offAt' = "pool" /\ port' = NewPort
      /\ UNCHANGED <<socketVars, listVars, hand, portOn, threadVars, op>>
  BY DEF OffClosePort
<1>2. port' \in Ports(Keys, Overlaps) /\ Told(port') = {} /\ OneItem(port', Blocks)
  BY <1>1, EmptyPort
<1>3. PortTypes' /\ hand = None /\ hand' = None
  BY <1>1, <1>2 DEF SocketInv, PortTypes, OffInv
<1>4. OffInv'
  BY <1>1 DEF SocketInv, OffInv, InCallback, threadVars
<1>5. KnownInv'
  BY <1>1 DEF KnownInv, HandleOpen
<1>6. ~Finite => FreshInv'
  BY <1>1, <1>2, <1>3 DEF SocketInv, FreshInv, Heard, listVars, threadVars
<1>. QED
  BY <1>1, <1>3, <1>4, <1>5, <1>6, PortStep

LEMMA OffClearStep ==
  ASSUME SocketInv, OffClear
  PROVE  SocketInv'
<1>1. /\ offAt = "pool" /\ offAt' = "down" /\ \A w \in Workers : at[w] = "idle"
      /\ issued' = {} /\ open' = {} /\ listeners' = {}
      /\ invoking' = [i \in Idents |-> 0] /\ incoming' = [i \in Idents |-> {}]
      /\ delay' = [i \in Idents |-> 0] /\ accepts' = [i \in Idents |-> 0]
      /\ marks' = [i \in Idents |-> {}]
      /\ initial' = <<>> /\ outgoing' = <<>> /\ port' = NewPort
      /\ UNCHANGED <<hand, portOn, initAt, at, serving, op>>
  BY DEF OffClear, threadVars
<1>2. \A b \in Blocks : block'[b] \in {Free, Lost}
  BY DEF OffClear
<1>3. block' \in [Blocks -> {Free, Lost} \cup Taken]
  BY DEF OffClear
<1>4. /\ initAt = "ended" /\ ~portOn /\ hand = None
      /\ \A x \in Callers : ~InCallback(x)
      /\ \A x \in Callers : serving[x] = None
      /\ \A a \in Actors : op[a] = NoOp
  <2>1. initAt = "ended" /\ ~portOn /\ hand = None
    BY <1>1 DEF SocketInv, OffInv
  <2>2. \A x \in Callers : ~InCallback(x)
    BY <1>1, <2>1 DEF InCallback, Callers
  <2>. QED
    BY <1>1, <2>1, <2>2 DEF SocketInv, OffInv, Actors
<1>5. \A b \in Blocks : ~Live(b)' /\ block'[b].kind # "accept" /\ block'[b].clock = "never"
  BY <1>2 DEF Free, Lost, Live
<1>6. port' \in Ports(Keys, Overlaps) /\ Told(port') = {} /\ OneItem(port', Blocks)
  BY <1>1, EmptyPort
<1>7. SocketTypes' /\ ListTypes'
  BY <1>1, <1>3 DEF SocketTypes, ListTypes
<1>8. PortTypes' /\ ThreadTypes'
  BY <1>1, <1>4, <1>6 DEF SocketInv, PortTypes, ThreadTypes
<1>9. OffInv'
  <2>1. \A x \in Callers : ~InCallback(x)'
    BY <1>1, <1>4 DEF InCallback
  <2>2. /\ \A x \in Callers : serving'[x] = None
        /\ \A a \in Actors : op'[a] = NoOp
        /\ initAt' = "ended" /\ ~portOn' /\ hand' = None
    BY <1>1, <1>4
  <2>. QED
    BY <2>1, <2>2, Constants DEF OffInv, Actors
<1>10. ListInv'
  BY <1>1, <1>4, <1>5
     DEF ListInv, InitialInv, OutgoingInv, IncomingInv, ServedInv, FoundInv, OnceEach, Elements
<1>11. \A a \in Actors, i \in Idents : ~Closing(a, i)'
  BY <1>1, <1>4 DEF Closing, Half, NoOp
<1>12. CountInv' /\ IdentKept'
  <2>1. ASSUME NEW i \in Idents PROVE Calls(i)' = Cardinality(Serving(i)')
    <3>1. Serving(i)' = {}
      BY <1>1, <1>4 DEF Serving
    <3>2. Calls(i)' = 0
      BY <1>1 DEF Calls
    <3>. QED
      BY <3>1, <3>2, FS_EmptySet
  <2>2. IssuedInv' /\ \A i \in Idents : IF i \in open' THEN delay'[i] = 0 ELSE invoking'[i] = 0
    BY <1>1, <1>11 DEF IssuedInv
  <2>3. IdentKept'
    BY <1>1, <1>4 DEF IdentKept
  <2>. QED
    BY <1>11, <2>1, <2>2, <2>3 DEF CountInv
<1>13. ClockInv' /\ KnownInv'
  BY <1>1, <1>5 DEF ClockInv, KnownInv
<1>14. AcceptsInv'
  BY <1>1, <1>4 DEF AcceptsInv, InClose, NoOp
<1>15. ~Finite => FreshInv'
  BY <1>1, <1>4, <1>5, <1>6 DEF FreshInv, Heard
<1>. QED
  BY <1>7, <1>8, <1>9, <1>10, <1>12, <1>13, <1>14, <1>15 DEF SocketInv

-----------------------------------------------------------------------------
(* The invariant, and what follows from it.                                *)

LEMMA SocketStep == SocketInv /\ [Next]_vars => SocketInv'
<1>. SUFFICES ASSUME SocketInv, [Next]_vars PROVE SocketInv'
  OBVIOUS
<1>1. CASE UNCHANGED vars
  <2>1. UNCHANGED <<socketVars, listVars, portVars, threadVars, op, offAt>>
    BY <1>1 DEF vars
  <2>2. ThreadTypes' /\ OffInv' /\ (HandleOpen' => HandleOpen)
    BY <2>1 DEF SocketInv, ThreadTypes, OffInv, InCallback, HandleOpen, threadVars, portVars
  <2>. QED
    BY <2>1, <2>2, QuietStep DEF threadVars
<1>2. ASSUME NEW a \in Actors, Call(a) PROVE SocketInv'
  BY <1>2, CreateStep, RequestStep, ListenStep, CloseStep DEF Call
<1>3. ASSUME NEW a \in Actors, CallEnd(a) PROVE SocketInv'
  BY <1>3, ListenEndStep, CloseEndStep DEF CallEnd
<1>4. CASE Initiate
  BY <1>4, InitiatorSteps, StartStep, PostAcceptStep, TimeOutStep DEF Initiate
<1>5. CASE TimedOut \/ PortTake \/ Complete
  BY <1>5, TimedOutStep, PortTakeStep, CompleteStep
<1>6. ASSUME NEW w \in Workers, Work(w) \/ WorkerDone(w) PROVE SocketInv'
  BY <1>6, WorkerAskStep, WorkerNothingStep, WorkerCallStep, WorkerDoneStep DEF Work
<1>7. CASE (\E i \in Idents : Signal(i)) \/ (\E b \in Blocks : Tick(b))
  BY <1>7, SignalStep, TickStep
<1>8. CASE Off
  BY <1>8, OffStartStep, OffPostQuitStep, OffClosePortStep, OffClearStep DEF Off
<1>. QED
  BY <1>1, <1>2, <1>3, <1>4, <1>5, <1>6, <1>7, <1>8 DEF Next

LEMMA SocketAlways == Spec => []SocketInv
BY SocketInit, SocketStep, PTL DEF Spec

\* The counters that decide when an ident is free are exact (aiosock.cpp, the end of
\* v_do_job and close): for every number of users, threads, blocks and idents.
THEOREM SocketCallbacksCounted == Spec => []CallbacksCounted
<1>1. SocketInv => CallbacksCounted
  <2>. SUFFICES ASSUME SocketInv PROVE CallbacksCounted
    OBVIOUS
  <2>1. \A i \in Idents : Calls(i) = Cardinality(Serving(i))
    BY DEF SocketInv, CountInv
  <2>2. IssuedInv
    BY DEF SocketInv, CountInv
  <2>. QED
    BY <2>1, <2>2, Zenon DEF CallbacksCounted, IssuedInv, Calls, Closing
<1>. QED
  BY <1>1, SocketAlways, PTL

\* An ident that a callback uses is not given to another socket.
THEOREM SocketIdentKept == Spec => []IdentKept
<1>1. SocketInv => IdentKept
  BY DEF SocketInv
<1>. QED
  BY <1>1, SocketAlways, PTL

\* An operation is at one station until its socket closes, and the port knows of
\* one that is pending: none is lost or answered twice.
THEOREM SocketOperationsTracked == Spec => []OperationsTracked
<1>1. ASSUME SocketInv, NEW b \in Blocks, Allocated(b), block[b].own
      PROVE  Cardinality(Stations(b)) = 1
  <2>1. Live(b) /\ block[b].ident \in Idents
    <3>1. block[b] # Lost
      BY <1>1 DEF Lost, Free
    <3>. QED
      BY <1>1, <3>1, BlockStates DEF SocketInv
  <2>2. /\ "initial" \in Stations(b) <=> b \in Elements(initial)
        /\ "incoming" \in Stations(b) <=> Pending(b)
        /\ "outgoing" \in Stations(b) <=> b \in Elements(outgoing)
        /\ "callback" \in Stations(b) <=> Served(b)
        /\ Stations(b) \subseteq {"initial", "incoming", "outgoing", "callback"}
    BY DEF Stations, Served
  <2>3. b \in Elements(initial) \/ Pending(b) \/ b \in Elements(outgoing) \/ Served(b)
    BY <1>1, <2>1 DEF SocketInv, ListInv, FoundInv, Pending
  <2>4. /\ b \in Elements(initial) => b \notin Elements(outgoing) /\ ~Pending(b) /\ ~Served(b)
        /\ b \in Elements(outgoing) => ~Pending(b) /\ ~Served(b)
        /\ Pending(b) => ~Served(b)
    BY <1>1, <2>1 DEF SocketInv, ListInv, InitialInv, OutgoingInv, IncomingInv, Listed, Pending
  <2>5. \E s : Stations(b) = {s}
    BY <2>2, <2>3, <2>4
  <2>. QED
    BY <2>5, FS_Singleton
<1>2. ASSUME SocketInv, NEW b \in Blocks, Allocated(b), block[b].own, Pending(b), HandleOpen
      PROVE  \E x \in Elements(port.waiting) \cup Reports :
               x.block = b /\ x.key = block[b].ident /\ x.fresh
  <2>1. block[b].ident \in Idents
    <3>1. block[b] # Lost
      BY <1>2 DEF Lost, Free
    <3>. QED
      BY <1>2, <3>1, BlockStates DEF SocketInv
  <2>2. Knows(port, block[b].ident, b) \/ InHand(block[b].ident, b)
    BY <1>2, <2>1 DEF SocketInv, KnownInv, Pending
  <2>3. None \notin Told(port)
    BY <1>2, ToldItems, Constants DEF SocketInv, PortTypes
  <2>4. Told(port) \subseteq Elements(port.waiting) \cup Reports
    BY <2>3 DEF Told, Reports
  <2>5. hand # None => hand \in Reports
    BY DEF Reports
  <2>. QED
    BY <2>2, <2>4, <2>5 DEF Knows, InHand
<1>3. SocketInv => OperationsTracked
  BY <1>1, <1>2 DEF OperationsTracked
<1>. QED
  BY <1>3, SocketAlways, PTL

\* However closes, accepts and listens interleave (aiosock.cpp, listen and the two
\* critical sections of close), a socket that listens has its entry in
\* _listeners_map when listen() is over, and _curr_count is the number of accepts
\* under way; of a socket that got its ident in the middle of a close nothing is said.
THEOREM SocketAcceptsCounted == Spec => []AcceptsCounted
<1>1. ASSUME SocketInv, NEW i \in open
      PROVE  UnderWay(i) = {b \in BlocksOf(i) : /\ block[b].own /\ block[b].kind = "accept"
                                                /\ \A x \in Callers : serving[x] # b}
  <2>1. \A b \in Blocks : b \in BlocksOf(i) <=> Live(b) /\ block[b].ident = i
    BY <1>1, BlockStates DEF SocketInv, SocketTypes
  <2>2. BlocksOf(i) \subseteq Blocks
    BY DEF BlocksOf
  <2>. QED
    BY <2>1, <2>2 DEF UnderWay, Served
<1>2. SocketInv => AcceptsCounted
  BY <1>1 DEF SocketInv, AcceptsInv, AcceptsCounted, Crossed, Counted, InListen
<1>. QED
  BY <1>2, SocketAlways, PTL

\* Without timeouts the port reports only operations whose block is still theirs.
THEOREM SocketCompletionsFresh ==
  ASSUME ~Finite
  PROVE  Spec => []CompletionsFresh
<1>1. SocketInv => CompletionsFresh
  BY DEF SocketInv, FreshInv, CompletionsFresh, Reports, Heard, Told
<1>. QED
  BY <1>1, SocketAlways, PTL

-----------------------------------------------------------------------------
(* What the sockets promise: every step is one of SocketPort, or nothing   *)
(* to it.                                                                  *)

Asked == [b \in Blocks |-> IF Waiting(b) THEN block[b].ident ELSE 0]
Called == [x \in Callers |-> IF serving[x] = None THEN 0 ELSE block[serving[x]].ident]
PortStays == UNCHANGED <<open, Asked, Called>>

LEMMA LiveState ==
  ASSUME NEW r \in {Free, Lost} \cup Taken
  PROVE  r # Free /\ r # Lost <=> r.kind \in {"data", "accept"}
BY DEF Free, Lost, Taken

LEMMA WaitingBlocks ==
  ASSUME ListTypes, ListTypes'
  PROVE  /\ \A b \in Blocks : Waiting(b) <=> Live(b) /\ block[b].own /\ ~Served(b)
         /\ \A b \in Blocks : Waiting(b)' <=> Live(b)' /\ block'[b].own /\ ~Served(b)'
         /\ \A b \in Blocks : Live(b) => block[b].ident \in Idents
         /\ \A b \in Blocks : Asked[b] = IF Waiting(b) THEN block[b].ident ELSE 0
         /\ \A b \in Blocks : Asked'[b] = IF Waiting(b)' THEN block'[b].ident ELSE 0
         /\ \A x \in Callers : Called[x] = IF serving[x] = None THEN 0 ELSE block[serving[x]].ident
         /\ \A x \in Callers : Called'[x] = IF serving'[x] = None THEN 0 ELSE block'[serving'[x]].ident
<1>1. \A b \in Blocks : block[b] \in {Free, Lost} \cup Taken /\ block'[b] \in {Free, Lost} \cup Taken
  BY DEF ListTypes
<1>2. \A b \in Blocks : Waiting(b) <=> Live(b) /\ block[b].own /\ ~Served(b)
  BY <1>1, LiveState DEF Waiting, Allocated, Live, Served
<1>3. \A b \in Blocks : Waiting(b)' <=> Live(b)' /\ block'[b].own /\ ~Served(b)'
  BY <1>1, LiveState DEF Waiting, Allocated, Live, Served
<1>. QED
  BY <1>2, <1>3, BlockStates DEF Asked, Called

\* The blocks may change, but not what the port is asked for.
LEMMA StaysAsked ==
  ASSUME SocketInv, SocketInv', SameServed, UNCHANGED open,
         \A b \in Blocks : Waiting(b)' <=> Waiting(b),
         \A b \in Blocks : block'[b].ident = block[b].ident
  PROVE  PortStays
<1>1. \A b \in Blocks : Asked'[b] = Asked[b]
  BY WaitingBlocks DEF SocketInv
<1>2. \A x \in Callers : Called'[x] = Called[x]
  BY WaitingBlocks DEF SocketInv, SameServed
<1>3. /\ Asked = [b \in Blocks |-> Asked[b]] /\ Asked' = [b \in Blocks |-> Asked'[b]]
      /\ Called = [x \in Callers |-> Called[x]] /\ Called' = [x \in Callers |-> Called'[x]]
  BY DEF Asked, Called
<1>4. Asked' = Asked
  BY <1>1, <1>3, Zenon
<1>5. Called' = Called
  BY <1>2, <1>3, Zenon
<1>. QED
  BY <1>4, <1>5 DEF PortStays

LEMMA PortIdle ==
  ASSUME SocketInv, SocketInv', UNCHANGED <<open, block, serving>>
  PROVE  PortStays
<1>1. SameServed /\ \A b \in Blocks : Waiting(b)' <=> Waiting(b)
  BY DEF SameServed, Waiting, Allocated
<1>. QED
  BY <1>1, StaysAsked

LEMMA PortUntouched ==
  ASSUME SocketInv, SocketInv', UNCHANGED <<open, serving>>,
         \A d \in Blocks : /\ block'[d].kind = block[d].kind /\ block'[d].ident = block[d].ident
                           /\ block'[d].own = block[d].own
  PROVE  PortStays
<1>1. /\ \A d \in Blocks : Live(d)' <=> Live(d)
      /\ \A d : Served(d)' <=> Served(d)
  BY DEF Live, Served
<1>2. SameServed
  BY Constants DEF SameServed, SocketInv, ThreadTypes
<1>3. \A d \in Blocks : Waiting(d)' <=> Waiting(d)
  BY <1>1, WaitingBlocks DEF SocketInv
<1>. QED
  BY <1>2, <1>3, StaysAsked

LEMMA PortCreates ==
  ASSUME SocketInv, SocketInv', NEW a \in Actors, Create(a)
  PROVE  \E i \in Idents : Promise!Create(i)
<1>. PICK i \in Idents \ issued : open' = open \cup {i}
  BY DEF Create, Assign
<1>1. UNCHANGED <<block, serving>>
  BY DEF Create, listVars, threadVars
<1>2. i \notin open /\ Serving(i) = {} /\ i # 0
  BY UnissuedUnused, Constants
<1>3. \A x \in Callers : Called[x] # i
  BY <1>2 DEF Serving, Called
<1>4. UNCHANGED <<Asked, Called>>
  BY <1>1 DEF Asked, Called, Waiting, Allocated
<1>. QED
  BY <1>2, <1>3, <1>4 DEF Promise!Create, Promise!Unused, Asked, Called

LEMMA PortAsks ==
  ASSUME SocketInv, SocketInv', NEW b, NEW k, NEW i, NEW c, Joins(b, k, i, c)
  PROVE  b \in Blocks /\ i \in Idents /\ Promise!Ask(b, i)
<1>1. /\ b \in Blocks /\ i \in open /\ i \in Idents /\ block[b] = Free
      /\ block' = [block EXCEPT ![b] = Operation(k, i, c)] /\ UNCHANGED <<open, serving>>
      /\ k \in {"data", "accept"}
  BY DEF Joins, FreeBlocks, Allocated, SocketInv, SocketTypes
<1>2. ~Live(b) /\ ~Served(b)
  <2>1. ~Live(b)
    BY <1>1 DEF Live, Free
  <2>. QED
    BY <1>1, <2>1, Nowhere DEF SocketInv
<1>3. \A d \in Blocks : block'[d] = IF d = b THEN Operation(k, i, c) ELSE block[d]
  BY <1>1 DEF SocketInv, ListTypes
<1>4. /\ Operation(k, i, c).ident = i /\ Operation(k, i, c).own
      /\ Operation(k, i, c).kind = k
  BY DEF Operation
<1>5. /\ \A d : Served(d)' <=> Served(d)
      /\ \A d \in Blocks : Waiting(d)' <=> Waiting(d) \/ d = b
      /\ ~Waiting(b)
  <2>1. \A d : Served(d)' <=> Served(d)
    BY <1>1 DEF Served
  <2>. QED
    BY <1>1, <1>2, <1>3, <1>4, <2>1, WaitingBlocks DEF SocketInv, Live
<1>6. \A d \in Blocks : Asked'[d] = IF d = b THEN i ELSE Asked[d]
  BY <1>3, <1>4, <1>5, WaitingBlocks DEF SocketInv
<1>7. \A x \in Callers : Called'[x] = Called[x]
  <2>1. \A x \in Callers : serving[x] # None => serving[x] \in Blocks /\ serving[x] # b
    BY <1>2 DEF Served, SocketInv, ThreadTypes
  <2>. QED
    BY <1>1, <1>3, <2>1, WaitingBlocks DEF SocketInv
<1>8. /\ Asked' = [Asked EXCEPT ![b] = i] /\ Called' = Called /\ Asked[b] = 0
  <2>1. /\ Asked = [d \in Blocks |-> Asked[d]] /\ Asked' = [d \in Blocks |-> Asked'[d]]
        /\ Called = [x \in Callers |-> Called[x]] /\ Called' = [x \in Callers |-> Called'[x]]
    BY DEF Asked, Called
  <2>2. Asked' = [Asked EXCEPT ![b] = i]
    BY <1>1, <1>6, <2>1
  <2>3. Called' = Called
    BY <1>7, <2>1, Zenon
  <2>4. Asked[b] = 0
    BY <1>1, <1>5, WaitingBlocks DEF SocketInv
  <2>. QED
    BY <2>2, <2>3, <2>4
<1>. QED
  BY <1>1, <1>8, Zenon DEF Promise!Ask, Asked, Called

\* Both maps are functions.
LEMMA PortMaps ==
  /\ Asked = [b \in Blocks |-> Asked[b]] /\ Asked' = [b \in Blocks |-> Asked'[b]]
  /\ Called = [x \in Callers |-> Called[x]] /\ Called' = [x \in Callers |-> Called'[x]]
BY DEF Asked, Called

\* A callback begins: the answer.
LEMMA PortAnswers ==
  ASSUME SocketInv, SocketInv', NEW x, NEW b, NEW i, CallBegins(x, b, i), Live(b),
         \A d \in Blocks : block'[d].kind = block[d].kind,
         UNCHANGED <<issued, open>> \/ \E j \in Idents \ issued : Opens(j)
  PROVE  x \in Callers /\ b \in Blocks
         /\ (Promise!Answer(x, b) \/ \E j \in Idents : Promise!AnswerAccept(x, b, j))
<1>1. /\ x \in Callers /\ b \in Blocks /\ serving[x] = None /\ ~Served(b) /\ block[b].own
      /\ i = block[b].ident
      /\ \A d \in Blocks : block'[d].ident = block[d].ident /\ block'[d].own = block[d].own
      /\ \A d \in Blocks : Live(d)' <=> Live(d)
  BY DEF CallBegins, Live
<1>2. /\ \A y \in Callers : serving'[y] = IF y = x THEN b ELSE serving[y]
      /\ \A d \in Blocks : Served(d)' <=> Served(d) \/ d = b
      /\ i \in Idents /\ i # 0
  BY CallBeginsServing, Constants
<1>3. /\ Waiting(b) /\ \A d \in Blocks : Waiting(d)' <=> Waiting(d) /\ d # b
  BY <1>1, <1>2, WaitingBlocks DEF SocketInv
<1>4. /\ Asked[b] = i /\ \A d \in Blocks : Asked'[d] = IF d = b THEN 0 ELSE Asked[d]
  BY <1>1, <1>3, WaitingBlocks DEF SocketInv
<1>5. /\ Called[x] = 0 /\ \A y \in Callers : Called'[y] = IF y = x THEN i ELSE Called[y]
  <2>1. \A y \in Callers : serving[y] # None => serving[y] \in Blocks
    BY DEF SocketInv, ThreadTypes
  <2>2. b # None
    BY <1>1, Constants
  <2>3. Called[x] = 0 /\ Called'[x] = i
    BY <1>1, <1>2, <2>2, WaitingBlocks DEF SocketInv
  <2>4. \A y \in Callers : y # x => Called'[y] = Called[y]
    BY <1>1, <1>2, <2>1, WaitingBlocks DEF SocketInv
  <2>. QED
    BY <2>3, <2>4
<1>6. Asked' = [Asked EXCEPT ![b] = 0] /\ Called' = [Called EXCEPT ![x] = Asked[b]]
  BY <1>1, <1>4, <1>5, PortMaps
<1>7. CASE UNCHANGED <<issued, open>>
  <2>1. Promise!Answer(x, b)
    BY <1>2, <1>4, <1>5, <1>6, <1>7, Zenon DEF Promise!Answer, Asked, Called
  <2>. QED
    BY <1>1, <2>1
<1>8. ASSUME NEW j \in Idents \ issued, Opens(j)
      PROVE  Promise!AnswerAccept(x, b, j)
  <2>1. j \notin open /\ Serving(j) = {} /\ j # 0
    BY UnissuedUnused, Constants
  <2>2. \A y \in Callers : Called[y] # j
    BY <2>1 DEF Serving, Called
  <2>3. open' = open \cup {j}
    BY <1>8 DEF Opens
  <2>. QED
    BY <1>2, <1>4, <1>5, <1>6, <2>1, <2>2, <2>3, Zenon
       DEF Promise!AnswerAccept, Promise!Unused, Asked, Called
<1>. QED
  BY <1>1, <1>7, <1>8

\* A callback is over: the return.
LEMMA PortReturns ==
  ASSUME SocketInv, SocketInv', NEW x, NEW b, NEW i, NEW q, CallEnds(x, b, i, q)
  PROVE  x \in Callers /\ Promise!Return(x)
<1>1. /\ x \in Callers /\ b \in Blocks /\ serving[x] = b /\ i = block[b].ident /\ open' = open
      /\ serving' = [serving EXCEPT ![x] = None]
  BY DEF CallEnds
<1>2. /\ Served(b) /\ i \in Idents /\ i # 0 /\ b # None
      /\ \A y \in Callers : serving[y] = b => y = x
  BY <1>1, ServedBlock, Constants
<1>3. /\ \A d \in Blocks : block'[d] = IF d = b THEN Free ELSE block[d]
      /\ \A d \in Blocks : Served(d)' <=> Served(d) /\ d # b
      /\ \A d \in Blocks : Live(d)' <=> Live(d) /\ d # b
  BY CallEndsBlocks
<1>4. \A d \in Blocks : Waiting(d)' <=> Waiting(d)
  BY <1>2, <1>3, WaitingBlocks DEF SocketInv
<1>5. \A d \in Blocks : Asked'[d] = Asked[d]
  BY <1>2, <1>3, <1>4, WaitingBlocks DEF SocketInv
<1>6. Called[x] = i /\ \A y \in Callers : Called'[y] = IF y = x THEN 0 ELSE Called[y]
  <2>1. \A y \in Callers : serving'[y] = IF y = x THEN None ELSE serving[y]
    BY <1>1 DEF SocketInv, ThreadTypes
  <2>2. \A y \in Callers : y # x /\ serving[y] # None => serving[y] \in Blocks /\ serving[y] # b
    BY <1>2 DEF SocketInv, ThreadTypes
  <2>3. Called[x] = i /\ Called'[x] = 0
    BY <1>1, <1>2, <2>1, WaitingBlocks DEF SocketInv
  <2>4. \A y \in Callers : y # x => Called'[y] = Called[y]
    BY <1>3, <2>1, <2>2, WaitingBlocks DEF SocketInv
  <2>. QED
    BY <2>3, <2>4
<1>7. Asked' = Asked
  BY <1>5, PortMaps, Zenon
<1>8. Called' = [Called EXCEPT ![x] = 0]
  BY <1>1, <1>6, PortMaps
<1>. QED
  BY <1>1, <1>2, <1>6, <1>7, <1>8, Zenon DEF Promise!Return, Asked, Called

LEMMA PortCloses ==
  ASSUME SocketInv, SocketInv', NEW i, Empties(i)
  PROVE  i \in Idents /\ Promise!Close(i)
<1>1. /\ i \in open /\ open' = open \ {i} /\ serving' = serving
  BY DEF Empties
<1>2. /\ i \in Idents
      /\ \A b \in Blocks : Live(b) /\ block[b].ident = i => (~Served(b) => block'[b] \in {Free, Lost})
      /\ \A b \in Blocks : ~(Live(b) /\ block[b].ident = i) => block'[b] = block[b]
  BY EmptiedBlocks
<1>3. \A x \in Callers : serving[x] # None => block'[serving[x]].ident = block[serving[x]].ident
  BY EmptiedLists
<1>4. \A b : Served(b)' <=> Served(b)
  BY <1>1 DEF Served
<1>5. \A b \in Blocks : Waiting(b)' <=> Waiting(b) /\ block[b].ident # i
  <2>1. \A b \in Blocks : block'[b] \in {Free, Lost} => ~Live(b)'
    BY DEF Free, Lost, Live
  <2>2. \A b \in Blocks : block'[b] = block[b] => (Live(b)' <=> Live(b))
    BY DEF Live
  <2>. QED
    BY <1>2, <1>4, <2>1, <2>2, WaitingBlocks DEF SocketInv
<1>6. \A b \in Blocks : Asked'[b] = IF Asked[b] = i THEN 0 ELSE Asked[b]
  <2>1. \A b \in Blocks : Waiting(b)' => block'[b] = block[b]
    BY <1>2, <1>5
  <2>. QED
    BY <1>2, <1>5, <2>1, WaitingBlocks DEF SocketInv
<1>7. \A x \in Callers : Called'[x] = Called[x]
  BY <1>1, <1>3, WaitingBlocks DEF SocketInv
<1>8. Called' = Called
  BY <1>7, PortMaps, Zenon
<1>9. Asked' = [b \in Blocks |-> IF Asked[b] = i THEN 0 ELSE Asked[b]]
  BY <1>6, PortMaps
<1>. QED
  BY <1>1, <1>2, <1>8, <1>9, Zenon DEF Promise!Close, Asked, Called

LEMMA PortDown ==
  ASSUME SocketInv, SocketInv', OffClear
  PROVE  Promise!Down
<1>1. /\ open' = {} /\ offAt = "pool" /\ \A w \in Workers : at[w] = "idle"
      /\ serving' = serving
  BY DEF OffClear, threadVars
<1>2. \A b \in Blocks : block'[b] \in {Free, Lost}
  BY DEF OffClear
<1>3. \A x \in Callers : serving[x] = None
  <2>1. initAt = "ended"
    BY <1>1 DEF SocketInv, OffInv
  <2>2. \A x \in Callers : ~InCallback(x)
    BY <1>1, <2>1 DEF InCallback, Callers
  <2>. QED
    BY <2>2 DEF SocketInv, OffInv
<1>4. \A b \in Blocks : ~Waiting(b)'
  <2>1. \A b \in Blocks : ~Live(b)'
    BY <1>2 DEF Free, Lost, Live
  <2>. QED
    BY <2>1, WaitingBlocks DEF SocketInv
<1>5. \A x \in Callers : Called[x] = 0 /\ Called'[x] = 0
  BY <1>1, <1>3, WaitingBlocks DEF SocketInv
<1>6. Asked' = [b \in Blocks |-> 0]
  BY <1>4 DEF Asked
<1>7. Called' = Called
  BY <1>5, PortMaps, Zenon
<1>. QED
  BY <1>1, <1>5, <1>6, <1>7, Zenon DEF Promise!Down, Asked, Called

-----------------------------------------------------------------------------
(* The step of SocketPort behind each action.                              *)

LEMMA StartIsNothing ==
  ASSUME SocketInv, SocketInv', Start
  PROVE  PortStays
<1>. PICK b : b = Head(initial)
  OBVIOUS
<1>1. UNCHANGED <<open, serving>> /\ initial # <<>>
  BY DEF Start
<1>2. block' = block \/ block' = [block EXCEPT ![b] = Ended(@, TRUE)]
  BY DEF Start
<1>3. CASE block' = block
  BY <1>1, <1>3, PortIdle
<1>4. CASE block' = [block EXCEPT ![b] = Ended(@, TRUE)]
  <2>1. b \in Blocks /\ block[b] \in Taken
    BY <1>1, InitialHead
  <2>2. /\ \A d \in Blocks : d # b => block'[d] = block[d]
        /\ block'[b] = Ended(block[b], TRUE)
    BY <1>4, <2>1 DEF SocketInv, ListTypes
  <2>3. /\ block'[b].kind = block[b].kind /\ block'[b].ident = block[b].ident
        /\ block'[b].own = block[b].own
    BY <2>1, <2>2 DEF Ended, Taken
  <2>. QED
    BY <1>1, <2>2, <2>3, PortUntouched
<1>. QED
  BY <1>2, <1>3, <1>4

LEMMA CompleteIsNothing ==
  ASSUME SocketInv, SocketInv', Complete
  PROVE  PortStays
<1>. PICK i, b : i = hand.key /\ b = hand.block
  OBVIOUS
<1>1. UNCHANGED <<open, serving>> /\ hand # None
  BY DEF Complete, threadVars
<1>2. block' = block
      \/ (i \in open /\ b \in incoming[i] /\ block' = [block EXCEPT ![b] = Ended(@, hand.err)])
  BY DEF Complete
<1>3. CASE block' = block
  BY <1>1, <1>3, PortIdle
<1>4. CASE i \in open /\ b \in incoming[i] /\ block' = [block EXCEPT ![b] = Ended(@, hand.err)]
  <2>1. b \in Blocks /\ block[b] \in Taken
    BY <1>4, BlockStates DEF SocketInv, SocketTypes, ListInv, IncomingInv, Listed
  <2>2. PICK e \in BOOLEAN : e = hand.err
    BY <1>1 DEF SocketInv, PortTypes, Items
  <2>3. /\ \A d \in Blocks : d # b => block'[d] = block[d]
        /\ block'[b] = Ended(block[b], e)
    BY <1>4, <2>1, <2>2 DEF SocketInv, ListTypes
  <2>4. /\ block'[b].kind = block[b].kind /\ block'[b].ident = block[b].ident
        /\ block'[b].own = block[b].own
    BY <2>1, <2>2, <2>3, EndedBlock
  <2>. QED
    BY <1>1, <2>3, <2>4, PortUntouched
<1>. QED
  BY <1>2, <1>3, <1>4

LEMMA TickIsNothing ==
  ASSUME SocketInv, SocketInv', NEW b \in Blocks, Tick(b)
  PROVE  PortStays
<1>. PICK c : block' = [block EXCEPT ![b].clock = c]
  BY DEF Tick
<1>1. UNCHANGED <<open, serving>> /\ \E i \in Idents : b \in incoming[i]
  BY DEF Tick, socketVars, threadVars
<1>2. block[b] \in Taken
  BY <1>1, BlockStates DEF SocketInv, ListInv, IncomingInv, Listed
<1>3. \A d \in Blocks : /\ block'[d].kind = block[d].kind /\ block'[d].ident = block[d].ident
                        /\ block'[d].own = block[d].own
  BY <1>2 DEF SocketInv, ListTypes, Taken
<1>. QED
  BY <1>1, <1>3, PortUntouched

LEMMA RequestIsAsk ==
  ASSUME SocketInv, SocketInv', NEW a \in Actors, NEW i \in Idents, Request(a, i)
  PROVE  \E b \in Blocks : \E j \in Idents : Promise!Ask(b, j)
<1>. PICK b \in FreeBlocks, c \in IF Finite THEN {"never", "before"} ELSE {"never"} :
            block' = [block EXCEPT ![b] = Operation("data", i, c)] /\ initial' = Append(initial, b)
  BY DEF Request
<1>1. Joins(b, "data", i, c)
  BY DEF Request, Joins, socketVars, portVars, threadVars
<1>. QED
  BY <1>1, PortAsks

LEMMA PostAcceptIsAsk ==
  ASSUME SocketInv, SocketInv', NEW i \in Idents, PostAccept(i)
  PROVE  \E b \in Blocks : \E j \in Idents : Promise!Ask(b, j)
<1>. PICK b \in FreeBlocks :
            block' = [block EXCEPT ![b] = Operation("accept", i, "never")]
            /\ initial' = Append(initial, b)
  BY DEF PostAccept
<1>1. Joins(b, "accept", i, "never")
  BY DEF PostAccept, Joins, portVars
<1>. QED
  BY <1>1, PortAsks

Answers(x) ==
  \E b \in Blocks : Promise!Answer(x, b) \/ \E j \in Idents : Promise!AnswerAccept(x, b, j)

LEMMA TimeOutIsAnswer ==
  ASSUME SocketInv, SocketInv', NEW i \in Idents, NEW b \in Blocks, TimeOut(i, b)
  PROVE  Answers(Initiator)
<1>1. /\ i \in open /\ b \in incoming[i] /\ initAt = "timeouts"
      /\ invoking' = [invoking EXCEPT ![i] = @ + 1]
      /\ serving' = [serving EXCEPT ![Initiator] = b]
      /\ block' = [block EXCEPT ![b] = Ended(@, TRUE)]
      /\ UNCHANGED <<issued, open, delay, op>>
  BY DEF TimeOut
<1>2. Initiator \in Callers /\ serving[Initiator] = None
  BY <1>1, Constants DEF SocketInv, OffInv, InCallback
<1>3. /\ block[b] \in Taken /\ Live(b) /\ ~Served(b) /\ block[b].own /\ block[b].ident = i
  BY <1>1, BlockStates DEF SocketInv, ListInv, IncomingInv, Listed
<1>4. /\ \A d \in Blocks : d # b => block'[d] = block[d]
      /\ block'[b] = Ended(block[b], TRUE)
  BY <1>1 DEF SocketInv, ListTypes
<1>5. /\ block'[b].kind = block[b].kind /\ block'[b].ident = block[b].ident
      /\ block'[b].own = block[b].own
  BY <1>3, <1>4 DEF Ended, Taken
<1>6. CallBegins(Initiator, b, i) /\ \A d \in Blocks : block'[d].kind = block[d].kind
  BY <1>1, <1>2, <1>3, <1>4, <1>5 DEF CallBegins
<1>. QED
  BY <1>1, <1>3, <1>6, PortAnswers DEF Answers

LEMMA WorkerCallIsAnswer ==
  ASSUME SocketInv, SocketInv', NEW w \in Workers, WorkerCall(w)
  PROVE  Answers(w)
<1>. PICK b, i : b = Head(outgoing) /\ i = block[b].ident
  OBVIOUS
<1>1. /\ at[w] = "do" /\ outgoing # <<>> /\ i \in open
      /\ invoking' = [invoking EXCEPT ![i] = @ + 1] /\ serving' = [serving EXCEPT ![w] = b]
      /\ UNCHANGED <<delay, block, op>>
  BY DEF WorkerCall
<1>2. UNCHANGED <<issued, open>> \/ \E j \in Idents \ issued : Opens(j)
  BY DEF WorkerCall, Assign, Opens
<1>3. w \in Callers /\ serving[w] = None
  BY <1>1, Constants DEF SocketInv, OffInv, InCallback, Callers
<1>4. b \in Blocks /\ Live(b) /\ ~Served(b) /\ block[b].own
  BY <1>1, OutgoingHead DEF Listed
<1>5. CallBegins(w, b, i) /\ \A d \in Blocks : block'[d].kind = block[d].kind
  BY <1>1, <1>3, <1>4 DEF CallBegins
<1>. QED
  BY <1>2, <1>4, <1>5, PortAnswers DEF Answers

LEMMA DoneIsReturn ==
  ASSUME SocketInv, SocketInv', TimedOut \/ \E w \in Workers : WorkerDone(w)
  PROVE  \E x \in Callers : Promise!Return(x)
<1>1. CASE TimedOut
  <2>. PICK b, i, q : b = serving[Initiator] /\ i = block[b].ident /\ q = CancelOne(port, i, b)
    OBVIOUS
  <2>1. b \in Blocks /\ Initiator \in Callers
    BY <1>1, Constants DEF SocketInv, ThreadTypes, OffInv, InCallback, TimedOut
  <2>2. q \in Ports(Keys, Overlaps)
    BY PortCancelsOne DEF SocketInv, PortTypes
  <2>3. CallEnds(Initiator, b, i, q)
    BY <1>1, <2>1, <2>2 DEF CallEnds, PortGives, TimedOut
  <2>. QED
    BY <2>3, PortReturns
<1>2. ASSUME NEW w \in Workers, WorkerDone(w)
      PROVE  \E x \in Callers : Promise!Return(x)
  <2>. PICK b, i : b = serving[w] /\ i = block[b].ident
    OBVIOUS
  <2>1. w \in Callers /\ w # Initiator
    BY Constants DEF Callers
  <2>2. b \in Blocks
    BY <1>2, <2>1 DEF SocketInv, ThreadTypes, OffInv, InCallback, WorkerDone
  <2>3. CallEnds(w, b, i, port)
    BY <1>2, <2>1, <2>2 DEF CallEnds, PortGives, WorkerDone, SocketInv, PortTypes
  <2>. QED
    BY <2>3, PortReturns
<1>. QED
  BY <1>1, <1>2

LEMMA CloseIsClose ==
  ASSUME SocketInv, SocketInv', NEW a \in Actors, NEW i \in Idents, Close(a, i)
  PROVE  Promise!Close(i)
<1>1. Empties(i)
  BY DEF Close, Empties, threadVars
<1>. QED
  BY <1>1, PortCloses

LEMMA PortSteps ==
  ASSUME SocketInv, SocketInv', [Next]_vars
  PROVE  PortStays \/ Promise!PortNext
<1>1. CASE UNCHANGED vars
  <2>1. UNCHANGED <<open, block, serving>>
    BY <1>1 DEF vars, socketVars, listVars, threadVars
  <2>. QED
    BY <2>1, PortIdle
<1>2. ASSUME NEW a \in Actors, Call(a) PROVE PortStays \/ Promise!PortNext
  <2>1. CASE Create(a)
    BY <2>1, PortCreates DEF Promise!PortNext
  <2>2. ASSUME NEW i \in Idents, Request(a, i) PROVE Promise!PortNext
    BY <2>2, RequestIsAsk DEF Promise!PortNext
  <2>3. ASSUME NEW i \in Idents, Listen(a, i) PROVE PortStays
    BY <2>3, PortIdle DEF Listen, listVars, threadVars
  <2>4. ASSUME NEW i \in Idents, Close(a, i) PROVE Promise!PortNext
    BY <2>4, CloseIsClose DEF Promise!PortNext
  <2>. QED
    BY <1>2, <2>1, <2>2, <2>3, <2>4 DEF Call
<1>3. ASSUME NEW a \in Actors, CallEnd(a) PROVE PortStays
  <2>1. UNCHANGED <<open, block, serving>>
    BY <1>3 DEF CallEnd, ListenEnd, CloseEnd, listVars, threadVars
  <2>. QED
    BY <2>1, PortIdle
<1>4. CASE Initiate
  <2>1. CASE InitAsk \/ NothingToStart \/ NoAcceptToPost \/ NothingTimesOut
    <3>1. UNCHANGED <<open, block, serving>>
      BY <2>1 DEF InitAsk, NothingToStart, NoAcceptToPost, NothingTimesOut, socketVars, listVars
    <3>. QED
      BY <3>1, PortIdle
  <2>2. ASSUME NEW i \in Idents, PostAccept(i) PROVE Promise!PortNext
    BY <2>2, PostAcceptIsAsk DEF Promise!PortNext
  <2>3. ASSUME NEW i \in Idents, NEW b \in Blocks, TimeOut(i, b) PROVE Promise!PortNext
    BY <2>3, TimeOutIsAnswer, Constants DEF Promise!PortNext, Answers
  <2>. QED
    BY <1>4, <2>1, <2>2, <2>3, StartIsNothing DEF Initiate
<1>5. CASE TimedOut \/ \E w \in Workers : WorkerDone(w)
  BY <1>5, DoneIsReturn DEF Promise!PortNext
<1>6. CASE Complete
  BY <1>6, CompleteIsNothing
<1>7. CASE PortTake \/ \E i \in Idents : Signal(i)
  <2>1. UNCHANGED <<open, block, serving>>
    BY <1>7 DEF PortTake, Signal, socketVars, listVars, threadVars
  <2>. QED
    BY <2>1, PortIdle
<1>8. ASSUME NEW w \in Workers, Work(w) PROVE PortStays \/ Promise!PortNext
  <2>1. CASE WorkerAsk(w)
    BY <2>1, PortIdle DEF WorkerAsk, socketVars, listVars
  <2>2. CASE WorkerNothing(w)
    <3>1. outgoing = <<>>
      BY <2>2, OutgoingHead DEF WorkerNothing, Listed
    <3>2. UNCHANGED <<open, block, serving>>
      BY <2>2, <3>1 DEF WorkerNothing, socketVars
    <3>. QED
      BY <3>2, PortIdle
  <2>3. CASE WorkerCall(w)
    <3>1. Answers(w) /\ w \in Callers
      BY <2>3, WorkerCallIsAnswer DEF Callers
    <3>. QED
      BY <3>1 DEF Promise!PortNext, Answers
  <2>. QED
    BY <1>8, <2>1, <2>2, <2>3 DEF Work
<1>9. CASE \E b \in Blocks : Tick(b)
  BY <1>9, TickIsNothing
<1>10. CASE Off
  <2>1. CASE OffStart \/ OffPostQuit \/ OffClosePort
    <3>1. UNCHANGED <<open, block, serving>>
      BY <2>1 DEF OffStart, OffPostQuit, OffClosePort, socketVars, listVars, threadVars
    <3>. QED
      BY <3>1, PortIdle
  <2>2. CASE OffClear
    BY <2>2, PortDown DEF Promise!PortNext
  <2>. QED
    BY <1>10, <2>1, <2>2 DEF Off
<1>. QED
  BY <1>1, <1>2, <1>3, <1>4, <1>5, <1>6, <1>7, <1>8, <1>9, <1>10 DEF Next

\* The sockets keep what SocketPort promises the gate and the message transport.
THEOREM SocketImplementsPort == Spec => ImplementsPort
<1>1. Init => Promise!PortInit
  <2>. SUFFICES ASSUME Init PROVE Promise!PortInit
    OBVIOUS
  <2>1. \A b \in Blocks : ~Waiting(b)
    BY DEF Init, Waiting, Allocated
  <2>2. \A x \in Callers : serving[x] = None
    BY DEF Init
  <2>3. open = {}
    BY DEF Init
  <2>. QED
    BY <2>1, <2>2, <2>3 DEF Promise!PortInit
<1>2. SocketInv /\ SocketInv' /\ [Next]_vars => [Promise!PortNext]_(Promise!portVars)
  BY PortSteps DEF PortStays, Asked, Called, Promise!portVars
<1>. QED
  BY <1>1, <1>2, SocketAlways, PTL DEF Spec, ImplementsPort, Promise!PortSpec
=============================================================================
