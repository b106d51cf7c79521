-------------------------- MODULE ThreadPoolProofs --------------------------
(***************************************************************************)
(* Proofs about ThreadPool for every number of threads, clients, idents    *)
(* and callers: the types, the count of threads in use, the single place   *)
(* of every loaned thread, what a loan may have to wait for, and the one   *)
(* thread of every client and ident.                                       *)
(***************************************************************************)
EXTENDS ThreadPool, SequenceTheorems, FiniteSetTheorems, TLAPS

-----------------------------------------------------------------------------
(* The inductive invariant.                                                *)

One(P) == IF P THEN 1 ELSE 0

\* A borrower in these places holds _clients_mtx; in all but the first it
\* goes to get a thread for a key that has none.
HoldPlaces == {"scan", "enter", "take", "activate"}
LoanPlaces == {"enter", "take", "activate"}
SomeAt(place) == \E b \in Borrowers : CallAt(b, place)

\* A thread in these places works with its copy of a job.
JobPlaces == {"ask", "toAsk", "noWork", "hasWork", "toDo", "working", "finishing"}

\* off() after it waited for the housekeeper, and after it emptied the map.
HouseGone == offAt \notin {"up", "stopHouse", "joinHouse"}
MapEmpty  == HouseGone /\ ~OffAt("cleanUp")

Jobs ==
  /\ \A t \in Threads : job[t] \in Keys \cup {None}
  /\ \A t \in Threads : pc[t] \in JobPlaces => task[t] \in Keys
  /\ pc[House] \in {"giveBack", "join"} => held[House] \in Threads
  /\ offAt \in {"giveBack", "join"} => held[Owner] \in Threads

RequestOK(b) ==
  /\ ~CallAt(b, "idle") => req[b].client \in Clients
  /\ call[b] \in {"borrow", "range"} => req[b].from \in Idents
  /\ call[b] \in {"wake", "activate"} => req[b].thread \in Threads
  /\ call[b] \in HoldPlaces => on
  /\ call[b] \in LoanPlaces =>
       inUse < Capacity /\ Key(b) \in Keys /\ info[Key(b)] = None

Requests == \A b \in Borrowers : RequestOK(b)

Mutex == \A b \in Borrowers : call[b] \in HoldPlaces <=> clientsMtx = b

Phases ==
  /\ on <=> OffAt("up")
  /\ HouseGone => At(House, "closed")
  /\ MapEmpty => \A k \in Keys : info[k] = None
  /\ offAt \in {"closing", "join", "down"} => dispose = <<>> /\ busy = {}

\* Every loan the gate has counted is a busy thread, or one that is just
\* being taken or has just been given back.
Loans ==
  readers = Cardinality(busy) + One(SomeAt("take")) + One(At(House, "leave"))
                              + One(OffAt("leave"))

\* While the pool is up, a busy thread is in use or on its way.
Uses ==
  on => Cardinality(busy) = inUse + One(At(House, "giveBack")) + One(SomeAt("activate"))

\* The housekeeper does not give back the thread a borrower has just got.
Hands ==
  \A b \in Borrowers :
    At(House, "giveBack") /\ CallAt(b, "activate") => req[b].thread # held[House]

PlaceInv ==
  Requests /\ Mutex /\ Phases /\ Loans /\ Uses /\ Hands /\ UseCounted /\ OnePlaceEach
PoolInv == TypeOK /\ Jobs /\ PlaceInv

-----------------------------------------------------------------------------
(* The elements of sequences.                                              *)

\* Concatenation has the elements of both, each once if neither repeats nor
\* shares one.
LEMMA ConcatElements ==
  ASSUME NEW S, NEW s \in Seq(S), NEW u \in Seq(S)
  PROVE  /\ s \o u \in Seq(S)
         /\ Len(s \o u) = Len(s) + Len(u)
         /\ Elements(s \o u) = Elements(s) \cup Elements(u)
         /\ Distinct(s) /\ Distinct(u) /\ Elements(s) \cap Elements(u) = {} => Distinct(s \o u)
<1>1. /\ s \o u \in Seq(S)
      /\ DOMAIN (s \o u) = 1 .. Len(s) + Len(u) /\ DOMAIN s = 1 .. Len(s) /\ DOMAIN u = 1 .. Len(u)
      /\ Len(s) \in Nat /\ Len(u) \in Nat
      /\ Len(s \o u) = Len(s) + Len(u)
  OBVIOUS
<1>2. \A n \in 1 .. Len(s) : (s \o u)[n] = s[n]
  OBVIOUS
<1>3. \A n \in Len(s) + 1 .. Len(s) + Len(u) : (s \o u)[n] = u[n - Len(s)]
  OBVIOUS
<1>3a. \A n \in 1 .. Len(u) : (s \o u)[Len(s) + n] = u[n]
  OBVIOUS
<1>4. Elements(s \o u) \subseteq Elements(s) \cup Elements(u)
  <2>. SUFFICES ASSUME NEW n \in 1 .. Len(s) + Len(u)
                PROVE  (s \o u)[n] \in Elements(s) \cup Elements(u)
    BY <1>1 DEF Elements
  <2>. QED
    BY <1>1, <1>2, <1>3 DEF Elements
<1>5. Elements(s) \subseteq Elements(s \o u)
  <2>. SUFFICES ASSUME NEW n \in 1 .. Len(s)
                PROVE  s[n] \in Elements(s \o u)
    BY <1>1 DEF Elements
  <2>. n \in DOMAIN (s \o u) /\ (s \o u)[n] = s[n]
    BY <1>1, <1>2
  <2>. QED
    BY DEF Elements
<1>6. Elements(u) \subseteq Elements(s \o u)
  <2>. SUFFICES ASSUME NEW n \in 1 .. Len(u)
                PROVE  u[n] \in Elements(s \o u)
    BY <1>1 DEF Elements
  <2>. Len(s) + n \in DOMAIN (s \o u) /\ (s \o u)[Len(s) + n] = u[n]
    BY <1>1, <1>3a
  <2>. QED
    BY DEF Elements
<1>7. ASSUME Distinct(s), Distinct(u), Elements(s) \cap Elements(u) = {}
      PROVE  Distinct(s \o u)
  <2>. SUFFICES ASSUME NEW m \in 1 .. Len(s) + Len(u), NEW n \in 1 .. Len(s) + Len(u),
                       (s \o u)[m] = (s \o u)[n]
                PROVE  m = n
    BY <1>1 DEF Distinct
  <2>1. CASE m <= Len(s) /\ n <= Len(s)
    BY <2>1, <1>1, <1>2, <1>7 DEF Distinct
  <2>2. CASE m > Len(s) /\ n > Len(s)
    <3>1. m - Len(s) \in DOMAIN u /\ n - Len(s) \in DOMAIN u
      BY <2>2, <1>1
    <3>2. u[m - Len(s)] = u[n - Len(s)]
      BY <2>2, <1>1, <1>3
    <3>. QED
      BY <3>1, <3>2, <1>1, <1>7 DEF Distinct
  <2>3. ASSUME NEW i \in 1 .. Len(s), NEW j \in Len(s) + 1 .. Len(s) + Len(u)
        PROVE  (s \o u)[i] # (s \o u)[j]
    <3>1. s[i] \in Elements(s) /\ u[j - Len(s)] \in Elements(u)
      BY <1>1 DEF Elements
    <3>. QED
      BY <3>1, <1>2, <1>3, <1>7
  <2>. QED
    BY <2>1, <2>2, <2>3, <1>1
<1>. QED
  BY <1>1, <1>4, <1>5, <1>6, <1>7

\* The sequence of one element.
LEMMA OneElement ==
  ASSUME NEW S, NEW x \in S
  PROVE  <<x>> \in Seq(S) /\ Len(<<x>>) = 1 /\ Elements(<<x>>) = {x} /\ Distinct(<<x>>)
<1>1. <<x>> \in Seq(S) /\ Len(<<x>>) = 1 /\ DOMAIN <<x>> = 1 .. 1 /\ <<x>>[1] = x
  OBVIOUS
<1>. QED
  BY <1>1 DEF Elements, Distinct

\* Append adds one element; the result repeats none if it was not there.
LEMMA AppendElements ==
  ASSUME NEW S, NEW s \in Seq(S), NEW x \in S
  PROVE  /\ Append(s, x) \in Seq(S)
         /\ Len(Append(s, x)) = Len(s) + 1
         /\ Elements(Append(s, x)) = Elements(s) \cup {x}
         /\ Distinct(s) /\ x \notin Elements(s) => Distinct(Append(s, x))
<1>1. PICK u \in Seq(S) : u = <<x>> /\ Len(u) = 1 /\ Elements(u) = {x} /\ Distinct(u)
  BY OneElement
<1>2. Append(s, x) = s \o u
  BY <1>1, AppendIsConcat
<1>3. /\ s \o u \in Seq(S)
      /\ Len(s \o u) = Len(s) + 1
      /\ Elements(s \o u) = Elements(s) \cup {x}
      /\ Distinct(s) /\ x \notin Elements(s) => Distinct(s \o u)
  <2>1. /\ s \o u \in Seq(S)
        /\ Len(s \o u) = Len(s) + Len(u)
        /\ Elements(s \o u) = Elements(s) \cup Elements(u)
        /\ Distinct(s) /\ Distinct(u) /\ Elements(s) \cap Elements(u) = {} => Distinct(s \o u)
    BY ConcatElements
  <2>. QED
    BY <1>1, <2>1
<1>. QED
  BY <1>2, <1>3, Zenon

\* So does an element put in front, as pool::return_object does.
LEMMA ConsElements ==
  ASSUME NEW S, NEW s \in Seq(S), NEW x \in S
  PROVE  /\ <<x>> \o s \in Seq(S)
         /\ Elements(<<x>> \o s) = Elements(s) \cup {x}
         /\ Distinct(s) /\ x \notin Elements(s) => Distinct(<<x>> \o s)
<1>1. PICK u \in Seq(S) : u = <<x>> /\ Elements(u) = {x} /\ Distinct(u)
  BY OneElement
<1>2. /\ u \o s \in Seq(S)
      /\ Elements(u \o s) = Elements(u) \cup Elements(s)
      /\ Distinct(u) /\ Distinct(s) /\ Elements(u) \cap Elements(s) = {} => Distinct(u \o s)
  BY ConcatElements
<1>3. /\ u \o s \in Seq(S)
      /\ Elements(u \o s) = Elements(s) \cup {x}
      /\ Distinct(s) /\ x \notin Elements(s) => Distinct(u \o s)
  BY <1>1, <1>2
<1>. QED
  BY <1>1, <1>3, Zenon

\* Tail takes the first element away, and nothing else where none repeats.
LEMMA TailElements ==
  ASSUME NEW S, NEW s \in Seq(S), s # <<>>
  PROVE  /\ Tail(s) \in Seq(S)
         /\ Head(s) \in S
         /\ Head(s) \in Elements(s)
         /\ Len(s) \in Nat \ {0}
         /\ Len(Tail(s)) = Len(s) - 1
         /\ Distinct(s) => Elements(Tail(s)) = Elements(s) \ {Head(s)} /\ Distinct(Tail(s))
<1>1. /\ Tail(s) \in Seq(S) /\ Len(s) \in Nat \ {0} /\ Len(Tail(s)) = Len(s) - 1
      /\ DOMAIN s = 1 .. Len(s) /\ DOMAIN Tail(s) = 1 .. Len(s) - 1
      /\ Head(s) = s[1] /\ Head(s) \in S
      /\ \A n \in 1 .. Len(s) - 1 : Tail(s)[n] = s[n + 1]
  OBVIOUS
<1>2. Head(s) \in Elements(s)
  BY <1>1 DEF Elements
<1>3. ASSUME Distinct(s)
      PROVE  Elements(Tail(s)) = Elements(s) \ {Head(s)}
  <2>1. ASSUME NEW n \in 1 .. Len(s) - 1
        PROVE  Tail(s)[n] \in Elements(s) \ {Head(s)}
    <3>1. n + 1 \in DOMAIN s /\ 1 \in DOMAIN s /\ n + 1 # 1 /\ Tail(s)[n] = s[n + 1]
      BY <1>1
    <3>. QED
      BY <3>1, <1>1, <1>3 DEF Elements, Distinct
  <2>2. ASSUME NEW n \in 1 .. Len(s), s[n] # Head(s)
        PROVE  s[n] \in Elements(Tail(s))
    <3>1. n - 1 \in DOMAIN Tail(s) /\ Tail(s)[n - 1] = s[n]
      BY <1>1, <2>2
    <3>. QED
      BY <3>1 DEF Elements
  <2>. QED
    BY <2>1, <2>2, <1>1 DEF Elements
<1>4. ASSUME Distinct(s)
      PROVE  Distinct(Tail(s))
  <2>. SUFFICES ASSUME NEW m \in 1 .. Len(s) - 1, NEW n \in 1 .. Len(s) - 1, Tail(s)[m] = Tail(s)[n]
                PROVE  m = n
    BY <1>1 DEF Distinct
  <2>1. m + 1 \in DOMAIN s /\ n + 1 \in DOMAIN s /\ s[m + 1] = s[n + 1]
    BY <1>1
  <2>. QED
    BY <2>1, <1>1, <1>4 DEF Distinct
<1>. QED
  BY <1>1, <1>2, <1>3, <1>4

-----------------------------------------------------------------------------
(* Steps that leave the map, the pool and the calls alone.                 *)

core == <<on, inUse, info, dispose, clientsMtx, readers, free, busy, call, req, offAt>>

\* Such a step keeps PlaceInv, if the housekeeper and the owner keep what
\* they hold.
LEMMA Frame ==
  ASSUME PoolInv, UNCHANGED core,
         At(House, "giveBack")' = At(House, "giveBack"), At(House, "leave")' = At(House, "leave"),
         At(House, "giveBack") => UNCHANGED held[House],
         OffAt("giveBack") => UNCHANGED held[Owner],
         HouseGone => UNCHANGED pc[House]
  PROVE  PlaceInv'
<1>. USE DEF core
<1>1. Requests' /\ Mutex' /\ Hands'
  BY DEF PoolInv, PlaceInv, Requests, RequestOK, Mutex, Hands, CallAt, Key
<1>2. Phases'
  BY DEF PoolInv, PlaceInv, Phases, OffAt, At, HouseGone, MapEmpty
<1>3. Loans' /\ Uses' /\ UseCounted'
  <2>1. UNCHANGED <<SomeAt("take"), SomeAt("activate"), OffAt("leave"), OffAt("up")>>
    BY DEF SomeAt, CallAt, OffAt
  <2>. QED
    BY <2>1 DEF PoolInv, PlaceInv, Loans, Uses, UseCounted, One
<1>4. OnePlaceEach'
  <2>1. InTransit' = InTransit
    BY DEF InTransit, At, OffAt, CallAt
  <2>2. Mapped' = Mapped /\ Queued' = Queued
    BY DEF Mapped, Queued
  <2>. QED
    BY <2>1, <2>2 DEF PoolInv, PlaceInv, OnePlaceEach
<1>. QED
  BY <1>1, <1>2, <1>3, <1>4 DEF PlaceInv

\* A thread that falls asleep, wakes or copies its job changes nothing but itself.
LEMMA LoopKeeps ==
  ASSUME PoolInv, NEW x \in Workers, LoopStep(x) \/ AlertOver(x)
  PROVE  PoolInv'
<1>1. UNCHANGED <<outside, job>>
  BY DEF LoopStep, FallAsleep, Woken, AlertOver, Resume, Execute
<1>2. MapTypeOK' /\ PoolTypeOK' /\ CallTypeOK'
  BY <1>1 DEF PoolInv, TypeOK, MapTypeOK, PoolTypeOK, CallTypeOK, outside, mapVars, poolVars,
              callVars
<1>3. /\ ThreadTypeOK'
      /\ \E place \in {"asleep", "ended", "exec", "loop", "ask"} : Goto(x, place)
      /\ pc[x] \in {"loop", "asleep", "exec"}
      /\ \A t \in Workers : t # x => task'[t] = task[t]
      /\ x \in Threads /\ pc'[x] = "ask" => task'[x] \in Keys
  <2>1. CASE FallAsleep(x)
    BY <2>1 DEF FallAsleep, PoolInv, TypeOK, ThreadTypeOK, Places, At, Goto
  <2>2. CASE Woken(x) \/ AlertOver(x)
    <3>1. UNCHANGED <<job, task>> /\ awake' \in [Workers -> BOOLEAN]
      BY <2>2 DEF Woken, AlertOver, Resume, PoolInv, TypeOK, ThreadTypeOK
    <3>2. Resume(x)
      BY <2>2 DEF Woken, AlertOver
    <3>. QED
      BY <3>1, <3>2 DEF Resume, PoolInv, TypeOK, ThreadTypeOK, Places, At, Goto
  <2>3. CASE Execute(x)
    BY <2>3 DEF Execute, PoolInv, TypeOK, ThreadTypeOK, Jobs, Places, At, Goto
  <2>. QED
    BY <2>1, <2>2, <2>3 DEF LoopStep
<1>4. Jobs'
  BY <1>1, <1>3, NamesAssumption
  DEF PoolInv, TypeOK, ThreadTypeOK, Jobs, JobPlaces, Goto, outside, Workers
<1>5. PlaceInv'
  <2>1. UNCHANGED <<core, held>>
    BY <1>1 DEF outside, core, mapVars, poolVars, callVars
  <2>2. pc'[House] = pc[House] \/ (x = House /\ pc'[House] \notin {"giveBack", "leave"})
    BY <1>3 DEF Goto, PoolInv, TypeOK, ThreadTypeOK, Workers
  <2>3. HouseGone => UNCHANGED pc[House]
    BY <1>3, <2>2 DEF PoolInv, PlaceInv, Phases, At
  <2>. QED
    BY <1>3, <2>1, <2>2, <2>3, Frame DEF At
<1>. QED
  BY <1>2, <1>3, <1>4, <1>5 DEF PoolInv, TypeOK

\* The steps of a thread with its job, Waste apart.
Attends(t) == Ask(t) \/ ClientHasJob(t) \/ Prepare(t) \/ ClientDoJob(t) \/ ClientDone(t)

\* What these and Waste do to the thread: it goes on with its job or ends it.
Proceeds(t) ==
  /\ pc[t] \in JobPlaces
  /\ \/ \E place \in JobPlaces : Goto(t, place) /\ UNCHANGED task
     \/ \E place \in {"loop", "exec"} : Finish(t, place)
  /\ UNCHANGED <<state, job, awake, held, offAt>>

\* Such a step keeps the types of the threads and the jobs in hand.
LEMMA ProceedsKeeps ==
  ASSUME PoolInv, NEW t \in Threads, Proceeds(t)
  PROVE  ThreadTypeOK' /\ Jobs' /\ pc'[House] = pc[House]
<1>. t # House /\ t \in Workers /\ House \in Workers
  BY NamesAssumption DEF Workers
<1>1. ThreadTypeOK'
  BY DEF Proceeds, PoolInv, TypeOK, ThreadTypeOK, Places, JobPlaces, Finish, Goto
<1>2. pc'[House] = pc[House]
  BY DEF Proceeds, PoolInv, TypeOK, ThreadTypeOK, Finish, Goto
<1>3. ASSUME NEW u \in Threads, pc'[u] \in JobPlaces
      PROVE  task'[u] \in Keys
  <2>1. u \in Workers
    BY DEF Workers
  <2>2. pc[u] \in JobPlaces /\ task'[u] = task[u]
    BY <1>3, <2>1 DEF Proceeds, PoolInv, TypeOK, ThreadTypeOK, JobPlaces, Finish, Goto
  <2>. QED
    BY <2>2 DEF PoolInv, Jobs
<1>. QED
  BY <1>1, <1>2, <1>3 DEF Proceeds, PoolInv, Jobs

\* A thread at work for a client changes neither the map nor the pool.
LEMMA AttendsKeeps ==
  ASSUME PoolInv, NEW t \in Threads, Attends(t)
  PROVE  PoolInv'
<1>1. Proceeds(t)
  BY DEF Attends, Ask, ClientHasJob, Prepare, ClientDoJob, ClientDone, Proceeds, At, JobPlaces,
         outside
<1>2. UNCHANGED <<core, poolMtx>> /\ wasted' \in [Keys -> 0 .. 1]
  <2>1. CASE Ask(t)
    BY <2>1 DEF Ask, core, callVars, poolVars, PoolInv, TypeOK, MapTypeOK
  <2>2. CASE ~Ask(t)
    BY <2>2 DEF Attends, ClientHasJob, Prepare, ClientDoJob, ClientDone, outside, mapVars, poolVars,
                callVars, core, PoolInv, TypeOK, MapTypeOK
  <2>. QED
    BY <2>1, <2>2
<1>3. MapTypeOK' /\ PoolTypeOK' /\ CallTypeOK'
  BY <1>1, <1>2 DEF PoolInv, TypeOK, MapTypeOK, PoolTypeOK, CallTypeOK, core, Proceeds
<1>4. PlaceInv'
  BY <1>1, <1>2, ProceedsKeeps, Frame DEF Proceeds, At
<1>. QED
  BY <1>1, <1>3, <1>4, ProceedsKeeps DEF PoolInv, TypeOK

-----------------------------------------------------------------------------
(* The keys that have a thread.                                            *)

MappedKeys == {k \in Keys : info[k] # None}

\* There are finitely many keys, so they can be counted.
LEMMA KeysFinite == IsFiniteSet(Keys) /\ IsFiniteSet(MappedKeys)
<1>1. IsFiniteSet(Idents)
  BY BoundsAssumption, FS_Interval DEF Idents
<1>2. IsFiniteSet(Keys)
  BY <1>1, BoundsAssumption, FS_Product DEF Keys
<1>. QED
  BY <1>2, FS_Subset DEF MappedKeys

\* So are the busy threads.
LEMMA BusyFinite ==
  ASSUME PoolInv
  PROVE  IsFiniteSet(busy) /\ Cardinality(busy) \in Nat
BY CapacityAssumption, FS_Subset, FS_CardinalityType DEF PoolInv, TypeOK, PoolTypeOK

\* Threads leave the map for the end of the queue: one by Waste, those of a
\* client by CleanUp.
LEMMA Disposed ==
  ASSUME PoolInv, NEW K \in SUBSET MappedKeys, NEW u \in Seq(Threads),
         Len(u) = Cardinality(K), Distinct(u), Elements(u) = {info[k] : k \in K},
         dispose' = dispose \o u,
         info' = [k \in Keys |-> IF k \in K THEN None ELSE info[k]],
         MapFree, UNCHANGED <<on, inUse, clientsMtx, readers, free, busy, call, req, held>>,
         UNCHANGED <<At(House, "giveBack"), At(House, "leave")>>,
         UNCHANGED <<OffAt("up"), OffAt("giveBack"), OffAt("leave")>>,
         Phases'
  PROVE  /\ dispose' \in Seq(Threads)
         /\ info' \in [Keys -> Threads \cup {None}]
         /\ PlaceInv'
<1>1. info' \in [Keys -> Threads \cup {None}]
  BY DEF PoolInv, TypeOK, MapTypeOK
<1>2. /\ dispose' \in Seq(Threads)
      /\ Len(dispose') = Len(dispose) + Cardinality(K)
      /\ Elements(dispose') = Elements(dispose) \cup {info[k] : k \in K}
      /\ Distinct(dispose) /\ Elements(dispose) \cap Elements(u) = {} => Distinct(dispose')
  <2>1. dispose \in Seq(Threads)
    BY DEF PoolInv, TypeOK, MapTypeOK
  <2>2. /\ dispose \o u \in Seq(Threads)
        /\ Len(dispose \o u) = Len(dispose) + Len(u)
        /\ Elements(dispose \o u) = Elements(dispose) \cup Elements(u)
        /\ Distinct(dispose) /\ Distinct(u) /\ Elements(dispose) \cap Elements(u) = {}
             => Distinct(dispose \o u)
    BY <2>1, ConcatElements
  <2>. QED
    BY <2>2, Zenon
<1>3. UseCounted'
  <2>1. MappedKeys' = MappedKeys \ K
    BY DEF MappedKeys
  <2>2. /\ IsFiniteSet(MappedKeys) /\ IsFiniteSet(K)
        /\ Cardinality(MappedKeys) \in Nat /\ Cardinality(K) \in Nat
    BY KeysFinite, FS_Subset, FS_CardinalityType
  <2>3. MappedKeys \cap K = K
    OBVIOUS
  <2>4. Cardinality(MappedKeys') = Cardinality(MappedKeys) - Cardinality(K)
    <3>1. Cardinality(MappedKeys \ K) = Cardinality(MappedKeys) - Cardinality(MappedKeys \cap K)
      BY <2>2, FS_Difference
    <3>. QED
      BY <3>1, <2>1, <2>3
  <2>5. Len(dispose) \in Nat
    BY DEF PoolInv, TypeOK, MapTypeOK
  <2>. QED
    BY <1>2, <2>2, <2>4, <2>5 DEF PoolInv, PlaceInv, UseCounted, MappedKeys
<1>4. /\ Mapped = Mapped' \cup {info[k] : k \in K}
      /\ Mapped' \cap {info[k] : k \in K} = {}
  <2>1. \A k, l \in Keys : info[k] = info[l] /\ info[k] # None => k = l
    BY DEF PoolInv, PlaceInv, OnePlaceEach
  <2>. QED
    BY <2>1 DEF Mapped, MappedKeys
<1>5. Elements(dispose) \cap Elements(u) = {}
  BY <1>4 DEF PoolInv, PlaceInv, OnePlaceEach, Queued
<1>6. OnePlaceEach'
  <2>1. \A k, l \in Keys : info'[k] = info'[l] /\ info'[k] # None => k = l
    BY DEF PoolInv, PlaceInv, OnePlaceEach
  <2>2. Distinct(dispose')
    BY <1>2, <1>5 DEF PoolInv, PlaceInv, OnePlaceEach
  <2>3. Queued' = Queued \cup {info[k] : k \in K}
    BY <1>2 DEF Queued
  <2>4. InTransit' = InTransit
    BY DEF InTransit, CallAt
  <2>. QED
    BY <1>4, <2>1, <2>2, <2>3, <2>4 DEF PoolInv, PlaceInv, OnePlaceEach
<1>7. Mutex' /\ Requests' /\ Hands'
  BY NamesAssumption
  DEF PoolInv, PlaceInv, Mutex, Requests, RequestOK, Hands, HoldPlaces, LoanPlaces,
      MapFree, CallAt, Key, Borrowers
<1>8. Loans' /\ Uses'
  BY DEF PoolInv, PlaceInv, Loans, Uses, SomeAt, CallAt, One
<1>. QED
  BY <1>1, <1>2, <1>3, <1>6, <1>7, <1>8 DEF PlaceInv

\* A second wasted call moves one thread from the map to the queue.
LEMMA WasteKeeps ==
  ASSUME PoolInv, NEW t \in Threads, Waste(t)
  PROVE  PoolInv'
<1>. DEFINE k == task[t]
<1>1. Proceeds(t) /\ k \in Keys
  BY DEF Waste, Proceeds, PoolInv, Jobs, At, JobPlaces
<1>2. UNCHANGED <<on, inUse, clientsMtx, readers, free, busy, poolMtx, call, req, held, offAt>>
  BY DEF Waste, poolVars, callVars
<1>3. /\ UNCHANGED <<pc[House], At(House, "giveBack"), At(House, "leave")>>
      /\ UNCHANGED <<OffAt("up"), OffAt("giveBack"), OffAt("leave")>>
  BY <1>1, <1>2, ProceedsKeeps DEF At, OffAt
<1>4. wasted' \in [Keys -> 0 .. 1]
  <2>1. wasted \in [Keys -> 0 .. 1]
    BY DEF PoolInv, TypeOK, MapTypeOK
  <2>2. CASE UNCHANGED wasted
    BY <2>1, <2>2
  <2>3. CASE wasted[k] # 1 /\ wasted' = [wasted EXCEPT ![k] = @ + 1]
    BY <2>1, <2>3, <1>1
  <2>. QED
    BY <2>2, <2>3 DEF Waste
<1>5. PlaceInv' /\ dispose' \in Seq(Threads) /\ info' \in [Keys -> Threads \cup {None}]
  <2>1. CASE UNCHANGED <<info, dispose>>
    <3>1. PlaceInv'
      BY <1>2, <1>3, <2>1, Frame DEF core
    <3>. QED
      BY <2>1, <3>1 DEF PoolInv, TypeOK, MapTypeOK
  <2>2. CASE /\ Valid(k)
             /\ dispose' = Append(dispose, info[k])
             /\ info' = [info EXCEPT ![k] = None]
    <3>1. {k} \in SUBSET MappedKeys /\ info[k] \in Threads
      BY <1>1, <2>2 DEF Valid, MappedKeys, PoolInv, TypeOK, MapTypeOK
    <3>2. PICK u \in Seq(Threads) :
             u = <<info[k]>> /\ Len(u) = 1 /\ Elements(u) = {info[k]} /\ Distinct(u)
      BY <3>1, OneElement
    <3>3. dispose' = dispose \o u
      BY <2>2, <3>1, <3>2, AppendIsConcat DEF PoolInv, TypeOK, MapTypeOK
    <3>4. info' = [l \in Keys |-> IF l \in {k} THEN None ELSE info[l]]
      BY <1>1, <2>2 DEF PoolInv, TypeOK, MapTypeOK
    <3>5. Len(u) = Cardinality({k}) /\ Elements(u) = {info[l] : l \in {k}}
      <4>1. Cardinality({k}) = 1
        BY FS_Singleton
      <4>2. {info[l] : l \in {k}} = {info[k]}
        OBVIOUS
      <4>. QED
        BY <3>2, <4>1, <4>2
    <3>6. Phases'
      BY <1>1, <1>2, <1>3, <2>2
      DEF PoolInv, PlaceInv, Phases, HouseGone, MapEmpty, Valid, OffAt, At
    <3>. QED
      BY <3>1, <3>2, <3>3, <3>4, <3>5, <3>6, <1>2, <1>3, Disposed DEF Waste
  <2>. QED
    BY <2>1, <2>2 DEF Waste
<1>. QED
  BY <1>1, <1>2, <1>4, <1>5, ProceedsKeeps
  DEF PoolInv, TypeOK, MapTypeOK, PoolTypeOK, CallTypeOK

-----------------------------------------------------------------------------
(* The housekeeper.                                                        *)

\* Steps of the housekeeper that leave the core alone.
Keeps == HouseAsk \/ HouseClose \/ HouseJoin \/ HouseSwept

\* These keep the invariant: only threads and hands change.
LEMMA HouseKeepsCore ==
  ASSUME PoolInv, Keeps
  PROVE  PoolInv'
<1>. House \in Workers /\ House \notin Threads /\ \A t \in Threads : t \in Workers
  BY NamesAssumption DEF Workers
<1>1. UNCHANGED <<core, wasted>>
  BY DEF Keeps, HouseAsk, HouseClose, HouseJoin, HouseSwept, outside, mapVars, poolVars, callVars,
         core
<1>2. MapTypeOK' /\ CallTypeOK'
  BY <1>1 DEF PoolInv, TypeOK, MapTypeOK, CallTypeOK, core
<1>3. /\ ThreadTypeOK' /\ Jobs'
      /\ pc[House] \in {"ask", "sweep", "join"}
      /\ pc'[House] \in {"loop", "hasWork", "sweep", "join"}
      /\ UNCHANGED held[Owner]
      /\ PoolTypeOK'
  <2>1. CASE HouseAsk
    BY <2>1 DEF HouseAsk, PoolInv, TypeOK, ThreadTypeOK, PoolTypeOK, Places, Jobs, JobPlaces,
                Goto, Finish, At, outside, poolVars
  <2>2. CASE HouseClose
    <3>1. PICK n \in DOMAIN free :
             CancelAndStop(free[n]) /\ held' = [held EXCEPT ![House] = free[n]]
      BY <2>2 DEF HouseClose
    <3>2. free[n] \in Threads
      BY DEF PoolInv, TypeOK, PoolTypeOK
    <3>3. /\ Goto(House, "join") /\ At(House, "sweep") /\ poolMtx' = House
          /\ UNCHANGED <<readers, free, busy, task, offAt>>
      BY <2>2 DEF HouseClose, Sweeping, poolVars
    <3>4. PoolTypeOK' /\ held'[House] = free[n] /\ held'[Owner] = held[Owner]
      BY <3>1, <3>2, <3>3, NamesAssumption DEF PoolInv, TypeOK, PoolTypeOK
    <3>5. ThreadTypeOK'
      BY <3>1, <3>3 DEF CancelAndStop, Goto, PoolInv, TypeOK, ThreadTypeOK, Places
    <3>6. Jobs'
      BY <3>1, <3>2, <3>3, <3>4
      DEF CancelAndStop, Goto, PoolInv, TypeOK, ThreadTypeOK, Jobs
    <3>. QED
      BY <3>3, <3>4, <3>5, <3>6 DEF Goto, At, PoolInv, TypeOK, ThreadTypeOK
  <2>3. CASE HouseJoin
    BY <2>3, NamesAssumption
    DEF HouseJoin, PoolInv, TypeOK, ThreadTypeOK, PoolTypeOK, Places, Jobs, JobPlaces, At, poolVars
  <2>4. CASE HouseSwept
    BY <2>4 DEF HouseSwept, Sweeping, PoolInv, TypeOK, ThreadTypeOK, PoolTypeOK, Places, Jobs,
                JobPlaces, Goto, Finish, At, poolVars
  <2>. QED
    BY <2>1, <2>2, <2>3, <2>4 DEF Keeps
<1>4. PlaceInv'
  <2>1. ~HouseGone
    BY <1>3 DEF PoolInv, PlaceInv, Phases, At
  <2>. QED
    BY <1>1, <1>3, <2>1, Frame DEF At
<1>. QED
  BY <1>2, <1>3, <1>4 DEF PoolInv, TypeOK

\* Nobody is in these places while _clients_mtx is free.
LEMMA NoHolder ==
  ASSUME PoolInv, MapFree
  PROVE  /\ \A b \in Borrowers : call[b] \notin HoldPlaces
         /\ ~SomeAt("take") /\ ~SomeAt("activate")
BY NamesAssumption
DEF PoolInv, PlaceInv, Mutex, MapFree, HoldPlaces, SomeAt, CallAt, Borrowers

\* v_do_job of the housekeeper: the thread leaves the queue, and is out of use.
LEMMA HouseTakeKeeps ==
  ASSUME PoolInv, HouseTake
  PROVE  PoolInv'
<1>. House \in Workers /\ House \notin Threads /\ \A t \in Threads : t \in Workers
  BY NamesAssumption DEF Workers
<1>0. /\ At(House, "hasWork") /\ MapFree
      /\ UNCHANGED <<on, info, wasted, clientsMtx, readers, free, busy, poolMtx, state, job, awake,
                     call, req, offAt>>
  BY DEF HouseTake, callVars, poolVars
<1>1. ~HouseGone
  BY <1>0 DEF PoolInv, PlaceInv, Phases, At
<1>2. CASE ~(on /\ dispose # <<>>)
  <2>1. UNCHANGED <<held, dispose, inUse>> /\ Finish(House, "exec")
    BY <1>2 DEF HouseTake
  <2>2. ThreadTypeOK' /\ Jobs' /\ pc'[House] = "exec"
    BY <1>0, <2>1 DEF PoolInv, TypeOK, ThreadTypeOK, Jobs, JobPlaces, Places, Finish, Goto
  <2>3. PlaceInv'
    BY <1>0, <1>1, <2>1, <2>2, Frame DEF core, At
  <2>. QED
    BY <1>0, <2>1, <2>2, <2>3 DEF PoolInv, TypeOK, MapTypeOK, PoolTypeOK, CallTypeOK
<1>3. CASE on /\ dispose # <<>>
  <2>1. /\ held' = [held EXCEPT ![House] = Head(dispose)]
        /\ dispose' = Tail(dispose)
        /\ inUse' = inUse - 1
        /\ Goto(House, "giveBack")
        /\ UNCHANGED task
    BY <1>3 DEF HouseTake
  <2>2. /\ dispose' \in Seq(Threads) /\ Head(dispose) \in Threads /\ Head(dispose) \in Queued
        /\ Len(dispose) \in Nat \ {0} /\ Len(dispose') = Len(dispose) - 1
        /\ Queued' = Queued \ {Head(dispose)} /\ Distinct(dispose')
    BY <1>3, <2>1, TailElements
    DEF PoolInv, PlaceInv, TypeOK, MapTypeOK, OnePlaceEach, Queued
  <2>3. inUse = Cardinality(MappedKeys) + Len(dispose) /\ Cardinality(MappedKeys) \in Nat
    BY <1>3, KeysFinite, FS_CardinalityType
    DEF PoolInv, PlaceInv, Phases, UseCounted, MappedKeys
  <2>4. MapTypeOK'
    BY <1>0, <2>1, <2>2, <2>3, CapacityAssumption DEF PoolInv, TypeOK, MapTypeOK
  <2>5. PoolTypeOK' /\ held'[House] = Head(dispose) /\ held'[Owner] = held[Owner]
    BY <1>0, <2>1, <2>2, NamesAssumption DEF PoolInv, TypeOK, PoolTypeOK
  <2>6. ThreadTypeOK' /\ pc'[House] = "giveBack"
    BY <1>0, <2>1 DEF PoolInv, TypeOK, ThreadTypeOK, Places, Goto
  <2>7. CallTypeOK'
    BY <1>0 DEF PoolInv, TypeOK, CallTypeOK
  <2>8. Jobs'
    BY <1>0, <2>1, <2>2, <2>5 DEF PoolInv, TypeOK, ThreadTypeOK, Jobs, Goto
  <2>9. Requests' /\ Mutex' /\ Hands' /\ Phases'
    BY <1>0, <1>1, <1>3, <2>1, NoHolder
    DEF PoolInv, PlaceInv, Requests, RequestOK, Mutex, Hands, Phases, HoldPlaces, LoanPlaces, CallAt,
        Key, OffAt, HouseGone, MapEmpty
  <2>10. Loans' /\ Uses' /\ UseCounted'
    <3>1. UNCHANGED <<SomeAt("take"), SomeAt("activate"), OffAt("leave"), OffAt("up"), MappedKeys>>
      BY <1>0 DEF SomeAt, CallAt, OffAt, MappedKeys
    <3>2. ~At(House, "giveBack") /\ ~At(House, "leave") /\ At(House, "giveBack")' /\ ~At(House, "leave")'
      BY <1>0, <2>6 DEF At
    <3>3. Cardinality(busy) \in Nat /\ inUse \in Nat
      BY <2>3, BusyFinite DEF PoolInv, TypeOK, MapTypeOK
    <3>4. Loans'
      BY <1>0, <3>1, <3>2 DEF PoolInv, PlaceInv, Loans, One
    <3>5. Uses'
      BY <1>0, <2>1, <3>1, <3>2, <3>3 DEF PoolInv, PlaceInv, Uses, One
    <3>6. UseCounted'
      BY <1>0, <2>1, <2>2, <2>3, <3>1 DEF UseCounted, MappedKeys
    <3>. QED
      BY <3>4, <3>5, <3>6
  <2>11. OnePlaceEach'
    <3>1. InTransit' = InTransit \cup {Head(dispose)}
      BY <1>0, <2>2, <2>5, <2>6 DEF InTransit, At, OffAt, CallAt
    <3>2. Mapped' = Mapped
      BY <1>0 DEF Mapped
    <3>. QED
      BY <1>0, <2>2, <3>1, <3>2 DEF PoolInv, PlaceInv, OnePlaceEach
  <2>. QED
    BY <2>4, <2>5, <2>6, <2>7, <2>8, <2>9, <2>10, <2>11 DEF PoolInv, TypeOK, PlaceInv
<1>. QED
  BY <1>2, <1>3

\* A thread in somebody's hands comes back to the free ones.
LEMMA GivenBack ==
  ASSUME PoolInv, NEW t \in InTransit, TakeBack(t), InTransit' = InTransit \ {t},
         UNCHANGED <<info, dispose>>
  PROVE  /\ OnePlaceEach'
         /\ busy' \subseteq Threads /\ free' \in Seq(Threads)
         /\ Cardinality(busy') = Cardinality(busy) - 1
         /\ job' \in [Workers -> Keys \cup {House, None}]
         /\ \A u \in Threads : job'[u] \in Keys \cup {None}
         /\ awake' \in [Workers -> BOOLEAN]
<1>. t \in busy /\ t \in Threads /\ free \in Seq(Threads) /\ t \notin Elements(free)
  BY DEF PoolInv, PlaceInv, OnePlaceEach, TypeOK, PoolTypeOK
<1>1. busy' = busy \ {t} /\ free' = <<t>> \o free
  BY DEF TakeBack
<1>2. Cardinality(busy') = Cardinality(busy) - 1
  BY <1>1, BusyFinite, FS_RemoveElement
<1>3. free' \in Seq(Threads) /\ Elements(free') = Elements(free) \cup {t} /\ Distinct(free')
  <2>1. /\ <<t>> \o free \in Seq(Threads)
        /\ Elements(<<t>> \o free) = Elements(free) \cup {t}
        /\ Distinct(free) /\ t \notin Elements(free) => Distinct(<<t>> \o free)
    BY ConsElements
  <2>. QED
    BY <1>1, <2>1, Zenon DEF PoolInv, PlaceInv, OnePlaceEach
<1>4. OnePlaceEach'
  <2>1. Mapped' = Mapped /\ Queued' = Queued
    BY DEF Mapped, Queued
  <2>. QED
    BY <1>1, <1>3, <2>1 DEF PoolInv, PlaceInv, OnePlaceEach
<1>5. /\ job' \in [Workers -> Keys \cup {House, None}]
      /\ \A u \in Threads : job'[u] \in Keys \cup {None}
      /\ awake' \in [Workers -> BOOLEAN]
  BY DEF TakeBack, Cancel, PoolInv, TypeOK, ThreadTypeOK, Jobs, Workers
<1>. QED
  BY <1>1, <1>2, <1>3, <1>4, <1>5 DEF PoolInv, TypeOK, PoolTypeOK

\* The housekeeper's thread comes back to the pool; its loan is still counted.
LEMMA HouseGiveBackKeeps ==
  ASSUME PoolInv, HouseGiveBack
  PROVE  PoolInv'
<1>. DEFINE t == held[House]
<1>. House \in Workers /\ House \notin Threads /\ \A u \in Threads : u \in Workers
  BY NamesAssumption DEF Workers
<1>0. /\ At(House, "giveBack") /\ TakeBack(t) /\ Goto(House, "leave")
      /\ UNCHANGED <<on, inUse, info, wasted, dispose, clientsMtx, readers, poolMtx, state, task,
                     held, call, req, offAt>>
  BY DEF HouseGiveBack, mapVars, callVars
<1>1. ~HouseGone /\ t \in Threads
  BY <1>0 DEF PoolInv, PlaceInv, Phases, Jobs, At
<1>2. pc' \in [Workers -> Places] /\ pc'[House] = "leave" /\ \A u \in Threads : pc'[u] = pc[u]
  BY <1>0 DEF PoolInv, TypeOK, ThreadTypeOK, Places, Goto
<1>3. t \in InTransit /\ InTransit' = InTransit \ {t}
  <2>1. ~OffAt("giveBack")
    BY <1>1 DEF HouseGone, OffAt
  <2>2. \A b \in Borrowers : CallAt(b, "activate") => req[b].thread # t
    BY <1>0 DEF PoolInv, PlaceInv, Hands
  <2>. QED
    BY <1>0, <1>1, <1>2, <2>1, <2>2 DEF InTransit, At, OffAt, CallAt
<1>4. /\ OnePlaceEach'
      /\ busy' \subseteq Threads /\ free' \in Seq(Threads)
      /\ Cardinality(busy') = Cardinality(busy) - 1
      /\ job' \in [Workers -> Keys \cup {House, None}]
      /\ \A u \in Threads : job'[u] \in Keys \cup {None}
      /\ awake' \in [Workers -> BOOLEAN]
  BY <1>0, <1>3, GivenBack
<1>5. TypeOK' /\ Jobs'
  BY <1>0, <1>2, <1>4
  DEF PoolInv, TypeOK, MapTypeOK, PoolTypeOK, ThreadTypeOK, CallTypeOK, Jobs
<1>6. Requests' /\ Mutex' /\ Hands'
  BY <1>0, <1>2 DEF PoolInv, PlaceInv, Requests, RequestOK, Mutex, Hands, CallAt, Key, At
<1>7. Phases'
  BY <1>0, <1>1 DEF PoolInv, PlaceInv, Phases, HouseGone, MapEmpty, OffAt
<1>8. Loans' /\ Uses' /\ UseCounted'
  <2>1. UNCHANGED <<SomeAt("take"), SomeAt("activate"), OffAt("leave"), OffAt("up")>>
    BY <1>0 DEF SomeAt, CallAt, OffAt
  <2>2. ~At(House, "leave") /\ ~At(House, "giveBack")' /\ At(House, "leave")'
    BY <1>0, <1>2 DEF At
  <2>. QED
    BY <1>0, <1>4, <2>1, <2>2, BusyFinite
    DEF PoolInv, PlaceInv, TypeOK, MapTypeOK, PoolTypeOK, Loans, Uses, UseCounted, One
<1>. QED
  BY <1>4, <1>5, <1>6, <1>7, <1>8 DEF PoolInv, PlaceInv

\* The housekeeper leaves the gate.
LEMMA HouseLeaveKeeps ==
  ASSUME PoolInv, HouseLeave
  PROVE  PoolInv'
<1>. House \in Workers /\ House \notin Threads /\ \A u \in Threads : u \in Workers
  BY NamesAssumption DEF Workers
<1>0. /\ At(House, "leave") /\ Finish(House, "exec")
      /\ readers' = readers - 1 /\ held' = [held EXCEPT ![House] = None]
      /\ UNCHANGED <<on, inUse, info, wasted, dispose, clientsMtx, free, busy, poolMtx, state, job,
                     awake, call, req, offAt>>
  BY DEF HouseLeave, mapVars, callVars
<1>1. ~HouseGone
  BY <1>0 DEF PoolInv, PlaceInv, Phases, At
<1>2. ThreadTypeOK' /\ pc'[House] = "exec" /\ \A u \in Threads : pc'[u] = pc[u] /\ task'[u] = task[u]
  BY <1>0 DEF PoolInv, TypeOK, ThreadTypeOK, Places, Goto, Finish
<1>3. UNCHANGED <<SomeAt("take"), SomeAt("activate"), OffAt("leave"), OffAt("up")>>
  BY <1>0 DEF SomeAt, CallAt, OffAt
<1>4. /\ At(House, "leave") /\ ~At(House, "giveBack")
      /\ ~At(House, "leave")' /\ ~At(House, "giveBack")'
  BY <1>0, <1>2 DEF At
<1>5. Loans' /\ Uses' /\ UseCounted' /\ readers' \in 0 .. Capacity
  BY <1>0, <1>3, <1>4, BusyFinite, CapacityAssumption
  DEF PoolInv, PlaceInv, TypeOK, PoolTypeOK, Loans, Uses, UseCounted, One
<1>6. PoolTypeOK' /\ held'[Owner] = held[Owner]
  BY <1>0, <1>5, NamesAssumption DEF PoolInv, TypeOK, PoolTypeOK
<1>7. TypeOK' /\ Jobs'
  BY <1>0, <1>2, <1>6 DEF PoolInv, TypeOK, MapTypeOK, CallTypeOK, Jobs
<1>8. Requests' /\ Mutex' /\ Hands' /\ Phases'
  BY <1>0, <1>1, <1>4
  DEF PoolInv, PlaceInv, Requests, RequestOK, Mutex, Hands, Phases, CallAt, Key,
      HouseGone, MapEmpty, OffAt
<1>9. OnePlaceEach'
  <2>1. InTransit' = InTransit
    BY <1>0, <1>4, <1>6 DEF InTransit, OffAt, CallAt
  <2>2. Mapped' = Mapped /\ Queued' = Queued
    BY <1>0 DEF Mapped, Queued
  <2>. QED
    BY <1>0, <2>1, <2>2 DEF PoolInv, PlaceInv, OnePlaceEach
<1>. QED
  BY <1>5, <1>7, <1>8, <1>9 DEF PoolInv, PlaceInv

\* All the housekeeper's steps keep the invariant.
LEMMA HouseKeeps == ASSUME PoolInv, HouseStep PROVE PoolInv'
BY HouseKeepsCore, HouseTakeKeeps, HouseGiveBackKeeps, HouseLeaveKeeps DEF HouseStep, Keeps

-----------------------------------------------------------------------------
(* Calls.                                                                  *)

\* A step of borrower b's call that neither takes a thread nor has one.
LEMMA CallFrame ==
  ASSUME PoolInv, NEW b \in Borrowers,
         UNCHANGED <<on, inUse, info, dispose, readers, free, busy, offAt, held, pc[House]>>,
         \A a \in Borrowers \ {b} : call'[a] = call[a] /\ req'[a] = req[a],
         call[b] \notin {"take", "activate"}, call'[b] \notin {"take", "activate"},
         RequestOK(b)',
         clientsMtx' = clientsMtx \/ {clientsMtx, clientsMtx'} = {b, None},
         call'[b] \in HoldPlaces <=> clientsMtx' = b
  PROVE  PlaceInv'
<1>1. Requests' /\ Hands'
  BY DEF PoolInv, PlaceInv, Requests, RequestOK, Hands, CallAt, Key, At
<1>2. Mutex'
  BY NamesAssumption DEF PoolInv, PlaceInv, Mutex, Borrowers
<1>3. Phases'
  BY DEF PoolInv, PlaceInv, Phases, OffAt, At, HouseGone, MapEmpty
<1>4. Loans' /\ Uses' /\ UseCounted'
  <2>1. UNCHANGED <<SomeAt("take"), SomeAt("activate"), OffAt("leave"), OffAt("up"),
                    At(House, "leave"), At(House, "giveBack")>>
    BY DEF SomeAt, CallAt, OffAt, At
  <2>. QED
    BY <2>1 DEF PoolInv, PlaceInv, Loans, Uses, UseCounted, One
<1>5. OnePlaceEach'
  <2>1. InTransit' = InTransit
    BY DEF InTransit, At, OffAt, CallAt
  <2>2. Mapped' = Mapped /\ Queued' = Queued
    BY DEF Mapped, Queued
  <2>. QED
    BY <2>1, <2>2 DEF PoolInv, PlaceInv, OnePlaceEach
<1>. QED
  BY <1>1, <1>2, <1>3, <1>4, <1>5 DEF PlaceInv

\* A call that begins holds nothing yet.
LEMMA CallBegins ==
  ASSUME PoolInv, NEW b \in Borrowers, NEW c \in Clients, Call(b, c), UNCHANGED pc[House],
         ThreadTypeOK', \A t \in Threads : pc'[t] \in JobPlaces => pc[t] \in JobPlaces
  PROVE  PoolInv'
<1>1. /\ call[b] = "idle"
      /\ UNCHANGED <<on, inUse, info, wasted, dispose, clientsMtx, readers, free, busy, poolMtx,
                     state, job, awake, task, held, offAt>>
  BY DEF Call, CallAt, mapVars, poolVars
<1>2. PICK i \in Idents, j \in Idents, place \in {"borrow", "range"} :
         CallGoto(b, place) /\ req' = [req EXCEPT ![b] = Request(c, i, j)]
  BY DEF Call
<1>3. /\ CallTypeOK'
      /\ call'[b] = place /\ req'[b].client = c /\ req'[b].from = i
      /\ \A a \in Borrowers \ {b} : call'[a] = call[a] /\ req'[a] = req[a]
  <2>1. Request(c, i, j) \in [client : Clients \cup {None}, from : 0 .. LastIdent + 1, to : Idents,
                              thread : Threads \cup {None}]
    BY BoundsAssumption DEF Request, Idents
  <2>2. Request(c, i, j).client = c /\ Request(c, i, j).from = i
    BY DEF Request
  <2>. QED
    BY <1>1, <1>2, <2>1, <2>2 DEF PoolInv, TypeOK, CallTypeOK, CallPlaces, CallGoto
<1>4. RequestOK(b)'
  BY <1>3 DEF RequestOK, CallAt, LoanPlaces, HoldPlaces
<1>5. call'[b] \in HoldPlaces <=> clientsMtx' = b
  BY <1>1, <1>3 DEF PoolInv, PlaceInv, Mutex, HoldPlaces
<1>6. PlaceInv'
  BY <1>1, <1>3, <1>4, <1>5, CallFrame
<1>7. TypeOK' /\ Jobs'
  BY <1>1, <1>3 DEF PoolInv, TypeOK, MapTypeOK, PoolTypeOK, Jobs
<1>. QED
  BY <1>6, <1>7 DEF PoolInv

\* Calls from outside and calls from a client's job begin alike.
LEMMA CallKeeps ==
  /\ \A b \in Callers : PoolInv /\ OutsideCall(b) => PoolInv'
  /\ \A t \in Threads : PoolInv /\ NestedCall(t) => PoolInv'
<1>1. ASSUME PoolInv, NEW b \in Callers, OutsideCall(b)
      PROVE  PoolInv'
  <2>1. PICK c \in Clients : Call(b, c)
    BY <1>1 DEF OutsideCall
  <2>2. UNCHANGED <<pc, state, job, awake, task>>
    BY <1>1, <2>1 DEF OutsideCall, Call
  <2>3. ThreadTypeOK' /\ b \in Borrowers
    BY <1>1, <2>2 DEF PoolInv, TypeOK, ThreadTypeOK, Borrowers
  <2>. QED
    BY <1>1, <2>1, <2>2, <2>3, CallBegins
<1>2. ASSUME PoolInv, NEW t \in Threads, NestedCall(t)
      PROVE  PoolInv'
  <2>1. Call(t, task[t][1]) /\ Goto(t, "finishing") /\ pc[t] = "working"
    BY <1>2 DEF NestedCall, At
  <2>2. task[t][1] \in Clients
    BY <1>2, <2>1 DEF PoolInv, Jobs, JobPlaces, Keys
  <2>3. UNCHANGED <<state, job, awake, task>>
    BY <2>1 DEF Call
  <2>4. /\ ThreadTypeOK' /\ t \in Borrowers /\ pc'[House] = pc[House]
        /\ \A u \in Threads : pc'[u] \in JobPlaces => pc[u] \in JobPlaces
    BY <1>2, <2>1, <2>3, NamesAssumption
    DEF PoolInv, TypeOK, ThreadTypeOK, Borrowers, Workers, Goto, Places, JobPlaces
  <2>. QED
    BY <1>2, <2>1, <2>2, <2>4, CallBegins
<1>. QED
  BY <1>1, <1>2

\* The three ways the search for a thread goes on.
LEMMA Returns ==
  ASSUME PoolInv, NEW b \in Borrowers, Return(b), offAt' = offAt
  PROVE  /\ CallTypeOK' /\ RequestOK(b)'
         /\ call'[b] = "idle"
         /\ \A a \in Borrowers \ {b} : call'[a] = call[a] /\ req'[a] = req[a]
<1>1. NoRequest \in [client : Clients \cup {None}, from : 0 .. LastIdent + 1, to : Idents,
                     thread : Threads \cup {None}]
  BY BoundsAssumption DEF NoRequest, Request, Idents
<1>. QED
  BY <1>1 DEF PoolInv, TypeOK, CallTypeOK, CallPlaces, Return, CallGoto, RequestOK, CallAt,
              HoldPlaces, LoanPlaces

\* The thread of the key is there, and is woken later.
LEMMA WakesLater ==
  ASSUME PoolInv, NEW b \in Borrowers, ~CallAt(b, "idle"), Key(b) \in Keys, Valid(Key(b)),
         WakeLater(b), offAt' = offAt
  PROVE  /\ CallTypeOK' /\ RequestOK(b)'
         /\ call'[b] = "wake" /\ wasted' \in [Keys -> 0 .. 1]
         /\ \A a \in Borrowers \ {b} : call'[a] = call[a] /\ req'[a] = req[a]
<1>1. info[Key(b)] \in Threads
  BY DEF PoolInv, TypeOK, MapTypeOK, Valid
<1>2. wasted' \in [Keys -> 0 .. 1]
  BY DEF WakeLater, PoolInv, TypeOK, MapTypeOK
<1>3. req[b].client \in Clients
  BY DEF PoolInv, PlaceInv, Requests, RequestOK
<1>. QED
  BY <1>1, <1>2, <1>3
  DEF PoolInv, TypeOK, CallTypeOK, CallPlaces, WakeLater, CallGoto, RequestOK, CallAt, HoldPlaces,
      LoanPlaces

\* The search goes on, or a loan begins because the key has no thread.
LEMMA GoesOn ==
  ASSUME PoolInv, NEW b \in Borrowers, ~CallAt(b, "idle"), NEW place \in {"scan", "enter"}, on, on',
         CallGoto(b, place), offAt' = offAt, UNCHANGED <<req, inUse, info>>,
         place = "enter" => inUse # Capacity /\ Key(b) \in Keys /\ ~Valid(Key(b))
  PROVE  /\ CallTypeOK' /\ RequestOK(b)'
         /\ call'[b] = place
         /\ \A a \in Borrowers \ {b} : call'[a] = call[a] /\ req'[a] = req[a]
<1>1. CallTypeOK' /\ call'[b] = place /\ \A a \in Borrowers \ {b} : call'[a] = call[a]
  BY DEF PoolInv, TypeOK, CallTypeOK, CallPlaces, CallGoto
<1>2. place = "enter" => inUse < Capacity
  BY CapacityAssumption DEF PoolInv, TypeOK, MapTypeOK
<1>3. req[b].client \in Clients
  BY DEF PoolInv, PlaceInv, Requests, RequestOK
<1>. QED
  BY <1>1, <1>2, <1>3 DEF RequestOK, CallAt, Key, Valid, HoldPlaces, LoanPlaces

\* borrow_thread and borrow_from_range up to the loan.
LEMMA SearchKeeps ==
  ASSUME PoolInv, NEW b \in Borrowers, Borrow(b) \/ BorrowRange(b) \/ Scan(b)
  PROVE  PoolInv'
<1>. DEFINE Others == \A a \in Borrowers \ {b} : call'[a] = call[a] /\ req'[a] = req[a]
<1>. b # None
  BY NamesAssumption DEF Borrowers
<1>1. /\ UNCHANGED <<on, inUse, info, dispose, readers, free, busy, poolMtx, offAt, held>>
      /\ UNCHANGED <<state, job, awake, pc, task>>
      /\ call[b] \in {"borrow", "range", "scan"} /\ ~CallAt(b, "idle")
  BY DEF Borrow, BorrowRange, Scan, mapVars, poolVars, threadVars, CallAt
<1>2. /\ CallTypeOK' /\ RequestOK(b)' /\ Others
      /\ wasted' \in [Keys -> 0 .. 1]
      /\ call'[b] \in {"idle", "wake", "scan", "enter"}
      /\ clientsMtx' = clientsMtx \/ {clientsMtx, clientsMtx'} = {b, None}
      /\ call'[b] \in HoldPlaces <=> clientsMtx' = b
  <2>. wasted \in [Keys -> 0 .. 1]
    BY DEF PoolInv, TypeOK, MapTypeOK
  <2>1. CASE Borrow(b)
    <3>1. Key(b) \in Keys /\ MapFree /\ call[b] = "borrow"
      BY <2>1 DEF Borrow, PoolInv, PlaceInv, Requests, RequestOK, CallAt, Key, Keys
    <3>2. CASE Return(b) /\ UNCHANGED <<wasted, clientsMtx>>
      BY <1>1, <3>1, <3>2, Returns DEF MapFree, HoldPlaces
    <3>3. CASE Valid(Key(b)) /\ WakeLater(b) /\ UNCHANGED clientsMtx
      BY <1>1, <3>1, <3>3, WakesLater DEF MapFree, HoldPlaces
    <3>4. CASE /\ on /\ ~Valid(Key(b)) /\ inUse # Capacity
               /\ CallGoto(b, "enter")
               /\ clientsMtx' = b
               /\ UNCHANGED <<req, wasted>>
      BY <1>1, <3>1, <3>4, GoesOn DEF MapFree, HoldPlaces
    <3>. QED
      BY <2>1, <3>2, <3>3, <3>4 DEF Borrow
  <2>2. CASE BorrowRange(b)
    <3>1. MapFree /\ call[b] = "range" /\ UNCHANGED wasted
      BY <2>2 DEF BorrowRange, CallAt, mapVars
    <3>2. CASE on
      BY <1>1, <2>2, <3>1, <3>2, GoesOn DEF BorrowRange, MapFree, HoldPlaces
    <3>3. CASE ~on
      BY <1>1, <2>2, <3>1, <3>3, Returns DEF BorrowRange, MapFree, HoldPlaces
    <3>. QED
      BY <3>2, <3>3
  <2>3. CASE Scan(b)
    <3>. DEFINE inRange == req[b].from <= req[b].to
    <3>1. call[b] = "scan" /\ clientsMtx = b /\ on
      BY <2>3 DEF Scan, CallAt, PoolInv, PlaceInv, Mutex, Requests, RequestOK, HoldPlaces
    <3>2. req[b].client \in Clients /\ req[b].from \in 0 .. LastIdent + 1 /\ req[b].to \in Idents
      BY <1>1 DEF PoolInv, TypeOK, CallTypeOK, PlaceInv, Requests, RequestOK
    <3>3. inRange => Key(b) \in Keys /\ req[b].from + 1 \in 0 .. LastIdent + 1
      BY <3>2, BoundsAssumption DEF Key, Keys, Idents
    <3>4. CASE inRange /\ Valid(Key(b)) /\ WakeLater(b) /\ clientsMtx' = None
      BY <1>1, <3>1, <3>3, <3>4, WakesLater DEF HoldPlaces
    <3>5. CASE inRange /\ req' = [req EXCEPT ![b].from = @ + 1] /\ UNCHANGED <<call, wasted, clientsMtx>>
      <4>1. [req[b] EXCEPT !.from = @ + 1] \in [client : Clients \cup {None}, from : 0 .. LastIdent + 1,
                                                to : Idents, thread : Threads \cup {None}]
        BY <3>3, <3>5 DEF PoolInv, TypeOK, CallTypeOK
      <4>2. CallTypeOK' /\ Others /\ req'[b].client = req[b].client
        BY <1>1, <3>5, <4>1 DEF PoolInv, TypeOK, CallTypeOK
      <4>. QED
        BY <1>1, <3>1, <3>2, <3>5, <4>2 DEF RequestOK, CallAt, LoanPlaces, HoldPlaces
    <3>6. CASE Return(b) /\ clientsMtx' = None /\ UNCHANGED wasted
      BY <1>1, <3>1, <3>6, Returns DEF HoldPlaces
    <3>7. CASE /\ inRange /\ ~Valid(Key(b)) /\ inUse # Capacity
               /\ CallGoto(b, "enter")
               /\ UNCHANGED <<req, wasted, clientsMtx>>
      BY <1>1, <3>1, <3>3, <3>7, GoesOn DEF HoldPlaces
    <3>. QED
      BY <2>3, <3>4, <3>5, <3>6, <3>7 DEF Scan
  <2>. QED
    BY <2>1, <2>2, <2>3
<1>3. PlaceInv'
  BY <1>1, <1>2, CallFrame
<1>4. MapTypeOK' /\ PoolTypeOK' /\ ThreadTypeOK' /\ Jobs'
  BY <1>1, <1>2 DEF PoolInv, TypeOK, MapTypeOK, PoolTypeOK, ThreadTypeOK, Jobs, Borrowers
<1>. QED
  BY <1>2, <1>3, <1>4 DEF PoolInv, TypeOK

\* Waking a thread, whoever has it by now, moves nothing.
LEMMA WakeUpKeeps ==
  ASSUME PoolInv, NEW b \in Borrowers, WakeUp(b)
  PROVE  PoolInv'
<1>1. /\ UNCHANGED <<on, inUse, info, wasted, dispose, clientsMtx, readers, free, busy, poolMtx,
                     offAt, held, state, job, pc, task>>
      /\ call[b] = "wake" /\ Return(b)
  BY DEF WakeUp, mapVars, poolVars, CallAt
<1>2. awake' \in [Workers -> BOOLEAN]
  BY DEF WakeUp, PoolInv, TypeOK, ThreadTypeOK
<1>3. clientsMtx # b
  BY <1>1 DEF PoolInv, PlaceInv, Mutex, HoldPlaces
<1>4. PlaceInv' /\ CallTypeOK'
  BY <1>1, <1>3, Returns, CallFrame DEF HoldPlaces
<1>. QED
  BY <1>1, <1>2, <1>4 DEF PoolInv, TypeOK, MapTypeOK, PoolTypeOK, ThreadTypeOK, Jobs

\* Who holds _clients_mtx is alone, and the pool is up.
LEMMA OneHolder ==
  ASSUME PoolInv, NEW b \in Borrowers, call[b] \in HoldPlaces
  PROVE  /\ on /\ offAt = "up" /\ ~HouseGone
         /\ clientsMtx = b
         /\ \A a \in Borrowers \ {b} : call[a] \notin HoldPlaces
BY DEF PoolInv, PlaceInv, Mutex, Requests, RequestOK, Phases, OffAt, HouseGone

\* The gate counts the loan.
LEMMA EnterKeeps ==
  ASSUME PoolInv, NEW b \in Borrowers, Enter(b)
  PROVE  PoolInv'
<1>1. /\ UNCHANGED <<on, inUse, info, wasted, dispose, clientsMtx, free, busy, poolMtx, offAt, held,
                     state, job, awake, pc, task, req>>
      /\ call[b] = "enter" /\ CallGoto(b, "take")
      /\ readers < Capacity /\ readers' = readers + 1
  BY DEF Enter, mapVars, threadVars, CallAt
<1>2. /\ CallTypeOK' /\ call'[b] = "take" /\ \A a \in Borrowers \ {b} : call'[a] = call[a]
      /\ readers \in Nat /\ readers' \in 0 .. Capacity
  BY <1>1, CapacityAssumption DEF PoolInv, TypeOK, CallTypeOK, CallPlaces, CallGoto, PoolTypeOK
<1>3. /\ on /\ offAt = "up" /\ clientsMtx = b
      /\ \A a \in Borrowers \ {b} : call[a] \notin HoldPlaces
  BY <1>1, OneHolder DEF HoldPlaces
<1>4. Requests' /\ Mutex' /\ Hands' /\ Phases'
  BY <1>1, <1>2, <1>3
  DEF PoolInv, PlaceInv, Requests, RequestOK, Mutex, Hands, Phases, HoldPlaces, LoanPlaces, CallAt,
      Key, At, OffAt, HouseGone, MapEmpty
<1>5. Loans' /\ Uses' /\ UseCounted'
  <2>1. ~SomeAt("take") /\ SomeAt("take")' /\ ~SomeAt("activate") /\ ~SomeAt("activate")'
    BY <1>1, <1>2, <1>3 DEF SomeAt, CallAt, HoldPlaces
  <2>2. UNCHANGED <<OffAt("leave"), OffAt("up"), At(House, "leave"), At(House, "giveBack")>>
    BY <1>1 DEF OffAt, At
  <2>. QED
    BY <1>1, <1>2, <2>1, <2>2, BusyFinite DEF PoolInv, PlaceInv, Loans, Uses, UseCounted, One
<1>6. OnePlaceEach'
  <2>1. InTransit' = InTransit
    BY <1>1, <1>2 DEF InTransit, At, OffAt, CallAt
  <2>2. Mapped' = Mapped /\ Queued' = Queued
    BY <1>1 DEF Mapped, Queued
  <2>. QED
    BY <1>1, <2>1, <2>2 DEF PoolInv, PlaceInv, OnePlaceEach
<1>. QED
  BY <1>1, <1>2, <1>4, <1>5, <1>6
  DEF PoolInv, PlaceInv, TypeOK, MapTypeOK, PoolTypeOK, ThreadTypeOK, Jobs

\* A free or a new thread becomes busy, in the borrower's hands.
LEMMA TakeKeeps ==
  ASSUME PoolInv, NEW b \in Borrowers, Take(b)
  PROVE  PoolInv'
<1>1. /\ UNCHANGED <<on, inUse, info, wasted, dispose, clientsMtx, readers, poolMtx, offAt, held,
                     job, awake, task>>
      /\ call[b] = "take" /\ CallGoto(b, "activate")
  BY DEF Take, mapVars, CallAt
<1>2. PICK t \in Threads :
         /\ t \notin busy
         /\ busy' = busy \cup {t}
         /\ req' = [req EXCEPT ![b].thread = t]
         /\ UNCHANGED <<state, pc>> \/ Start(t)
         /\ free' \in Seq(Threads) /\ Distinct(free')
         /\ Elements(free') = Elements(free) \ {t}
  <2>. free \in Seq(Threads) /\ Distinct(free) /\ busy \cap Elements(free) = {}
    BY DEF PoolInv, TypeOK, PoolTypeOK, PlaceInv, OnePlaceEach
  <2>1. CASE free # <<>>
    <3>1. /\ Tail(free) \in Seq(Threads) /\ Distinct(Tail(free))
          /\ Head(free) \in Threads /\ Head(free) \in Elements(free)
          /\ Elements(Tail(free)) = Elements(free) \ {Head(free)}
      BY <2>1, TailElements
    <3>. QED
      BY <2>1, <3>1 DEF Take
  <2>2. CASE free = <<>>
    <3>1. PICK t \in Threads \ Created :
             busy' = busy \cup {t} /\ req' = [req EXCEPT ![b].thread = t] /\ Start(t) /\ free' = free
      BY <2>2 DEF Take
    <3>. QED
      BY <3>1 DEF Created
  <2>. QED
    BY <2>1, <2>2
<1>3. /\ CallTypeOK' /\ call'[b] = "activate"
      /\ req'[b].client = req[b].client /\ req'[b].from = req[b].from /\ req'[b].thread = t
      /\ \A a \in Borrowers \ {b} : call'[a] = call[a] /\ req'[a] = req[a]
  BY <1>1, <1>2 DEF PoolInv, TypeOK, CallTypeOK, CallPlaces, CallGoto
<1>4. /\ ThreadTypeOK' /\ pc'[House] = pc[House]
      /\ \A u \in Threads : pc'[u] \in JobPlaces => pc[u] \in JobPlaces
  BY <1>1, <1>2, NamesAssumption
  DEF PoolInv, TypeOK, ThreadTypeOK, Start, Goto, Places, JobPlaces, Workers
<1>5. /\ on /\ offAt = "up" /\ clientsMtx = b
      /\ \A a \in Borrowers \ {b} : call[a] \notin HoldPlaces
  BY <1>1, OneHolder DEF HoldPlaces
<1>6. TypeOK' /\ Jobs'
  BY <1>1, <1>2, <1>3, <1>4 DEF PoolInv, TypeOK, MapTypeOK, PoolTypeOK, Jobs
<1>7. At(House, "giveBack") => held[House] \in busy
  BY DEF PoolInv, PlaceInv, OnePlaceEach, Jobs, InTransit, At
<1>8. Requests' /\ Mutex' /\ Hands' /\ Phases'
  BY <1>1, <1>2, <1>3, <1>4, <1>5, <1>7
  DEF PoolInv, PlaceInv, Requests, RequestOK, Mutex, Hands, Phases, HoldPlaces, LoanPlaces, CallAt,
      Key, At, OffAt, HouseGone, MapEmpty
<1>9. Loans' /\ Uses' /\ UseCounted'
  <2>1. SomeAt("take") /\ ~SomeAt("take")' /\ ~SomeAt("activate") /\ SomeAt("activate")'
    BY <1>1, <1>3, <1>5 DEF SomeAt, CallAt, HoldPlaces
  <2>2. UNCHANGED <<OffAt("leave"), OffAt("up"), At(House, "leave"), At(House, "giveBack")>>
    BY <1>1, <1>4 DEF OffAt, At
  <2>3. Cardinality(busy') = Cardinality(busy) + 1
    BY <1>2, BusyFinite, FS_AddElement
  <2>. QED
    BY <1>1, <2>1, <2>2, <2>3, BusyFinite
    DEF PoolInv, TypeOK, MapTypeOK, PlaceInv, Loans, Uses, UseCounted, One
<1>10. OnePlaceEach'
  <2>1. InTransit' = InTransit \cup {t}
    BY <1>1, <1>3, <1>4, <1>5 DEF InTransit, At, OffAt, CallAt, HoldPlaces
  <2>2. Mapped' = Mapped /\ Queued' = Queued
    BY <1>1 DEF Mapped, Queued
  <2>. QED
    BY <1>1, <1>2, <2>1, <2>2 DEF PoolInv, PlaceInv, OnePlaceEach
<1>. QED
  BY <1>6, <1>8, <1>9, <1>10 DEF PoolInv, PlaceInv

\* The borrower's thread enters the map.
LEMMA ActivateKeeps ==
  ASSUME PoolInv, NEW b \in Borrowers, Activate(b)
  PROVE  PoolInv'
<1>. DEFINE t == req[b].thread
            k == Key(b)
<1>1. /\ UNCHANGED <<on, dispose, readers, free, busy, poolMtx, offAt, held, task>>
      /\ call[b] = "activate" /\ Return(b)
      /\ info' = [info EXCEPT ![k] = t] /\ wasted' = [wasted EXCEPT ![k] = 0]
      /\ inUse' = inUse + 1 /\ clientsMtx' = None
      /\ job' = [job EXCEPT ![t] = k] /\ awake' = [awake EXCEPT ![t] = TRUE]
      /\ UNCHANGED <<state, pc>> \/ Start(t)
  BY DEF Activate, poolVars, CallAt
<1>2. /\ CallTypeOK' /\ call'[b] = "idle"
      /\ \A a \in Borrowers \ {b} : call'[a] = call[a] /\ req'[a] = req[a]
  BY <1>1, Returns
<1>3. /\ on /\ offAt = "up" /\ clientsMtx = b
      /\ \A a \in Borrowers \ {b} : call[a] \notin HoldPlaces
  BY <1>1, OneHolder DEF HoldPlaces
<1>4. t \in Threads /\ k \in Keys /\ info[k] = None /\ inUse < Capacity /\ inUse \in Nat
  BY <1>1 DEF PoolInv, PlaceInv, Requests, RequestOK, LoanPlaces, TypeOK, MapTypeOK
<1>5. /\ ThreadTypeOK' /\ pc'[House] = pc[House]
      /\ \A u \in Threads : pc'[u] \in JobPlaces => pc[u] \in JobPlaces
  <2>1. state' \in [Workers -> {"CLOSE", "SLEEPING", "RUNNING", "STOPPING"}]
    BY <1>1 DEF PoolInv, TypeOK, ThreadTypeOK, Start
  <2>2. /\ pc' \in [Workers -> Places] /\ pc'[House] = pc[House]
        /\ \A u \in Threads : pc'[u] \in JobPlaces => pc[u] \in JobPlaces
    BY <1>1, <1>4, NamesAssumption
    DEF PoolInv, TypeOK, ThreadTypeOK, Start, Goto, Places, JobPlaces, Workers
  <2>3. job' \in [Workers -> Keys \cup {House, None}] /\ awake' \in [Workers -> BOOLEAN]
    BY <1>1, <1>4 DEF PoolInv, TypeOK, ThreadTypeOK
  <2>. QED
    BY <1>1, <2>1, <2>2, <2>3 DEF PoolInv, TypeOK, ThreadTypeOK
<1>6. Jobs'
  BY <1>1, <1>4, <1>5 DEF PoolInv, TypeOK, ThreadTypeOK, Jobs, Workers
<1>7. MapTypeOK' /\ PoolTypeOK'
  BY <1>1, <1>4, CapacityAssumption DEF PoolInv, TypeOK, MapTypeOK, PoolTypeOK
<1>8. Requests' /\ Mutex' /\ Hands'
  <2>1. RequestOK(b)'
    BY <1>2 DEF RequestOK, CallAt, HoldPlaces, LoanPlaces
  <2>2. \A a \in Borrowers \ {b} : RequestOK(a)'
    BY <1>1, <1>2, <1>3 DEF PoolInv, PlaceInv, Requests, RequestOK, CallAt, HoldPlaces, LoanPlaces
  <2>. QED
    BY <1>1, <1>2, <1>3, <2>1, <2>2, NamesAssumption
    DEF Requests, Mutex, Hands, HoldPlaces, CallAt, Borrowers
<1>9. Phases'
  BY <1>1, <1>3 DEF PoolInv, PlaceInv, Phases, OffAt, HouseGone, MapEmpty
<1>10. Loans' /\ Uses' /\ UseCounted'
  <2>1. ~SomeAt("take") /\ ~SomeAt("take")' /\ SomeAt("activate") /\ ~SomeAt("activate")'
    BY <1>1, <1>2, <1>3 DEF SomeAt, CallAt, HoldPlaces
  <2>2. UNCHANGED <<OffAt("leave"), OffAt("up"), At(House, "leave"), At(House, "giveBack")>>
    BY <1>1, <1>5 DEF OffAt, At
  <2>3. Cardinality(MappedKeys') = Cardinality(MappedKeys) + 1
    <3>1. MappedKeys' = MappedKeys \cup {k} /\ k \notin MappedKeys
      BY <1>1, <1>4, NamesAssumption DEF MappedKeys, PoolInv, TypeOK, MapTypeOK
    <3>. QED
      BY <3>1, KeysFinite, FS_AddElement
  <2>4. Cardinality(MappedKeys) \in Nat /\ Len(dispose) \in Nat
    BY KeysFinite, FS_CardinalityType DEF PoolInv, TypeOK, MapTypeOK
  <2>5. UseCounted'
    <3>1. inUse = Cardinality(MappedKeys) + Len(dispose)
      BY <1>3 DEF PoolInv, PlaceInv, UseCounted, MappedKeys, OffAt
    <3>2. inUse' = Cardinality(MappedKeys') + Len(dispose')
      BY <1>1, <1>4, <2>3, <2>4, <3>1
    <3>. QED
      BY <3>2 DEF UseCounted, MappedKeys
  <2>. QED
    BY <1>1, <1>4, <2>1, <2>2, <2>5, BusyFinite DEF PoolInv, PlaceInv, Loans, Uses, One
<1>11. OnePlaceEach'
  <2>1. t \in InTransit /\ InTransit' = InTransit \ {t}
    BY <1>1, <1>2, <1>3, <1>4, <1>5
    DEF PoolInv, PlaceInv, Hands, InTransit, At, OffAt, CallAt, HoldPlaces
  <2>2. Mapped' = Mapped \cup {t} /\ Queued' = Queued
    BY <1>1, <1>4, NamesAssumption DEF Mapped, Queued, PoolInv, TypeOK, MapTypeOK
  <2>3. \A l \in Keys : info[l] # t
    BY <1>4, <2>1, NamesAssumption DEF PoolInv, PlaceInv, OnePlaceEach, Mapped
  <2>4. \A l, m \in Keys : info'[l] = info'[m] /\ info'[l] # None => l = m
    BY <1>1, <1>4, <2>3 DEF PoolInv, PlaceInv, OnePlaceEach, TypeOK, MapTypeOK
  <2>. QED
    BY <1>1, <2>1, <2>2, <2>4 DEF PoolInv, PlaceInv, OnePlaceEach
<1>. QED
  BY <1>2, <1>5, <1>6, <1>7, <1>8, <1>9, <1>10, <1>11 DEF PoolInv, PlaceInv, TypeOK

\* All steps of a call keep the invariant.
LEMMA CallStepKeeps == ASSUME PoolInv, NEW b \in Borrowers, CallStep(b) PROVE PoolInv'
BY SearchKeeps, WakeUpKeeps, EnterKeeps, TakeKeeps, ActivateKeeps DEF CallStep

-----------------------------------------------------------------------------
(* revoke_client and off().                                                *)

\* _clean_up_clients queues the thread of every key once.
LEMMA CleanUpFacts ==
  ASSUME PoolInv, NEW C \in SUBSET Clients, CleanUp(KeysOf(C))
  PROVE  /\ KeysOf(C) \in SUBSET MappedKeys
         /\ info' = [k \in Keys |-> IF k \in KeysOf(C) THEN None ELSE info[k]]
         /\ \E u \in Seq(Threads) :
              /\ Len(u) = Cardinality(KeysOf(C)) /\ Distinct(u)
              /\ Elements(u) = {info[k] : k \in KeysOf(C)}
              /\ dispose' = dispose \o u
<1>. DEFINE K == KeysOf(C)
            n == Cardinality(K)
<1>1. K \in SUBSET MappedKeys
  BY DEF KeysOf, MappedKeys
<1>2. IsFiniteSet(K) /\ n \in Nat
  BY <1>1, KeysFinite, FS_Subset, FS_CardinalityType
<1>3. PICK order \in [1 .. n -> K] :
         /\ \A i, j \in 1 .. n : i < j => order[i] # order[j]
         /\ dispose' = dispose \o [i \in 1 .. n |-> info[order[i]]]
  BY DEF CleanUp
<1>. DEFINE u == [i \in 1 .. n |-> info[order[i]]]
<1>4. \A i, j \in 1 .. n : order[i] = order[j] => i = j
  BY <1>2, <1>3
<1>5. \A k \in K : \E i \in 1 .. n : order[i] = k
  <2>1. order \in Injection(1 .. n, K)
    BY <1>3, <1>4 DEF Injection, IsInjective
  <2>2. Cardinality(1 .. n) = n
    <3>1. IsFiniteSet(1 .. n) /\ Cardinality(1 .. n) = IF 1 > n THEN 0 ELSE n - 1 + 1
      BY <1>2, FS_Interval
    <3>. QED
      BY <1>2, <3>1
  <2>3. order \in Surjection(1 .. n, K)
    <3>1. Cardinality(1 .. n) = Cardinality(K) <=> order \in Surjection(1 .. n, K)
      BY <1>2, <2>1, FS_Injection
    <3>. QED
      BY <2>2, <3>1
  <2>. QED
    BY <2>3 DEF Surjection
<1>6. \A k \in K : info[k] \in Threads
  BY <1>1 DEF MappedKeys, PoolInv, TypeOK, MapTypeOK
<1>7. u \in Seq(Threads) /\ Len(u) = n /\ DOMAIN u = 1 .. n
  BY <1>2, <1>3, <1>6
<1>8. Distinct(u)
  <2>. SUFFICES ASSUME NEW i \in 1 .. n, NEW j \in 1 .. n, info[order[i]] = info[order[j]]
                PROVE  i = j
    BY <1>7 DEF Distinct
  <2>1. order[i] \in K /\ order[j] \in K /\ info[order[i]] # None
    BY <1>3, <1>1 DEF MappedKeys
  <2>. QED
    BY <1>1, <1>4, <2>1 DEF PoolInv, PlaceInv, OnePlaceEach, MappedKeys
<1>9. Elements(u) = {info[k] : k \in K}
  <2>1. Elements(u) = {info[order[i]] : i \in 1 .. n}
    BY <1>7 DEF Elements
  <2>. QED
    BY <1>3, <1>5, <2>1
<1>. QED
  BY <1>1, <1>3, <1>7, <1>8, <1>9 DEF CleanUp

\* revoke_client moves the client's threads to the queue.
LEMMA RevokeKeeps ==
  ASSUME PoolInv, NEW b \in Callers, NEW c \in Clients, Revoke(b, c)
  PROVE  PoolInv'
<1>1. /\ UNCHANGED <<on, inUse, wasted, clientsMtx, readers, free, busy, poolMtx, state, job, pc,
                     task, held, call, req, offAt>>
      /\ OffAt("up") /\ MapFree
      /\ CleanUp(KeysOf({c})) /\ awake' = [awake EXCEPT ![House] = TRUE]
  BY DEF Revoke, OffAt, poolVars, callVars
<1>2. Phases'
  BY <1>1 DEF PoolInv, PlaceInv, Phases, HouseGone, MapEmpty, OffAt
<1>3. /\ UNCHANGED <<At(House, "giveBack"), At(House, "leave")>>
      /\ UNCHANGED <<OffAt("up"), OffAt("giveBack"), OffAt("leave")>>
  BY <1>1 DEF At, OffAt
<1>4. /\ dispose' \in Seq(Threads) /\ info' \in [Keys -> Threads \cup {None}]
      /\ PlaceInv'
  BY <1>1, <1>2, <1>3, CleanUpFacts, Disposed
<1>5. awake' \in [Workers -> BOOLEAN]
  BY <1>1 DEF PoolInv, TypeOK, ThreadTypeOK
<1>. QED
  BY <1>1, <1>4, <1>5
  DEF PoolInv, TypeOK, MapTypeOK, PoolTypeOK, ThreadTypeOK, CallTypeOK, Jobs

\* The pool goes off while no borrower holds _clients_mtx.
LEMMA OffKeeps ==
  ASSUME PoolInv, Off
  PROVE  PoolInv'
<1>1. /\ UNCHANGED <<inUse, info, wasted, dispose, clientsMtx, readers, free, busy, poolMtx, state,
                     job, awake, pc, task, held, call, req>>
      /\ OffAt("up") /\ MapFree /\ on' = FALSE /\ offAt' = "stopHouse"
  BY DEF Off, OffGoto, mapVars, poolVars, threadVars, callVars
<1>2. TypeOK' /\ Jobs'
  BY <1>1
  DEF PoolInv, TypeOK, MapTypeOK, PoolTypeOK, ThreadTypeOK, CallTypeOK, Jobs, OffPlaces, OffAt
<1>3. Requests' /\ Mutex' /\ Hands'
  BY <1>1, NoHolder
  DEF PoolInv, PlaceInv, Requests, RequestOK, Mutex, Hands, HoldPlaces, LoanPlaces, CallAt, Key, At
<1>4. Phases' /\ Uses' /\ UseCounted'
  BY <1>1 DEF PoolInv, PlaceInv, Phases, Uses, UseCounted, HouseGone, MapEmpty, OffAt
<1>5. Loans'
  <2>1. UNCHANGED <<SomeAt("take"), At(House, "leave"), OffAt("leave")>>
    BY <1>1 DEF SomeAt, CallAt, At, OffAt
  <2>. QED
    BY <1>1, <2>1 DEF PoolInv, PlaceInv, Loans, One
<1>6. OnePlaceEach'
  <2>1. InTransit' = InTransit /\ Mapped' = Mapped /\ Queued' = Queued
    BY <1>1 DEF InTransit, Mapped, Queued, At, OffAt, CallAt
  <2>. QED
    BY <1>1, <2>1 DEF PoolInv, PlaceInv, OnePlaceEach
<1>. QED
  BY <1>2, <1>3, <1>4, <1>5, <1>6 DEF PoolInv, PlaceInv

\* While off() runs, no borrower has or takes a thread, and once the
\* housekeeper is gone only the owner has one in hand.
LEMMA OffAlone ==
  ASSUME PoolInv, offAt # "up"
  PROVE  /\ ~on
         /\ \A b \in Borrowers : call[b] \notin HoldPlaces
         /\ ~SomeAt("take") /\ ~SomeAt("activate")
         /\ HouseGone => At(House, "closed")
BY DEF PoolInv, PlaceInv, Phases, Requests, RequestOK, OffAt, HoldPlaces, SomeAt, CallAt

\* A step of off() that moves no thread between its places.
LEMMA OffFrame ==
  ASSUME PoolInv, offAt # "up", offAt' \in OffPlaces \ {"up", "giveBack", "leave"},
         offAt \notin {"giveBack", "leave"},
         UNCHANGED <<on, inUse, info, wasted, dispose, clientsMtx, readers, busy, call, req, task>>,
         free' \in {free, <<>>},
         UNCHANGED <<At(House, "giveBack"), At(House, "leave"), held[House]>>,
         \A t \in Threads : job'[t] \in {job[t], None},
         \A t \in Threads : pc'[t] \in {pc[t], "closed"},
         pc'[House] \in {pc[House], "closed"},
         offAt' = "join" => held'[Owner] \in Threads,
         PoolTypeOK', ThreadTypeOK', Phases'
  PROVE  PoolInv'
<1>1. Jobs'
  BY DEF PoolInv, Jobs, JobPlaces
<1>2. MapTypeOK' /\ CallTypeOK'
  BY DEF PoolInv, TypeOK, MapTypeOK, CallTypeOK
<1>3. Requests' /\ Mutex' /\ Hands'
  BY OffAlone
  DEF PoolInv, PlaceInv, Requests, RequestOK, Mutex, Hands, HoldPlaces, LoanPlaces, CallAt, Key
<1>4. Uses' /\ UseCounted'
  BY OffAlone DEF Uses, UseCounted, OffAt
<1>5. Loans'
  <2>1. UNCHANGED <<SomeAt("take"), OffAt("leave")>>
    BY DEF SomeAt, CallAt, OffAt
  <2>. QED
    BY <2>1 DEF PoolInv, PlaceInv, Loans, One
<1>6. OnePlaceEach'
  <2>1. InTransit' = InTransit
    BY DEF InTransit, OffAt, CallAt
  <2>2. Mapped' = Mapped /\ Queued' = Queued
    BY DEF Mapped, Queued
  <2>3. Distinct(free') /\ busy' \cap Elements(free') = {}
    BY DEF PoolInv, PlaceInv, OnePlaceEach, Distinct, Elements
  <2>. QED
    BY <2>1, <2>2, <2>3 DEF PoolInv, PlaceInv, OnePlaceEach
<1>. QED
  BY <1>1, <1>2, <1>3, <1>4, <1>5, <1>6 DEF PoolInv, PlaceInv, TypeOK

\* The housekeeper is stopped, is waited for, and the map is emptied.
LEMMA OffHouseKeeps ==
  ASSUME PoolInv, OffStopHouse \/ OffJoinHouse
  PROVE  PoolInv'
<1>. House \in Workers /\ House \notin Threads /\ \A t \in Threads : t \in Workers
  BY NamesAssumption DEF Workers
<1>1. CASE OffStopHouse
  <2>1. /\ UNCHANGED <<on, inUse, info, wasted, dispose, clientsMtx, readers, free, busy, poolMtx,
                       pc, task, held, call, req>>
        /\ offAt = "stopHouse" /\ offAt' = "joinHouse" /\ CancelAndStop(House)
    BY <1>1 DEF OffStopHouse, OffAt, OffGoto, mapVars, poolVars, callVars
  <2>2. ThreadTypeOK' /\ PoolTypeOK' /\ \A t \in Threads : job'[t] = job[t]
    BY <2>1 DEF PoolInv, TypeOK, ThreadTypeOK, PoolTypeOK, CancelAndStop
  <2>3. Phases'
    BY <2>1 DEF PoolInv, PlaceInv, Phases, HouseGone, MapEmpty, OffAt
  <2>. QED
    BY <2>1, <2>2, <2>3, OffFrame DEF OffPlaces, At
<1>2. CASE OffJoinHouse
  <2>1. /\ UNCHANGED <<on, inUse, info, wasted, dispose, clientsMtx, readers, free, busy, poolMtx,
                       job, awake, task, held, call, req>>
        /\ offAt = "joinHouse" /\ offAt' = "cleanUp" /\ Joined(House)
    BY <1>2 DEF OffJoinHouse, OffAt, OffGoto, mapVars, poolVars, callVars
  <2>2. /\ ThreadTypeOK' /\ PoolTypeOK'
        /\ pc[House] = "ended" /\ pc'[House] = "closed" /\ \A t \in Threads : pc'[t] = pc[t]
    BY <2>1 DEF PoolInv, TypeOK, ThreadTypeOK, PoolTypeOK, Joined, Goto, At, Places
  <2>3. Phases'
    BY <2>1, <2>2 DEF PoolInv, PlaceInv, Phases, HouseGone, MapEmpty, OffAt, At
  <2>. QED
    BY <2>1, <2>2, <2>3, OffFrame DEF OffPlaces, At
<1>. QED
  BY <1>1, <1>2

\* The map is emptied into the queue.
LEMMA OffCleanUpKeeps ==
  ASSUME PoolInv, OffCleanUp
  PROVE  PoolInv'
<1>1. /\ UNCHANGED <<on, inUse, wasted, clientsMtx, readers, free, busy, poolMtx, state, job, awake,
                     pc, task, held, call, req>>
      /\ offAt = "cleanUp" /\ offAt' = "drain" /\ MapFree
      /\ CleanUp(KeysOf(Clients))
  BY DEF OffCleanUp, OffAt, OffGoto, poolVars, threadVars, callVars
<1>2. KeysOf(Clients) = MappedKeys
  BY DEF KeysOf, MappedKeys, Keys
<1>3. \A k \in Keys : info'[k] = None
  BY <1>1, <1>2, CleanUpFacts DEF MappedKeys
<1>4. Phases'
  BY <1>1, <1>3 DEF PoolInv, PlaceInv, Phases, HouseGone, MapEmpty, OffAt, At
<1>5. /\ UNCHANGED <<At(House, "giveBack"), At(House, "leave")>>
      /\ UNCHANGED <<OffAt("up"), OffAt("giveBack"), OffAt("leave")>>
  BY <1>1 DEF At, OffAt
<1>6. /\ dispose' \in Seq(Threads) /\ info' \in [Keys -> Threads \cup {None}]
      /\ PlaceInv'
  BY <1>1, <1>4, <1>5, CleanUpFacts, Disposed
<1>. QED
  BY <1>1, <1>6
  DEF PoolInv, TypeOK, MapTypeOK, PoolTypeOK, ThreadTypeOK, CallTypeOK, Jobs, OffPlaces

\* The owner takes a thread off the queue and gives it back to the pool.
LEMMA OffDrainKeeps ==
  ASSUME PoolInv, OffDrain
  PROVE  PoolInv'
<1>1. /\ UNCHANGED <<on, inUse, info, wasted, clientsMtx, readers, free, busy, poolMtx, state, job,
                     awake, pc, task, call, req>>
      /\ offAt = "drain" /\ offAt' = "giveBack" /\ dispose # <<>>
      /\ held' = [held EXCEPT ![Owner] = Head(dispose)] /\ dispose' = Tail(dispose)
  BY DEF OffDrain, OffAt, OffGoto, poolVars, threadVars, callVars
<1>2. /\ dispose' \in Seq(Threads) /\ Head(dispose) \in Threads /\ Head(dispose) \in Queued
      /\ Queued' = Queued \ {Head(dispose)} /\ Distinct(dispose')
  BY <1>1, TailElements DEF PoolInv, PlaceInv, TypeOK, MapTypeOK, OnePlaceEach, Queued
<1>3. /\ held' \in [{House, Owner} -> Threads \cup {None}]
      /\ held'[Owner] = Head(dispose) /\ held'[House] = held[House]
  BY <1>1, <1>2, NamesAssumption DEF PoolInv, TypeOK, PoolTypeOK
<1>4. /\ ~on /\ \A b \in Borrowers : call[b] \notin HoldPlaces
      /\ ~SomeAt("take") /\ ~SomeAt("activate")
      /\ HouseGone /\ At(House, "closed")
  BY <1>1, OffAlone DEF HouseGone
<1>5. TypeOK' /\ Jobs'
  BY <1>1, <1>2, <1>3
  DEF PoolInv, TypeOK, MapTypeOK, PoolTypeOK, ThreadTypeOK, CallTypeOK, Jobs, OffPlaces
<1>6. Requests' /\ Mutex' /\ Hands'
  BY <1>1, <1>4
  DEF PoolInv, PlaceInv, Requests, RequestOK, Mutex, Hands, HoldPlaces, LoanPlaces, CallAt, Key, At
<1>7. Phases'
  BY <1>1 DEF PoolInv, PlaceInv, Phases, HouseGone, MapEmpty, OffAt, At
<1>8. Loans' /\ Uses' /\ UseCounted'
  <2>1. UNCHANGED <<SomeAt("take"), At(House, "leave"), OffAt("leave")>>
    BY <1>1 DEF SomeAt, CallAt, At, OffAt
  <2>2. ~on' /\ ~OffAt("up")'
    BY <1>1, <1>4 DEF OffAt
  <2>. QED
    BY <1>1, <2>1, <2>2 DEF PoolInv, PlaceInv, Loans, Uses, UseCounted, One
<1>9. OnePlaceEach'
  <2>1. InTransit = {} /\ InTransit' = {Head(dispose)}
    BY <1>1, <1>2, <1>3, <1>4 DEF InTransit, At, OffAt, CallAt, HoldPlaces
  <2>2. Mapped' = Mapped
    BY <1>1 DEF Mapped
  <2>. QED
    BY <1>1, <1>2, <2>1, <2>2 DEF PoolInv, PlaceInv, OnePlaceEach
<1>. QED
  BY <1>5, <1>6, <1>7, <1>8, <1>9 DEF PoolInv, PlaceInv

\* The owner's thread comes back to the pool; its loan is still counted.
LEMMA OffGiveBackKeeps ==
  ASSUME PoolInv, OffGiveBack
  PROVE  PoolInv'
<1>. DEFINE t == held[Owner]
<1>1. /\ UNCHANGED <<on, inUse, info, wasted, dispose, clientsMtx, readers, poolMtx, state, pc, task,
                     held, call, req>>
      /\ offAt = "giveBack" /\ offAt' = "leave" /\ TakeBack(t)
  BY DEF OffGiveBack, OffAt, OffGoto, mapVars, callVars
<1>2. t \in Threads
  BY <1>1 DEF PoolInv, Jobs
<1>3. /\ ~on /\ \A b \in Borrowers : call[b] \notin HoldPlaces
      /\ ~SomeAt("take") /\ ~SomeAt("activate")
      /\ HouseGone /\ At(House, "closed")
  BY <1>1, OffAlone DEF HouseGone
<1>4. t \in InTransit /\ InTransit' = InTransit \ {t}
  BY <1>1, <1>2, <1>3 DEF InTransit, At, OffAt, CallAt, HoldPlaces
<1>5. /\ OnePlaceEach'
      /\ busy' \subseteq Threads /\ free' \in Seq(Threads)
      /\ Cardinality(busy') = Cardinality(busy) - 1
      /\ job' \in [Workers -> Keys \cup {House, None}]
      /\ \A u \in Threads : job'[u] \in Keys \cup {None}
      /\ awake' \in [Workers -> BOOLEAN]
  BY <1>1, <1>4, GivenBack
<1>6. TypeOK' /\ Jobs'
  BY <1>1, <1>5
  DEF PoolInv, TypeOK, MapTypeOK, PoolTypeOK, ThreadTypeOK, CallTypeOK, Jobs, OffPlaces
<1>7. Requests' /\ Mutex' /\ Hands'
  BY <1>1, <1>3
  DEF PoolInv, PlaceInv, Requests, RequestOK, Mutex, Hands, HoldPlaces, LoanPlaces, CallAt, Key, At
<1>8. Phases'
  BY <1>1 DEF PoolInv, PlaceInv, Phases, HouseGone, MapEmpty, OffAt, At
<1>9. Loans' /\ Uses' /\ UseCounted'
  <2>1. UNCHANGED <<SomeAt("take"), At(House, "leave")>> /\ ~OffAt("leave") /\ OffAt("leave")'
    BY <1>1 DEF SomeAt, CallAt, At, OffAt
  <2>2. ~on' /\ ~OffAt("up")'
    BY <1>1, <1>3 DEF OffAt
  <2>3. readers = Cardinality(busy) + One(SomeAt("take")) + One(At(House, "leave"))
                                    + One(OffAt("leave"))
    BY DEF PoolInv, PlaceInv, Loans
  <2>. QED
    BY <1>1, <1>5, <2>1, <2>2, <2>3, BusyFinite DEF Loans, Uses, UseCounted, One
<1>. QED
  BY <1>5, <1>6, <1>7, <1>8, <1>9 DEF PoolInv, PlaceInv

\* The owner leaves the gate.
LEMMA OffLeaveKeeps ==
  ASSUME PoolInv, OffLeave
  PROVE  PoolInv'
<1>1. /\ UNCHANGED <<on, inUse, info, wasted, dispose, clientsMtx, free, busy, poolMtx, state, job,
                     awake, pc, task, call, req>>
      /\ offAt = "leave" /\ offAt' = "drain"
      /\ readers' = readers - 1 /\ held' = [held EXCEPT ![Owner] = None]
  BY DEF OffLeave, OffAt, OffGoto, mapVars, threadVars, callVars
<1>2. /\ ~on /\ \A b \in Borrowers : call[b] \notin HoldPlaces
      /\ HouseGone /\ At(House, "closed")
  BY <1>1, OffAlone DEF HouseGone
<1>3. Loans' /\ Uses' /\ UseCounted' /\ readers' \in 0 .. Capacity
  <2>1. UNCHANGED <<SomeAt("take"), At(House, "leave")>> /\ OffAt("leave") /\ ~OffAt("leave")'
    BY <1>1 DEF SomeAt, CallAt, At, OffAt
  <2>2. ~on' /\ ~OffAt("up")'
    BY <1>1, <1>2 DEF OffAt
  <2>3. readers = Cardinality(busy) + One(SomeAt("take")) + One(At(House, "leave"))
                                    + One(OffAt("leave"))
    BY DEF PoolInv, PlaceInv, Loans
  <2>4. readers \in 0 .. Capacity
    BY DEF PoolInv, TypeOK, PoolTypeOK
  <2>. QED
    BY <1>1, <2>1, <2>2, <2>3, <2>4, BusyFinite, CapacityAssumption
    DEF Loans, Uses, UseCounted, One
<1>4. PoolTypeOK'
  BY <1>1, <1>3 DEF PoolInv, TypeOK, PoolTypeOK
<1>5. TypeOK' /\ Jobs'
  BY <1>1, <1>2, <1>4
  DEF PoolInv, TypeOK, MapTypeOK, ThreadTypeOK, CallTypeOK, Jobs, OffPlaces, At
<1>6. Requests' /\ Mutex' /\ Hands'
  BY <1>1, <1>2
  DEF PoolInv, PlaceInv, Requests, RequestOK, Mutex, Hands, HoldPlaces, LoanPlaces, CallAt, Key, At
<1>7. Phases'
  BY <1>1 DEF PoolInv, PlaceInv, Phases, HouseGone, MapEmpty, OffAt, At
<1>8. OnePlaceEach'
  <2>1. InTransit' = InTransit
    BY <1>1, <1>2 DEF InTransit, At, OffAt, CallAt
  <2>2. Mapped' = Mapped /\ Queued' = Queued
    BY <1>1 DEF Mapped, Queued
  <2>. QED
    BY <1>1, <2>1, <2>2 DEF PoolInv, PlaceInv, OnePlaceEach
<1>. QED
  BY <1>3, <1>5, <1>6, <1>7, <1>8 DEF PoolInv, PlaceInv

\* pool::clear: with no loan left no thread is busy.
LEMMA OffClearKeeps ==
  ASSUME PoolInv, OffClear
  PROVE  PoolInv'
<1>1. /\ UNCHANGED <<on, inUse, info, wasted, dispose, clientsMtx, readers, free, busy, state, job,
                     awake, pc, task, held, call, req>>
      /\ offAt = "drain" /\ offAt' = "closing" /\ dispose = <<>> /\ readers = 0 /\ poolMtx' = Owner
  BY DEF OffClear, OffAt, OffGoto, mapVars, poolVars, threadVars, callVars
<1>2. busy = {}
  <2>1. Cardinality(busy) = 0
    BY <1>1, BusyFinite DEF PoolInv, PlaceInv, Loans, One
  <2>. QED
    BY <2>1, BusyFinite, FS_EmptySet
<1>3. Phases'
  BY <1>1, <1>2 DEF PoolInv, PlaceInv, Phases, HouseGone, MapEmpty, OffAt, At
<1>4. PoolTypeOK' /\ ThreadTypeOK'
  BY <1>1 DEF PoolInv, TypeOK, PoolTypeOK, ThreadTypeOK
<1>. QED
  BY <1>1, <1>3, <1>4, OffFrame DEF OffPlaces, At

\* The threads are stopped one by one and forgotten.
LEMMA OffClosingKeeps ==
  ASSUME PoolInv, OffClose \/ OffJoin \/ OffDown
  PROVE  PoolInv'
<1>. House \in Workers /\ House \notin Threads /\ \A t \in Threads : t \in Workers
  BY NamesAssumption DEF Workers
<1>1. CASE OffClose
  <2>1. /\ UNCHANGED <<on, inUse, info, wasted, dispose, clientsMtx, readers, free, busy, poolMtx,
                       pc, task, call, req>>
        /\ offAt = "closing" /\ offAt' = "join"
    BY <1>1 DEF OffClose, OffAt, OffGoto, mapVars, poolVars, callVars
  <2>2. PICK t \in Created : CancelAndStop(t) /\ held' = [held EXCEPT ![Owner] = t]
    BY <1>1 DEF OffClose
  <2>3. t \in Threads
    BY DEF Created, Elements, PoolInv, TypeOK, PoolTypeOK
  <2>4. PoolTypeOK' /\ held'[Owner] = t /\ held'[House] = held[House]
    BY <2>1, <2>2, <2>3, NamesAssumption DEF PoolInv, TypeOK, PoolTypeOK
  <2>5. ThreadTypeOK' /\ \A u \in Threads : job'[u] \in {job[u], None}
    BY <2>1, <2>2, <2>3 DEF PoolInv, TypeOK, ThreadTypeOK, CancelAndStop
  <2>6. Phases'
    BY <2>1 DEF PoolInv, PlaceInv, Phases, HouseGone, MapEmpty, OffAt, At
  <2>. QED
    BY <2>1, <2>3, <2>4, <2>5, <2>6, OffFrame DEF OffPlaces, At
<1>2. CASE OffJoin
  <2>1. /\ UNCHANGED <<on, inUse, info, wasted, dispose, clientsMtx, readers, free, busy, poolMtx,
                       job, awake, task, call, req>>
        /\ offAt = "join" /\ offAt' = "closing"
        /\ Joined(held[Owner]) /\ held' = [held EXCEPT ![Owner] = None]
    BY <1>2 DEF OffJoin, OffAt, OffGoto, mapVars, poolVars, callVars
  <2>2. held[Owner] \in Threads
    BY <2>1 DEF PoolInv, Jobs
  <2>3. PoolTypeOK' /\ held'[House] = held[House]
    BY <2>1, NamesAssumption DEF PoolInv, TypeOK, PoolTypeOK
  <2>4. /\ ThreadTypeOK' /\ pc'[House] = pc[House]
        /\ \A t \in Threads : pc'[t] \in {pc[t], "closed"}
    BY <2>1, <2>2 DEF PoolInv, TypeOK, ThreadTypeOK, Joined, Goto, Places
  <2>5. Phases'
    BY <2>1, <2>4 DEF PoolInv, PlaceInv, Phases, HouseGone, MapEmpty, OffAt, At
  <2>. QED
    BY <2>1, <2>3, <2>4, <2>5, OffFrame DEF OffPlaces, At
<1>3. CASE OffDown
  <2>1. /\ UNCHANGED <<on, inUse, info, wasted, dispose, clientsMtx, readers, state, job, awake, pc,
                       task, held, call, req>>
        /\ offAt = "closing" /\ offAt' = "down" /\ poolMtx' = None /\ busy' = {} /\ free' = <<>>
    BY <1>3 DEF OffDown, OffAt, OffGoto, mapVars, threadVars, callVars
  <2>2. busy' = busy
    BY <2>1 DEF PoolInv, PlaceInv, Phases
  <2>3. PoolTypeOK' /\ ThreadTypeOK'
    BY <2>1 DEF PoolInv, TypeOK, PoolTypeOK, ThreadTypeOK
  <2>4. Phases'
    BY <2>1, <2>2 DEF PoolInv, PlaceInv, Phases, HouseGone, MapEmpty, OffAt, At
  <2>. QED
    BY <2>1, <2>2, <2>3, <2>4, OffFrame DEF OffPlaces, At
<1>. QED
  BY <1>1, <1>2, <1>3

-----------------------------------------------------------------------------
(* The invariant and the theorems.                                         *)

\* In the beginning there is no loan and no thread but the housekeeper.
LEMMA PoolInit ==
  ASSUME Init
  PROVE  PoolInv
<1>. House \in Workers /\ House \notin Threads
  BY NamesAssumption DEF Workers
<1>1. MapTypeOK
  BY CapacityAssumption DEF Init, MapTypeOK
<1>2. PoolTypeOK
  BY CapacityAssumption DEF Init, PoolTypeOK
<1>3. ThreadTypeOK
  BY DEF Init, ThreadTypeOK, Places
<1>4. CallTypeOK
  <2>1. NoRequest \in [client : Clients \cup {None}, from : 0 .. LastIdent + 1, to : Idents,
                       thread : Threads \cup {None}]
    BY BoundsAssumption DEF NoRequest, Request, Idents
  <2>. QED
    BY <2>1 DEF Init, CallTypeOK, CallPlaces, OffPlaces
<1>5. Jobs
  BY DEF Init, Jobs, JobPlaces, Workers
<1>6. Requests /\ Hands /\ Mutex /\ Phases
  BY NamesAssumption
  DEF Init, Requests, RequestOK, Hands, Mutex, Phases, HoldPlaces, LoanPlaces, CallAt, OffAt, At,
      HouseGone, MapEmpty, Borrowers
<1>7. Loans /\ Uses /\ UseCounted
  <2>1. ~SomeAt("take") /\ ~SomeAt("activate")
    BY DEF Init, SomeAt, CallAt
  <2>2. ~At(House, "leave") /\ ~At(House, "giveBack") /\ ~OffAt("leave")
    BY DEF Init, At, OffAt
  <2>3. Cardinality(busy) = 0 /\ Cardinality(MappedKeys) = 0
    <3>1. busy = {} /\ MappedKeys = {}
      BY DEF Init, MappedKeys
    <3>. QED
      BY <3>1, FS_EmptySet
  <2>4. Len(dispose) = 0
    BY DEF Init
  <2>5. readers = 0 /\ inUse = 0
    BY DEF Init
  <2>6. Loans
    BY <2>1, <2>2, <2>3, <2>5 DEF Loans, One
  <2>7. Uses
    BY <2>1, <2>2, <2>3, <2>5 DEF Uses, One
  <2>8. inUse = Cardinality(MappedKeys) + Len(dispose)
    BY <2>3, <2>4, <2>5
  <2>9. UseCounted
    BY <2>8 DEF UseCounted, MappedKeys
  <2>. QED
    BY <2>6, <2>7, <2>9
<1>8. OnePlaceEach
  <2>1. InTransit = {}
    BY DEF Init, InTransit, At, OffAt, CallAt
  <2>2. Mapped = {} /\ Queued = {}
    BY DEF Init, Mapped, Queued, Elements
  <2>. QED
    BY <2>1, <2>2 DEF Init, OnePlaceEach, Distinct, Elements
<1>. QED
  BY <1>1, <1>2, <1>3, <1>4, <1>5, <1>6, <1>7, <1>8 DEF PoolInv, PlaceInv, TypeOK

\* Every step of every actor keeps the invariant.
LEMMA PoolStep ==
  ASSUME PoolInv, [Next]_vars
  PROVE  PoolInv'
<1>1. CASE \E x \in Workers : LoopStep(x) \/ AlertOver(x)
  BY <1>1, LoopKeeps
<1>2. CASE \E t \in Threads : ClientStep(t)
  BY <1>2, AttendsKeeps, WasteKeeps DEF ClientStep, Attends
<1>3. CASE (\E t \in Threads : NestedCall(t)) \/ (\E b \in Callers : OutsideCall(b))
  BY <1>3, CallKeeps
<1>4. CASE HouseStep
  BY <1>4, HouseKeeps
<1>5. CASE \E b \in Borrowers : CallStep(b)
  BY <1>5, CallStepKeeps
<1>6. CASE \E b \in Callers, c \in Clients : Revoke(b, c)
  BY <1>6, RevokeKeeps
<1>7. CASE Off \/ OffStep
  BY <1>7, OffKeeps, OffHouseKeeps, OffCleanUpKeeps, OffDrainKeeps, OffGiveBackKeeps,
     OffLeaveKeeps, OffClearKeeps, OffClosingKeeps
  DEF OffStep
<1>8. CASE UNCHANGED vars
  <2>1. UNCHANGED <<on, inUse, info, wasted, dispose, clientsMtx, readers, free, busy, poolMtx,
                    state, job, awake, pc, task, held, call, req, offAt>>
    BY <1>8 DEF vars, mapVars, poolVars, threadVars, callVars
  <2>2. UNCHANGED core /\ UNCHANGED <<At(House, "giveBack"), At(House, "leave")>>
    BY <2>1 DEF core, At
  <2>3. PlaceInv'
    BY <2>1, <2>2, Frame
  <2>. QED
    BY <2>1, <2>3 DEF PoolInv, TypeOK, MapTypeOK, PoolTypeOK, ThreadTypeOK, CallTypeOK, Jobs
<1>. QED
  BY <1>1, <1>2, <1>3, <1>4, <1>5, <1>6, <1>7, <1>8 DEF Next, Gone

\* The pool's inductive invariant: the counters, the mutex, the phases of off()
\* and the places of the threads agree with one another in every state.
THEOREM PoolInvariant == Spec => []PoolInv
<1>1. Init => PoolInv
  BY PoolInit
<1>2. PoolInv /\ [Next]_vars => PoolInv'
  BY PoolStep
<1>. QED
  BY <1>1, <1>2, PTL DEF Spec

\* Every variable keeps its type: neither _thread_in_use nor the loans of the
\* gate ever leave 0 .. _capacity, and the wasted calls never pass one.
THEOREM PoolTypes == Spec => []TypeOK
<1>1. PoolInv => TypeOK
  BY DEF PoolInv
<1>. QED
  BY <1>1, PoolInvariant, PTL

\* _thread_in_use is what the map and the queue hold, as long as the pool is up.
THEOREM PoolUseCounted == Spec => []UseCounted
<1>1. PoolInv => UseCounted
  BY DEF PoolInv, PlaceInv
<1>. QED
  BY <1>1, PoolInvariant, PTL

\* A loaned thread belongs to one client and ident, or waits once in the queue,
\* or is in one pair of hands; the others are free, each once.
THEOREM PoolOnePlaceEach == Spec => []OnePlaceEach
<1>1. PoolInv => OnePlaceEach
  BY DEF PoolInv, PlaceInv
<1>. QED
  BY <1>1, PoolInvariant, PTL

\* The wait of a loan at the pool's gate, with _clients_mtx held, is for the
\* thread in the housekeeper's hands and for no other.
THEOREM PoolLoanWaitsForReturn == Spec => []LoanWaitsForReturn
<1>1. PoolInv => LoanWaitsForReturn
  <2>. SUFFICES ASSUME PoolInv, NEW b \in Borrowers, CallAt(b, "enter"), readers >= Capacity
                PROVE  pc[House] \in {"giveBack", "leave"}
    BY DEF LoanWaitsForReturn
  <2>1. /\ on /\ offAt = "up"
        /\ \A a \in Borrowers \ {b} : call[a] \notin HoldPlaces
    BY OneHolder DEF CallAt, HoldPlaces
  <2>2. ~SomeAt("take") /\ ~SomeAt("activate") /\ ~OffAt("leave")
    BY <2>1 DEF SomeAt, CallAt, HoldPlaces, OffAt
  <2>3. inUse < Capacity
    BY DEF PoolInv, PlaceInv, Requests, RequestOK, CallAt, LoanPlaces
  <2>4. readers = Cardinality(busy) + One(At(House, "leave"))
    BY <2>2, BusyFinite DEF PoolInv, PlaceInv, Loans, One
  <2>5. Cardinality(busy) = inUse + One(At(House, "giveBack"))
    BY <2>1, <2>2 DEF PoolInv, PlaceInv, TypeOK, MapTypeOK, Uses, One
  <2>. QED
    BY <2>3, <2>4, <2>5, CapacityAssumption
    DEF PoolInv, TypeOK, MapTypeOK, PoolTypeOK, One, At
<1>. QED
  BY <1>1, PoolInvariant, PTL

-----------------------------------------------------------------------------
(* The one thread of a client and ident, where no revoked client borrows.  *)

\* The thread was given the job, or has a copy of it.
Owns(t, k) == k # None /\ (job[t] = k \/ task[t] = k)

\* A client that was revoked has no call under way.
RevokedSilent ==
  /\ revoked \in [Clients -> BOOLEAN]
  /\ \A c \in Clients : revoked[c] => \A b \in Borrowers : ~CallAt(b, "idle") => req[b].client # c

\* A thread keeps a job it is no longer entered for only until the client is
\* revoked or the pool is off; no second thread is given it; and the count of
\* wasted calls, which every question resets, is 0 when the answer comes.
SoleInv ==
  /\ \A t \in Threads : task[t] \in Keys \cup {None}
  /\ \A t \in Threads, k \in Keys : Owns(t, k) => info[k] = t \/ revoked[k[1]] \/ ~on
  /\ \A t, u \in Threads, k \in Keys : Owns(t, k) /\ Owns(u, k) => t = u
  /\ RevokedSilent
  /\ \A t \in Threads : pc[t] \in {"ask", "toAsk", "noWork"} => task[t] # None
  /\ \A t \in Threads : pc[t] \in {"toAsk", "noWork"} => wasted[task[t]] = 0

\* A thread gets no job it had not, not even as a copy.
NoNewJob ==
  \A t \in Threads : /\ job'[t] \in {job[t], None}
                     /\ task'[t] \in {task[t], job[t], None}

\* Who is about to waste a call was asking, or has just asked.
StillAsking ==
  \A t \in Threads :
    /\ pc'[t] \in {"ask", "toAsk", "noWork"} => task'[t] # None
    /\ pc'[t] \in {"toAsk", "noWork"} =>
         \/ wasted'[task'[t]] = 0
         \/ /\ pc[t] \in {"toAsk", "noWork"}
            /\ task'[t] = task[t]
            /\ wasted'[task[t]] = wasted[task[t]]

\* Such a step keeps SoleInv, if a thread leaves the map only with its client
\* or with the pool.
LEMMA SoleFrame ==
  ASSUME PoolInv, SoleInv, NoNewJob, StillAsking, RevokedSilent',
         on' => on,
         \A k \in Keys : info'[k] = info[k] \/ revoked'[k[1]] \/ ~on',
         \A c \in Clients : revoked[c] => revoked'[c]
  PROVE  SoleInv'
<1>1. ASSUME NEW t \in Threads, NEW k \in Keys, Owns(t, k)'
      PROVE  Owns(t, k)
  BY <1>1 DEF NoNewJob, Owns
<1>2. ASSUME NEW t \in Threads, NEW k \in Keys, Owns(t, k)'
      PROVE  info'[k] = t \/ revoked'[k[1]] \/ ~on'
  BY <1>1, <1>2 DEF SoleInv, Keys
<1>3. \A t \in Threads : task'[t] \in Keys \cup {None}
  BY DEF NoNewJob, SoleInv, PoolInv, Jobs
<1>. QED
  BY <1>1, <1>2, <1>3 DEF SoleInv, StillAsking

\* A step that leaves the calls and the map alone.
LEMMA SoleStays ==
  ASSUME PoolInv, SoleInv, NoNewJob, StillAsking, on' => on,
         UNCHANGED <<info, revoked, call, req>>
  PROVE  SoleInv'
<1>1. RevokedSilent'
  BY DEF SoleInv, RevokedSilent, CallAt
<1>. QED
  BY <1>1, SoleFrame

\* One that leaves the threads' jobs alone too.
LEMMA SoleRests ==
  ASSUME PoolInv, SoleInv, on' => on,
         UNCHANGED <<info, wasted, revoked, call, req, job, task>>,
         \A t \in Threads : pc'[t] \in {pc[t], "loop", "asleep", "exec", "ended", "closed"}
  PROVE  SoleInv'
<1>1. NoNewJob /\ StillAsking
  BY DEF NoNewJob, StillAsking, SoleInv
<1>. QED
  BY <1>1, SoleStays

\* The loop of a thread, and what it does for its client up to the wasted call.
LEMMA SoleThread ==
  /\ \A x \in Workers : PoolInv /\ SoleInv /\ (LoopStep(x) \/ AlertOver(x)) => SoleInv'
  /\ \A t \in Threads : PoolInv /\ SoleInv /\ Attends(t) => SoleInv'
<1>1. ASSUME PoolInv, SoleInv, NEW x \in Workers, LoopStep(x) \/ AlertOver(x)
      PROVE  SoleInv'
  <2>1. UNCHANGED <<on, info, wasted, revoked, call, req, job>>
    BY <1>1 DEF LoopStep, FallAsleep, Woken, AlertOver, Resume, Execute, outside, mapVars, callVars,
                clientVars
  <2>2. CASE Execute(x)
    <3>1. NoNewJob /\ StillAsking
      BY <1>1, <2>1, <2>2
      DEF Execute, Goto, At, NoNewJob, StillAsking, SoleInv, PoolInv, TypeOK, ThreadTypeOK, Workers
    <3>. QED
      BY <1>1, <2>1, <3>1, SoleStays
  <2>3. CASE ~Execute(x)
    <3>1. task' = task /\ \E place \in {"asleep", "exec", "ended"} : Goto(x, place)
      BY <1>1, <2>3 DEF LoopStep, FallAsleep, Woken, AlertOver, Resume
    <3>2. \A t \in Threads : pc'[t] \in {pc[t], "loop", "asleep", "exec", "ended", "closed"}
      BY <1>1, <3>1 DEF Goto, PoolInv, TypeOK, ThreadTypeOK, Workers
    <3>. QED
      BY <1>1, <2>1, <3>1, <3>2, SoleRests
  <2>. QED
    BY <2>2, <2>3
<1>2. ASSUME PoolInv, SoleInv, NEW t \in Threads, Attends(t)
      PROVE  SoleInv'
  <2>. t \in Workers
    BY DEF Workers
  <2>1. UNCHANGED <<on, info, revoked, call, req, job>>
    BY <1>2 DEF Attends, Ask, ClientHasJob, Prepare, ClientDoJob, ClientDone, outside, mapVars,
                callVars, clientVars
  <2>2. NoNewJob
    BY <1>2, <2>1
    DEF Attends, Ask, ClientHasJob, Prepare, ClientDoJob, ClientDone, Finish, outside, NoNewJob,
        PoolInv, TypeOK, ThreadTypeOK, Workers
  <2>3. StillAsking
    <3>1. CASE Ask(t)
      <4>1. task[t] \in Keys /\ task[t] # None /\ wasted \in [Keys -> 0 .. 1]
        BY <1>2, <3>1 DEF Ask, At, PoolInv, TypeOK, MapTypeOK, Jobs, JobPlaces, SoleInv
      <4>2. \A u \in Threads : pc[u] \in {"toAsk", "noWork"} => task[u] \in Keys /\ wasted[task[u]] = 0
        BY <1>2 DEF PoolInv, Jobs, JobPlaces, SoleInv
      <4>3. CASE wasted' = [wasted EXCEPT ![task[t]] = 0] /\ Goto(t, "toAsk") /\ UNCHANGED task
        BY <1>2, <4>1, <4>2, <4>3
        DEF Goto, StillAsking, SoleInv, PoolInv, TypeOK, ThreadTypeOK, Workers
      <4>4. CASE UNCHANGED wasted /\ Finish(t, "loop")
        BY <1>2, <4>4 DEF Finish, Goto, StillAsking, SoleInv, PoolInv, TypeOK, ThreadTypeOK, Workers
      <4>. QED
        BY <3>1, <4>3, <4>4 DEF Ask
    <3>2. CASE ClientHasJob(t)
      BY <1>2, <3>2 DEF ClientHasJob, Goto, At, StillAsking, SoleInv, outside, mapVars, PoolInv,
                        TypeOK, ThreadTypeOK, Workers
    <3>3. CASE Prepare(t) \/ ClientDoJob(t) \/ ClientDone(t)
      <4>1. wasted' = wasted /\ \/ Finish(t, "exec")
                                \/ \E place \in {"toDo", "working"} : Goto(t, place) /\ UNCHANGED task
        BY <3>3 DEF Prepare, ClientDoJob, ClientDone, outside, mapVars
      <4>. QED
        BY <1>2, <4>1 DEF Finish, Goto, StillAsking, SoleInv, PoolInv, TypeOK, ThreadTypeOK, Workers
    <3>. QED
      BY <1>2, <3>1, <3>2, <3>3 DEF Attends
  <2>. QED
    BY <1>2, <2>1, <2>2, <2>3, SoleStays
<1>. QED
  BY <1>1, <1>2

\* The second wasted call never comes: the thread that has the ident asks
\* first, and then the count is 0.  The thread is not given up here, and the
\* count that goes up is its own.
LEMMA SoleWaste ==
  ASSUME PoolInv, SoleInv, NEW t \in Threads, Waste(t)
  PROVE  SoleInv'
<1>. DEFINE k == task[t]
<1>. t \in Workers
  BY DEF Workers
<1>1. k \in Keys /\ k # None /\ wasted[k] = 0 /\ pc[t] = "noWork"
  BY DEF Waste, At, PoolInv, Jobs, JobPlaces, SoleInv
<1>2. /\ UNCHANGED <<on, info, revoked, call, req, job>>
      /\ Finish(t, "loop")
      /\ wasted' = wasted \/ wasted' = [wasted EXCEPT ![k] = @ + 1]
  BY <1>1 DEF Waste, callVars, clientVars
<1>3. NoNewJob
  BY <1>2 DEF NoNewJob, Finish, PoolInv, TypeOK, ThreadTypeOK, Workers
<1>4. StillAsking
  <2>. SUFFICES ASSUME NEW u \in Threads, pc'[u] \in {"ask", "toAsk", "noWork"}
                PROVE  /\ task'[u] # None
                       /\ pc'[u] \in {"toAsk", "noWork"} =>
                            /\ pc[u] \in {"toAsk", "noWork"}
                            /\ task'[u] = task[u]
                            /\ wasted'[task[u]] = wasted[task[u]]
    BY DEF StillAsking
  <2>1. u # t /\ pc'[u] = pc[u] /\ task'[u] = task[u] /\ u \in Workers
    BY <1>2 DEF Finish, Goto, PoolInv, TypeOK, ThreadTypeOK, Workers
  <2>2. task[u] # None /\ task[u] \in Keys
    BY <2>1 DEF SoleInv, PoolInv, Jobs, JobPlaces
  <2>3. task[u] # k
    BY <1>1, <2>1, <2>2 DEF SoleInv, Owns
  <2>. QED
    BY <1>1, <1>2, <2>1, <2>2, <2>3 DEF PoolInv, TypeOK, MapTypeOK
<1>. QED
  BY <1>2, <1>3, <1>4, SoleStays

\* The housekeeper, and off() after it began, take jobs from threads.
LEMMA SoleHouse ==
  ASSUME PoolInv, SoleInv, HouseStep
  PROVE  SoleInv'
<1>1. UNCHANGED <<on, info, wasted, revoked, call, req>>
  BY DEF HouseStep, HouseAsk, HouseTake, HouseGiveBack, HouseLeave, HouseClose, HouseJoin,
         HouseSwept, outside, mapVars, callVars, clientVars
<1>2. /\ \A t \in Threads : task'[t] = task[t]
      /\ \A t \in Threads : pc'[t] \in {pc[t], "closed"}
  <2>1. CASE HouseJoin
    BY <2>1, NamesAssumption DEF HouseJoin, PoolInv, TypeOK, ThreadTypeOK, Workers
  <2>2. CASE ~HouseJoin
    <3>1. \/ \E place \in Places : Goto(House, place) /\ UNCHANGED task
          \/ \E place \in Places : Finish(House, place)
      BY <2>2 DEF HouseStep, HouseAsk, HouseTake, HouseGiveBack, HouseLeave, HouseClose,
                  HouseSwept, outside, Places
    <3>2. \A t \in Threads : t # House /\ t \in Workers
      BY NamesAssumption DEF Workers
    <3>3. pc \in [Workers -> Places] /\ task \in [Workers -> Keys \cup {House, None}]
      BY DEF PoolInv, TypeOK, ThreadTypeOK
    <3>. QED
      BY <3>1, <3>2, <3>3 DEF Finish, Goto
  <2>. QED
    BY <2>1, <2>2
<1>3. \A t \in Threads : job'[t] \in {job[t], None}
  BY DEF HouseStep, HouseAsk, HouseTake, HouseGiveBack, HouseLeave, HouseClose, HouseJoin,
         HouseSwept, outside, TakeBack, Cancel, CancelAndStop, PoolInv, TypeOK, ThreadTypeOK, Workers
<1>4. NoNewJob /\ StillAsking
  BY <1>1, <1>2, <1>3 DEF NoNewJob, StillAsking, SoleInv
<1>. QED
  BY <1>1, <1>4, SoleStays

\* A call goes on or returns; no other begins for a revoked client.
LEMMA SoleCall ==
  ASSUME PoolInv, SoleInv, NEW b \in Borrowers, CallStep(b), ~Activate(b)
  PROVE  SoleInv'
<1>1. /\ UNCHANGED <<on, info, revoked, job, task>>
      /\ ~CallAt(b, "idle")
      /\ \A t \in Threads : pc'[t] \in {pc[t], "loop"}
  BY DEF CallStep, Borrow, BorrowRange, Scan, WakeUp, Enter, Take, Start, Goto, CallAt, threadVars,
         mapVars, clientVars, PoolInv, TypeOK, ThreadTypeOK, Workers
<1>2. wasted' = wasted \/ wasted' = [wasted EXCEPT ![Key(b)] = 0]
  BY DEF CallStep, Borrow, BorrowRange, Scan, WakeUp, Enter, Take, WakeLater, mapVars
<1>3. NoNewJob
  BY <1>1 DEF NoNewJob
<1>4. StillAsking
  BY <1>1, <1>2 DEF StillAsking, SoleInv, PoolInv, Jobs, JobPlaces, TypeOK, MapTypeOK
<1>5. /\ \A a \in Borrowers \ {b} : call'[a] = call[a] /\ req'[a] = req[a]
      /\ CallAt(b, "idle")' \/ req'[b].client = req[b].client
  BY DEF CallStep, Borrow, BorrowRange, Scan, WakeUp, Enter, Take, WakeLater, Return, CallGoto,
         CallAt, PoolInv, TypeOK, CallTypeOK
<1>6. RevokedSilent'
  BY <1>1, <1>5 DEF RevokedSilent, SoleInv, CallAt
<1>. QED
  BY <1>1, <1>3, <1>4, <1>6, SoleFrame

\* A loaned thread gets the ident's job when no thread has it: one that had it
\* and lost its entry would be a revoked client's.
LEMMA SoleActivate ==
  ASSUME PoolInv, SoleInv, NEW b \in Borrowers, Activate(b)
  PROVE  SoleInv'
<1>. DEFINE t == req[b].thread
            k == Key(b)
<1>1. /\ CallAt(b, "activate") /\ Return(b)
      /\ job' = [job EXCEPT ![t] = k]
      /\ info' = [info EXCEPT ![k] = t]
      /\ wasted' = [wasted EXCEPT ![k] = 0]
      /\ UNCHANGED <<on, task, revoked>>
      /\ \A u \in Threads : pc'[u] \in {pc[u], "loop"}
  BY DEF Activate, Start, Goto, clientVars, PoolInv, TypeOK, ThreadTypeOK, Workers
<1>2. on /\ k \in Keys /\ info[k] = None /\ req[b].client \in Clients /\ t \in Threads
  BY <1>1 DEF PoolInv, PlaceInv, Requests, RequestOK, CallAt, HoldPlaces, LoanPlaces
<1>3. k[1] \in Clients /\ ~revoked[k[1]]
  BY <1>1, <1>2 DEF SoleInv, RevokedSilent, CallAt, Key
<1>4. None \notin Threads /\ \A u \in Threads : u \in Workers
  BY NamesAssumption DEF Workers
<1>5. \A u \in Threads : ~Owns(u, k)
  BY <1>2, <1>3, <1>4 DEF SoleInv
<1>6. \A l \in Keys : info[l] # t
  <2>1. t \in InTransit
    BY <1>1, <1>2 DEF InTransit
  <2>2. t \notin Mapped
    BY <2>1 DEF PoolInv, PlaceInv, OnePlaceEach
  <2>. QED
    BY <1>2, <1>4, <2>2 DEF Mapped
<1>7. job \in [Workers -> Keys \cup {House, None}] /\ info \in [Keys -> Threads \cup {None}]
  BY DEF PoolInv, TypeOK, ThreadTypeOK, MapTypeOK
<1>8. ASSUME NEW u \in Threads, NEW l \in Keys, Owns(u, l)'
      PROVE  Owns(u, l) \/ (u = t /\ l = k)
  BY <1>1, <1>2, <1>4, <1>7, <1>8 DEF Owns
<1>9. \A u \in Threads, l \in Keys : Owns(u, l)' => info'[l] = u \/ revoked'[l[1]] \/ ~on'
  BY <1>1, <1>2, <1>5, <1>7, <1>8 DEF SoleInv
<1>10. \A u, v \in Threads, l \in Keys : Owns(u, l)' /\ Owns(v, l)' => u = v
  BY <1>5, <1>8 DEF SoleInv
<1>11. RevokedSilent'
  <2>1. \A a \in Borrowers : ~CallAt(a, "idle")' => ~CallAt(a, "idle") /\ req'[a] = req[a]
    BY <1>1 DEF Return, CallGoto, CallAt, PoolInv, TypeOK, CallTypeOK
  <2>. QED
    BY <1>1, <2>1 DEF SoleInv, RevokedSilent
<1>12. \A u \in Threads : pc'[u] \in {"toAsk", "noWork"} => wasted'[task'[u]] = 0
  BY <1>1 DEF SoleInv, PoolInv, Jobs, JobPlaces, TypeOK, MapTypeOK
<1>. QED
  BY <1>1, <1>9, <1>10, <1>11, <1>12 DEF SoleInv

\* A call begins for a client that is not revoked.
LEMMA SoleBegins ==
  ASSUME ~Reborrow, PoolInv, SoleInv, NEW b \in Borrowers, NEW c \in Clients, Call(b, c),
         \A t \in Threads : pc'[t] \in {pc[t], "finishing"}
  PROVE  SoleInv'
<1>1. /\ UNCHANGED <<on, info, wasted, job, task>>
      /\ ~revoked[c]
      /\ revoked' = [revoked EXCEPT ![c] = FALSE]
  BY DEF Call, mapVars
<1>2. revoked' = revoked
  BY <1>1 DEF SoleInv, RevokedSilent
<1>3. PICK i \in Idents, j \in Idents, place \in {"borrow", "range"} :
         CallGoto(b, place) /\ req' = [req EXCEPT ![b] = Request(c, i, j)]
  BY DEF Call
<1>4. Request(c, i, j).client = c
  BY DEF Request
<1>5. RevokedSilent'
  BY <1>1, <1>2, <1>3, <1>4
  DEF SoleInv, RevokedSilent, CallGoto, CallAt, PoolInv, TypeOK, CallTypeOK
<1>6. NoNewJob /\ StillAsking
  BY <1>1 DEF NoNewJob, StillAsking, SoleInv
<1>. QED
  BY <1>1, <1>2, <1>5, <1>6, SoleFrame

\* revoke_client takes the threads of that client only, and off() takes all
\* when the pool is off already.
LEMMA SoleRevoke ==
  /\ \A b \in Callers, c \in Clients : ~Reborrow /\ PoolInv /\ SoleInv /\ Revoke(b, c) => SoleInv'
  /\ PoolInv /\ SoleInv /\ (Off \/ OffStep) => SoleInv'
<1>1. ASSUME ~Reborrow, PoolInv, SoleInv, NEW b \in Callers, NEW c \in Clients, Revoke(b, c)
      PROVE  SoleInv'
  <2>1. /\ UNCHANGED <<on, wasted, job, task, pc, call, req>>
        /\ \A d \in Borrowers : ~CallAt(d, "idle") => req[d].client # c
        /\ CleanUp(KeysOf({c}))
        /\ revoked' = [revoked EXCEPT ![c] = TRUE]
    BY <1>1 DEF Revoke, callVars
  <2>2. \A k \in Keys : info'[k] = info[k] \/ k[1] = c
    BY <2>1 DEF CleanUp, KeysOf
  <2>3. /\ RevokedSilent' /\ revoked'[c]
        /\ \A d \in Clients : revoked[d] => revoked'[d]
    BY <1>1, <2>1 DEF SoleInv, RevokedSilent, CallAt
  <2>4. \A k \in Keys : info'[k] = info[k] \/ revoked'[k[1]] \/ ~on'
    BY <2>2, <2>3
  <2>5. NoNewJob /\ StillAsking
    BY <1>1, <2>1 DEF NoNewJob, StillAsking, SoleInv
  <2>. QED
    BY <1>1, <2>1, <2>3, <2>4, <2>5, SoleFrame
<1>2. ASSUME PoolInv, SoleInv, Off \/ OffStep
      PROVE  SoleInv'
  <2>1. /\ UNCHANGED <<wasted, task, revoked, call, req>>
        /\ on' => on /\ info' = info
        /\ \A t \in Threads : pc'[t] \in {pc[t], "closed"}
    <3>1. UNCHANGED <<wasted, task, revoked, call, req>>
      BY <1>2 DEF Off, OffStep, OffStopHouse, OffJoinHouse, OffCleanUp, OffDrain, OffGiveBack,
                  OffLeave, OffClear, OffClose, OffJoin, OffDown, mapVars, threadVars, callVars,
                  clientVars
    <3>2. on' => on /\ info' = info
      <4>1. CASE Off
        BY <4>1 DEF Off
      <4>2. CASE OffCleanUp
        BY <1>2, <4>2 DEF OffCleanUp, PoolInv, PlaceInv, Phases, OffAt
      <4>. QED
        BY <1>2, <4>1, <4>2
        DEF OffStep, OffStopHouse, OffJoinHouse, OffDrain, OffGiveBack, OffLeave, OffClear, OffClose,
            OffJoin, OffDown, mapVars
    <3>3. \A t \in Threads : pc'[t] \in {pc[t], "closed"}
      BY <1>2
      DEF Off, OffStep, OffStopHouse, OffJoinHouse, OffCleanUp, OffDrain, OffGiveBack, OffLeave,
          OffClear, OffClose, OffJoin, OffDown, Joined, Goto, threadVars, PoolInv, TypeOK,
          ThreadTypeOK, Workers
    <3>. QED
      BY <3>1, <3>2, <3>3
  <2>2. \A t \in Threads : job'[t] \in {job[t], None}
    BY <1>2
    DEF Off, OffStep, OffStopHouse, OffJoinHouse, OffCleanUp, OffDrain, OffGiveBack, OffLeave,
        OffClear, OffClose, OffJoin, OffDown, TakeBack, Cancel, CancelAndStop, threadVars, PoolInv,
        TypeOK, ThreadTypeOK, Workers
  <2>3. NoNewJob /\ StillAsking
    BY <1>2, <2>1, <2>2 DEF NoNewJob, StillAsking, SoleInv
  <2>4. RevokedSilent'
    BY <1>2, <2>1 DEF SoleInv, RevokedSilent, CallAt
  <2>. QED
    BY <1>2, <2>1, <2>3, <2>4, SoleFrame
<1>. QED
  BY <1>1, <1>2

\* Every step keeps it.
LEMMA SoleStep ==
  ASSUME ~Reborrow, PoolInv, SoleInv, [Next]_vars
  PROVE  SoleInv'
<1>1. CASE \E x \in Workers : LoopStep(x) \/ AlertOver(x)
  BY <1>1, SoleThread
<1>2. CASE \E t \in Threads : ClientStep(t)
  BY <1>2, SoleThread, SoleWaste DEF ClientStep, Attends
<1>3. CASE \E t \in Threads : NestedCall(t)
  <2>1. PICK t \in Threads : NestedCall(t)
    BY <1>3
  <2>2. task[t][1] \in Clients /\ Call(t, task[t][1]) /\ t \in Borrowers
    BY <2>1 DEF NestedCall, At, PoolInv, Jobs, JobPlaces, Keys, Borrowers
  <2>3. \A u \in Threads : pc'[u] \in {pc[u], "finishing"}
    BY <2>1 DEF NestedCall, Goto, PoolInv, TypeOK, ThreadTypeOK, Workers
  <2>. QED
    BY <2>2, <2>3, SoleBegins
<1>4. CASE \E b \in Callers : OutsideCall(b)
  <2>1. PICK b \in Callers, c \in Clients : Call(b, c) /\ UNCHANGED pc
    BY <1>4 DEF OutsideCall
  <2>2. b \in Borrowers
    BY DEF Borrowers
  <2>. QED
    BY <2>1, <2>2, SoleBegins
<1>5. CASE HouseStep
  BY <1>5, SoleHouse
<1>6. CASE \E b \in Borrowers : CallStep(b)
  BY <1>6, SoleCall, SoleActivate
<1>7. CASE \E b \in Callers, c \in Clients : Revoke(b, c)
  BY <1>7, SoleRevoke
<1>8. CASE Off \/ OffStep
  BY <1>8, SoleRevoke
<1>9. CASE UNCHANGED vars
  BY <1>9, SoleRests DEF vars, mapVars, threadVars, callVars, clientVars
<1>. QED
  BY <1>1, <1>2, <1>3, <1>4, <1>5, <1>6, <1>7, <1>8, <1>9 DEF Next, Gone

\* While no revoked client borrows again, no two threads have a job of the same
\* client and ident in hand, not even as a copy made before the revocation.
THEOREM PoolOneThreadPerIdent ==
  ASSUME ~Reborrow
  PROVE  Spec => []OneThreadPerIdent
<1>1. Init => SoleInv
  BY NamesAssumption
  DEF Init, SoleInv, Owns, RevokedSilent, CallAt, Workers
<1>2. PoolInv /\ SoleInv /\ [Next]_vars => SoleInv'
  BY SoleStep
<1>3. SoleInv => OneThreadPerIdent
  BY DEF SoleInv, Owns, OneThreadPerIdent
<1>. QED
  BY <1>1, <1>2, <1>3, PoolInvariant, PTL DEF Spec
=============================================================================
