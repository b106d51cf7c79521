--------------------------- MODULE AioGateProofs ----------------------------
(***************************************************************************)
(* Proofs about AioGate: who closes a pin, which operations are under way  *)
(* for it, whom its socket belongs to, what a late call reaches, and that  *)
(* its data stays whole from send_bulk to the end of v_on_send.            *)
(***************************************************************************)
EXTENDS AioGate, ListProofs

-----------------------------------------------------------------------------
(* The invariant.                                                          *)

\* The operations a pin has a mask for in both of its sets.
Masks == {"send", "recv", "connect"}

Fields == {"place", "alive", "udp", "progress", "invoking", "queue", "from", "len",
           "big", "taken", "sent", "refused"}

\* The queues and the lengths are left open.
IsPin(p) ==
  /\ DOMAIN p = Fields
  /\ p.place \in {"none", "map", "list", "final"}
  /\ p.alive \in BOOLEAN /\ p.refused \in BOOLEAN

Calls == [name : {"close", "recv"}, ident : Idents, kind : Kinds \cup {"none"},
          fresh : BOOLEAN]

PortShape ==
  /\ open \subseteq Idents
  /\ asked \in [Operations -> Idents \cup {NoIdent}]
  /\ calls \in [Workers -> Idents \cup {NoIdent}]

PinShape == pin = [i \in Idents |-> pin[i]] /\ \A i \in Idents : IsPin(pin[i])

ActorShape ==
  /\ during \in [Actors -> {None} \cup (Idents \X Kinds)]
  /\ half \in [Actors -> {None} \cup {<<h>> : h \in Calls}]

GateShape ==
  /\ listeners \subseteq Ears
  /\ pinList \in Seq(Idents)
  /\ closer \in [step : {"idle", "on_close", "destroy"}, ident : Idents \cup {NoIdent}]
  /\ up \in {"on", "stopping", "port", "clear", "off"}

Shape == PortShape /\ PinShape /\ ActorShape /\ GateShape

\* What is asked of the port is asked for its own socket, which is open.
AskedOpen ==
  \A i \in Idents : \A k \in Kinds :
    asked[<<i, k>>] # NoIdent => asked[<<i, k>>] = i /\ i \in open

\* Idents of listeners are not those of pins, and an open socket has an owner.
Owned ==
  /\ \A i \in Ears : pin[i].place = "none"
  /\ SocketsOwned
  /\ up \in {"clear", "off"} => open = {}

\* The list of the closer holds pins in place "list", each once; the pin it has
\* taken is in place "final" until its socket is closed.
Listed ==
  /\ \A n \in DOMAIN pinList : pin[pinList[n]].place = "list"
  /\ OnceEach(pinList)
  /\ closer.step = "on_close" => closer.ident \in Idents /\ pin[closer.ident].place = "final"
  /\ up \in {"port", "clear", "off"} => closer.step = "idle"

\* A worker in client code, or about to call, runs a callback of the port; a
\* user does so only while the gate is on.
Busy ==
  /\ \A w \in Workers : during[w] # None \/ half[w] # None => calls[w] # NoIdent
  /\ up # "on" => \A a \in Users : during[a] = None /\ half[a] = None
  /\ up \in {"clear", "off"} => \A w \in Workers : calls[w] = NoIdent

\* A callback of the client is marked in its pin, which is in the map, and a
\* mark stands for one callback.
Marked(i) ==
  /\ \A a \in Actors : \A k \in Kinds :
       during[a] = <<i, k>> => Mapped(i) /\ k \in pin[i].invoking
  /\ \A k \in pin[i].invoking :
       /\ \E a \in Actors : during[a] = <<i, k>>
       /\ \A a, b \in Actors : during[a] = <<i, k>> /\ during[b] = <<i, k>> => a = b

\* An operation under way, or called back for, is in progress, and not both.
Masked(i) ==
  \A k \in Masks :
    /\ k \in pin[i].invoking => k \in pin[i].progress
    /\ asked[<<i, k>>] = i /\ Mapped(i) => k \in pin[i].progress /\ k \notin pin[i].invoking

\* DeadIsClosed and StoredIsSent of one pin.
DeadCloses(i) == Mapped(i) /\ ~pin[i].alive => pin[i].invoking # {} \/ ClosingSoon(i)
StoredGoes(i) ==
  Alive(i) /\ pin[i].queue # <<>> /\ ~pin[i].refused =>
    "send" \in pin[i].progress \/ ClosingSoon(i)

PinInv(i) == Marked(i) /\ Masked(i) /\ DeadCloses(i) /\ StoredGoes(i)

\* What a worker has begun for the pin it is called back for reaches that pin.
Reaches(w) ==
  half[w] # None /\ half[w][1].ident = calls[w] /\ Mapped(calls[w]) => half[w][1].fresh

GateInv ==
  /\ Shape /\ AskedOpen /\ Owned /\ Listed /\ Busy
  /\ \A i \in Idents : PinInv(i)
  /\ \A w \in Workers : Reaches(w)

-----------------------------------------------------------------------------
(* Pins: what becomes of one when it is edited.                            *)

\* The place and the life of a pin, which most edits leave alone.
SamePlace(q, p) == IsPin(q) /\ q.place = p.place /\ q.alive = p.alive

LEMMA EditIs ==
  ASSUME PinShape, NEW i \in Idents, NEW p, IsPin(p), pin' = [pin EXCEPT ![i] = p]
  PROVE  PinShape' /\ pin'[i] = p /\ \A j \in Idents : j # i => pin'[j] = pin[j]
BY DEF PinShape

LEMMA NewPinIs ==
  ASSUME NEW udp
  PROVE  LET q == NewPin(udp)
         IN  /\ IsPin(q) /\ q.place = "map" /\ q.alive = TRUE /\ q.queue = <<>>
             /\ q.progress = {} /\ q.invoking = {}
BY DEF NewPin, NoPin, IsPin, Fields

LEMMA NoPinIs ==
  /\ IsPin(NoPin) /\ NoPin.place = "none" /\ NoPin.queue = <<>>
  /\ NoPin.progress = {} /\ NoPin.invoking = {}
BY DEF NoPin, IsPin, Fields

LEMMA InvokingIs ==
  ASSUME NEW p, IsPin(p), NEW k
  PROVE  LET q == Invoking(p, k)
         IN  /\ SamePlace(q, p) /\ q.queue = p.queue /\ q.refused = p.refused
             /\ q.progress = p.progress /\ q.invoking = p.invoking \cup {k}
BY DEF Invoking, SamePlace, IsPin, Fields

LEMMA SendingIs ==
  ASSUME NEW p, IsPin(p)
  PROVE  LET q == Sending(p)
         IN  /\ SamePlace(q, p)
             /\ q.progress = p.progress \cup {"send"} /\ q.invoking = p.invoking
BY DEF Sending, SamePlace, IsPin, Fields

LEMMA StoredIs ==
  ASSUME NEW p, IsPin(p), NEW bulk, NEW r \in BOOLEAN
  PROVE  LET q == [Stored(p, bulk) EXCEPT !.refused = r]
         IN  /\ SamePlace(q, p) /\ q.refused = r
             /\ q.progress = p.progress /\ q.invoking = p.invoking
BY DEF Stored, SamePlace, IsPin, Fields

LEMMA SentIs ==
  ASSUME NEW p, IsPin(p), NEW n
  PROVE  LET q == Sent(p, n)
         IN  /\ SamePlace(q, p) /\ q.refused = p.refused
             /\ q.progress = p.progress /\ q.invoking = p.invoking
BY DEF Sent, SamePlace, IsPin, Fields

LEMMA ReceivingIs ==
  ASSUME NEW p, IsPin(p), NEW big
  PROVE  LET q == Receiving(p, big)
         IN  /\ SamePlace(q, p) /\ q.queue = p.queue /\ q.refused = p.refused
             /\ q.progress = p.progress \cup {"recv"} /\ q.invoking = p.invoking
BY DEF Receiving, SamePlace, IsPin, Fields

LEMMA ReleasedIs ==
  ASSUME NEW p, IsPin(p), NEW k
  PROVE  LET q == Released(p, k)
         IN  /\ SamePlace(q, p) /\ q.queue = p.queue /\ q.refused = p.refused
             /\ q.progress = IF k = "accept" THEN p.progress ELSE p.progress \ {k}
             /\ q.invoking = p.invoking \ {k}
BY DEF Released, SamePlace, IsPin, Fields

LEMMA UnmaskedIs ==
  ASSUME NEW p, IsPin(p), NEW k
  PROVE  LET q == [p EXCEPT !.progress = @ \ {k}]
         IN  /\ SamePlace(q, p) /\ q.queue = p.queue /\ q.refused = p.refused
             /\ q.progress = p.progress \ {k} /\ q.invoking = p.invoking
BY DEF SamePlace, IsPin, Fields

-----------------------------------------------------------------------------
(* The port: what becomes of the operations when it is called.             *)

\* No operation of the ident is new but, it may be, the one of kind k.
AskedOnly(i, k) ==
  /\ \A l \in Masks : l # k => asked'[<<i, l>>] \in {asked[<<i, l>>], NoIdent}
  /\ \A j \in Idents : \A l \in Masks :
       j # i => asked'[<<j, l>>] \in {asked[<<j, l>>], NoIdent}

\* No operation of the ident is new.
Quiet(i) == \A k \in Masks : asked'[<<i, k>>] \in {asked[<<i, k>>], NoIdent}

LEMMA AskingIs ==
  ASSUME PortShape, AskedOpen, NEW i \in Idents, NEW k \in Kinds, Port!Ask(<<i, k>>, i)
  PROVE  /\ PortShape' /\ AskedOpen' /\ open' = open /\ calls' = calls
         /\ i \in open /\ asked[<<i, k>>] = NoIdent
         /\ AskedOnly(i, k)
<1>1. asked' = [asked EXCEPT ![<<i, k>>] = i] /\ <<i, k>> \in Operations
  BY DEF Port!Ask, Operations
<1>2. \A j \in Idents : \A l \in Kinds : <<j, l>> \in Operations
  BY DEF Operations
<1>3. \A j \in Idents : \A l \in Kinds :
        asked'[<<j, l>>] = IF j = i /\ l = k THEN i ELSE asked[<<j, l>>]
  BY <1>1, <1>2 DEF PortShape
<1>4. PortShape'
  BY <1>1 DEF PortShape, Port!Ask
<1>5. AskedOpen'
  BY <1>3 DEF AskedOpen, Port!Ask
<1>6. AskedOnly(i, k)
  BY <1>3 DEF AskedOnly, Masks, Kinds
<1> QED
  BY <1>4, <1>5, <1>6 DEF Port!Ask

LEMMA AskIs ==
  ASSUME PortShape, AskedOpen, NEW i \in Idents, NEW k \in Kinds, Ask(k, i)
  PROVE  /\ PortShape' /\ AskedOpen' /\ open' = open /\ calls' = calls
         /\ AskedOnly(i, k)
<1>1. CASE up = "port"
  BY <1>1 DEF Ask, PortShape, AskedOpen, AskedOnly
<1>2. CASE up # "port"
  BY <1>2, AskingIs DEF Ask
<1> QED
  BY <1>1, <1>2

LEMMA AnswerIs ==
  ASSUME PortShape, AskedOpen, NEW w \in Workers, NEW i \in Idents, NEW k \in Kinds,
         Port!Answer(w, <<i, k>>)
  PROVE  /\ PortShape' /\ AskedOpen' /\ open' = open /\ i \in open
         /\ calls[w] = NoIdent /\ calls' = [calls EXCEPT ![w] = i]
         /\ asked[<<i, k>>] = i /\ asked'[<<i, k>>] = NoIdent
         /\ \A j \in Idents : Quiet(j)
<1>1. /\ asked' = [asked EXCEPT ![<<i, k>>] = NoIdent] /\ <<i, k>> \in Operations
      /\ asked[<<i, k>>] # NoIdent /\ open' = open
      /\ calls[w] = NoIdent /\ calls' = [calls EXCEPT ![w] = asked[<<i, k>>]]
  BY DEF Port!Answer, Operations
<1>2. \A j \in Idents : \A l \in Kinds : <<j, l>> \in Operations
  BY DEF Operations
<1>3. \A j \in Idents : \A l \in Kinds :
        asked'[<<j, l>>] = IF j = i /\ l = k THEN NoIdent ELSE asked[<<j, l>>]
  BY <1>1, <1>2 DEF PortShape
<1>4. asked[<<i, k>>] = i /\ i \in open
  BY <1>1 DEF AskedOpen
<1>5. PortShape'
  BY <1>1, <1>4 DEF PortShape
<1>6. AskedOpen'
  BY <1>1, <1>3 DEF AskedOpen
<1>7. \A j \in Idents : Quiet(j)
  BY <1>3 DEF Quiet, Masks, Kinds
<1> QED
  BY <1>1, <1>3, <1>4, <1>5, <1>6, <1>7

LEMMA AnswerAcceptIs ==
  ASSUME PortShape, AskedOpen, NEW w \in Workers, NEW i \in Idents, NEW j \in Idents,
         Port!AnswerAccept(w, <<i, "accept">>, j)
  PROVE  /\ PortShape' /\ AskedOpen' /\ open' = open \cup {j} /\ i \in open
         /\ j \notin open /\ \A x \in Workers : calls[x] # j
         /\ calls[w] = NoIdent /\ calls' = [calls EXCEPT ![w] = i]
         /\ \A l \in Idents : Quiet(l)
<1>1. /\ asked' = [asked EXCEPT ![<<i, "accept">>] = NoIdent]
      /\ <<i, "accept">> \in Operations
      /\ asked[<<i, "accept">>] # NoIdent /\ open' = open \cup {j}
      /\ calls[w] = NoIdent /\ calls' = [calls EXCEPT ![w] = asked[<<i, "accept">>]]
      /\ j \notin open /\ \A x \in Workers : calls[x] # j
  BY DEF Port!AnswerAccept, Port!Unused, Operations, Kinds
<1>2. \A l \in Idents : \A k \in Kinds : <<l, k>> \in Operations
  BY DEF Operations
<1>3. \A l \in Idents : \A k \in Kinds :
        asked'[<<l, k>>] = IF l = i /\ k = "accept" THEN NoIdent ELSE asked[<<l, k>>]
  BY <1>1, <1>2 DEF PortShape
<1>4. asked[<<i, "accept">>] = i /\ i \in open
  BY <1>1 DEF AskedOpen, Kinds
<1>5. PortShape'
  BY <1>1, <1>4 DEF PortShape
<1>6. AskedOpen'
  BY <1>1, <1>3 DEF AskedOpen
<1>7. \A l \in Idents : Quiet(l)
  BY <1>3 DEF Quiet, Masks, Kinds
<1> QED
  BY <1>1, <1>4, <1>5, <1>6, <1>7

LEMMA CloseIs ==
  ASSUME PortShape, AskedOpen, NEW i \in Idents, Port!Close(i)
  PROVE  /\ PortShape' /\ AskedOpen' /\ open' = open \ {i} /\ calls' = calls
         /\ \A j \in Idents : Quiet(j)
<1>1. /\ open' = open \ {i} /\ calls' = calls
      /\ asked' = [t \in Operations |-> IF asked[t] = i THEN NoIdent ELSE asked[t]]
  BY DEF Port!Close
<1>2. \A j \in Idents : \A l \in Kinds : <<j, l>> \in Operations
  BY DEF Operations
<1>3. \A j \in Idents : \A l \in Kinds :
        asked'[<<j, l>>] = IF asked[<<j, l>>] = i THEN NoIdent ELSE asked[<<j, l>>]
  BY <1>1, <1>2
<1>4. PortShape'
  BY <1>1 DEF PortShape
<1>5. AskedOpen'
  BY <1>1, <1>3 DEF AskedOpen
<1>6. \A j \in Idents : Quiet(j)
  BY <1>3 DEF Quiet, Masks, Kinds
<1> QED
  BY <1>1, <1>4, <1>5, <1>6

-----------------------------------------------------------------------------
(* Frames: what keeps a part of the invariant.                             *)

\* A step that concerns other pins.
Untouched(i) ==
  /\ pin'[i] = pin[i]
  /\ Quiet(i)
  /\ \A a \in Actors : \A k \in Kinds : during'[a] = <<i, k>> <=> during[a] = <<i, k>>
  /\ ClosingSoon(i) => ClosingSoon(i)'

LEMMA CallbackKnown ==
  ASSUME ActorShape, NEW a \in Actors, NEW i, NEW k, during[a] = <<i, k>>
  PROVE  i \in Idents /\ k \in Kinds /\ during[a] # None
BY DEF ActorShape, None

LEMMA OthersKept ==
  ASSUME IdentsAssumption, ActorShape, ActorShape', NEW i \in Idents, PinInv(i), Untouched(i)
  PROVE  PinInv(i)'
<1>1. \A k : \A a \in Actors : during'[a] = <<i, k>> <=> during[a] = <<i, k>>
  BY CallbackKnown DEF Untouched, ActorShape, None
<1>2. Marked(i)'
  BY <1>1 DEF PinInv, Marked, Mapped, Untouched
<1>3. Masked(i)'
  BY DEF IdentsAssumption, PinInv, Masked, Mapped, Untouched, Quiet
<1>4. DeadCloses(i)'
  BY DEF PinInv, DeadCloses, Mapped, Untouched
<1>5. StoredGoes(i)'
  BY DEF PinInv, StoredGoes, Alive, Mapped, Untouched
<1> QED
  BY <1>2, <1>3, <1>4, <1>5 DEF PinInv

LEMMA PlacesKept ==
  ASSUME Shape, Owned, Listed, UNCHANGED <<open, listeners, pinList, closer, up>>,
         \A i \in Idents : pin'[i].place = pin[i].place
  PROVE  Owned' /\ Listed'
<1>1. Owned'
  BY IdentsAssumption DEF IdentsAssumption, Owned, SocketsOwned
<1>2. \A n \in DOMAIN pinList : pinList[n] \in Idents
  BY DEF Shape, GateShape
<1>3. Listed'
  BY <1>2 DEF Listed
<1> QED
  BY <1>1, <1>3

\* A worker that goes on with what it was doing.
LEMMA ReachesKept ==
  ASSUME ActorShape, NEW w \in Workers, Reaches(w), half'[w] = half[w], calls'[w] = calls[w],
         \A i \in Idents : i = calls[w] /\ pin'[i].place = "map" => pin[i].place = "map"
  PROVE  Reaches(w)'
<1>1. half[w] # None => half[w][1].ident \in Idents
  BY DEF ActorShape, Calls, Actors, None
<1> QED
  BY <1>1 DEF Reaches, Mapped

\* The ident of a socket that was not open: nothing knows it.
LEMMA UnknownIs ==
  ASSUME IdentsAssumption, Shape, AskedOpen, Owned, NEW i \in Idents, PinInv(i),
         i \notin open, up \in {"on", "stopping", "port"}
  PROVE  /\ pin[i].place = "none"
         /\ \A k \in Kinds : asked[<<i, k>>] = NoIdent
         /\ \A a \in Actors : \A k : during[a] # <<i, k>>
<1>1. pin[i].place = "none"
  BY DEF Owned, SocketsOwned
<1>2. \A k \in Kinds : asked[<<i, k>>] = NoIdent
  BY DEF AskedOpen
<1>3. \A a \in Actors : \A k : during[a] # <<i, k>>
  BY <1>1, CallbackKnown DEF PinInv, Marked, Mapped, Shape
<1> QED
  BY <1>1, <1>2, <1>3

\* A new pin has its owner.
LEMMA NewOwned ==
  ASSUME IdentsAssumption, Shape, Owned, Listed, NEW i \in Idents, i \notin Ears,
         up \in {"on", "stopping", "port"}, pin[i].place = "none",
         open' = open \cup {i}, pin'[i].place = "map",
         \A j \in Idents : j # i => pin'[j] = pin[j],
         UNCHANGED <<listeners, pinList, closer, up>>
  PROVE  Owned' /\ Listed'
<1>1. Owned'
  BY DEF IdentsAssumption, Owned, SocketsOwned
<1>2. \A n \in DOMAIN pinList : pinList[n] \in Idents
  BY DEF Shape, GateShape
<1>3. Listed'
  BY <1>2 DEF Listed
<1> QED
  BY <1>1, <1>3

\* A step of the port alone.
LEMMA PinsUntouched ==
  ASSUME GateInv, IdentsAssumption, ActorShape', UNCHANGED <<pin, during, half>>,
         \A i \in Idents : Quiet(i)
  PROVE  \A i \in Idents : PinInv(i)'
<1> SUFFICES ASSUME NEW i \in Idents PROVE PinInv(i)'
  OBVIOUS
<1>1. Untouched(i)
  BY DEF Untouched, ClosingSoon
<1> QED
  BY <1>1, OthersKept DEF GateInv, Shape

-----------------------------------------------------------------------------
(* Steps that leave the pins alone.                                        *)

LEMMA ListenStep ==
  ASSUME GateInv, IdentsAssumption, ActorsAssumption,
         NEW a \in Actors, NEW i \in Idents, Listen(a, i)
  PROVE  GateInv'
<1>1. /\ CanCall(a) /\ i \in Ears /\ i \notin open /\ open' = open \cup {i}
      /\ listeners' = listeners \cup {i} /\ \A w \in Workers : calls[w] # i
      /\ UNCHANGED <<asked, calls, pin, pinList, closer, during, half, up>>
  BY DEF Listen, Port!Create, Port!Unused
<1>2. Shape'
  BY <1>1 DEF GateInv, Shape, PortShape, PinShape, ActorShape, GateShape
<1>3. AskedOpen'
  BY <1>1 DEF GateInv, AskedOpen
<1>4. up \in {"on", "stopping", "port"}
  BY <1>1 DEF GateInv, Busy, CanCall, Actors, Shape, GateShape
<1>5. Owned' /\ Listed' /\ Busy'
  BY <1>1, <1>4 DEF IdentsAssumption, GateInv, Owned, SocketsOwned, Listed, Busy
<1>6. \A j \in Idents : PinInv(j)'
  BY <1>1, <1>2, PinsUntouched DEF Quiet, Shape
<1>7. \A w \in Workers : Reaches(w)'
  BY <1>1 DEF GateInv, Reaches, Mapped
<1> QED
  BY <1>2, <1>3, <1>5, <1>6, <1>7 DEF GateInv

LEMMA DeafStep ==
  ASSUME GateInv, IdentsAssumption, ActorsAssumption,
         NEW a \in Actors, NEW i \in Idents, Deaf(a, i)
  PROVE  GateInv'
<1>1. /\ Port!Close(i) /\ i \in listeners /\ listeners' = listeners \ {i}
      /\ UNCHANGED <<pin, pinList, closer, during, half, up>>
  BY DEF Deaf
<1>2. /\ PortShape' /\ AskedOpen' /\ open' = open \ {i} /\ calls' = calls
      /\ \A j \in Idents : Quiet(j)
  BY <1>1, CloseIs DEF GateInv, Shape
<1>3. Shape'
  BY <1>1, <1>2 DEF GateInv, Shape, PinShape, ActorShape, GateShape
<1>4. pin[i].place = "none"
  BY <1>1 DEF GateInv, Owned, Shape, GateShape
<1>5. Owned' /\ Listed' /\ Busy'
  BY <1>1, <1>2, <1>4 DEF IdentsAssumption, GateInv, Owned, SocketsOwned, Listed, Busy
<1>6. \A j \in Idents : PinInv(j)'
  BY <1>1, <1>2, <1>3, PinsUntouched DEF Shape
<1>7. \A w \in Workers : Reaches(w)'
  BY <1>1, <1>2 DEF GateInv, Reaches, Mapped
<1> QED
  BY <1>2, <1>3, <1>5, <1>6, <1>7 DEF GateInv

LEMMA PostAcceptStep ==
  ASSUME GateInv, IdentsAssumption, NEW i \in Idents, PostAccept(i)
  PROVE  GateInv'
<1>1. Port!Ask(<<i, "accept">>, i) /\ UNCHANGED gateVars
  BY DEF PostAccept
<1>2. /\ PortShape' /\ AskedOpen' /\ open' = open /\ calls' = calls
      /\ AskedOnly(i, "accept")
  BY <1>1, AskingIs DEF GateInv, Shape, Kinds
<1>3. Shape'
  BY <1>1, <1>2 DEF GateInv, Shape, PinShape, ActorShape, GateShape, gateVars
<1>4. Owned' /\ Listed' /\ Busy'
  BY <1>1, <1>2 DEF GateInv, Owned, SocketsOwned, Listed, Busy, gateVars
<1>5. \A j \in Idents : Quiet(j)
  BY <1>2 DEF AskedOnly, Quiet, Masks
<1>6. \A j \in Idents : PinInv(j)'
  BY <1>1, <1>3, <1>5, PinsUntouched DEF Shape, gateVars
<1>7. \A w \in Workers : Reaches(w)'
  BY <1>1, <1>2 DEF GateInv, Reaches, Mapped, gateVars
<1> QED
  BY <1>2, <1>3, <1>4, <1>6, <1>7 DEF GateInv

\* A worker that is called back for a socket: the port has it so, and the
\* worker had nothing else to do.
LEMMA IgnoredStep ==
  ASSUME GateInv, IdentsAssumption, ActorsAssumption,
         NEW w \in Workers, NEW i \in Idents, NEW k \in Kinds, Port!Answer(w, <<i, k>>),
         CanAnswer(w), UNCHANGED gateVars
  PROVE  GateInv'
<1>1. /\ PortShape' /\ AskedOpen' /\ open' = open /\ i \in open
      /\ calls' = [calls EXCEPT ![w] = i]
      /\ \A j \in Idents : Quiet(j)
  BY AnswerIs DEF GateInv, Shape
<1>2. Shape'
  BY <1>1 DEF GateInv, Shape, PinShape, ActorShape, GateShape, gateVars
<1>3. \A x \in Workers : x # w => calls'[x] = calls[x]
  BY <1>1 DEF GateInv, Shape, PortShape
<1>4. Owned' /\ Listed'
  BY <1>1 DEF GateInv, Owned, SocketsOwned, Listed, gateVars
<1>5. Busy'
  BY <1>1, <1>3 DEF IdentsAssumption, GateInv, Owned, Busy, CanAnswer, gateVars
<1>6. \A j \in Idents : PinInv(j)'
  BY <1>1, <1>2, PinsUntouched DEF Shape, gateVars
<1>7. \A x \in Workers : Reaches(x)'
  BY <1>3 DEF GateInv, Reaches, Mapped, CanAnswer, gateVars
<1> QED
  BY <1>1, <1>2, <1>4, <1>5, <1>6, <1>7 DEF GateInv

LEMMA ReturnStep ==
  ASSUME GateInv, IdentsAssumption, NEW w \in Workers, Return(w)
  PROVE  GateInv'
<1>1. /\ during[w] = None /\ half[w] = None /\ calls' = [calls EXCEPT ![w] = NoIdent]
      /\ UNCHANGED <<open, asked>> /\ UNCHANGED gateVars
  BY DEF Return, Port!Return
<1>2. Shape'
  BY <1>1 DEF GateInv, Shape, PortShape, PinShape, ActorShape, GateShape, gateVars
<1>3. \A x \in Workers : calls'[x] = IF x = w THEN NoIdent ELSE calls[x]
  BY <1>1 DEF GateInv, Shape, PortShape
<1>4. AskedOpen' /\ Owned' /\ Listed'
  BY <1>1 DEF GateInv, AskedOpen, Owned, SocketsOwned, Listed, gateVars
<1>5. Busy'
  BY <1>1, <1>3 DEF GateInv, Busy, gateVars
<1>6. \A j \in Idents : PinInv(j)'
  BY <1>1, <1>2, PinsUntouched DEF Shape, Quiet, gateVars
<1>7. \A x \in Workers : Reaches(x)'
  BY <1>1, <1>3 DEF GateInv, Reaches, Mapped, gateVars
<1> QED
  BY <1>2, <1>4, <1>5, <1>6, <1>7 DEF GateInv

LEMMA CloseStep ==
  ASSUME GateInv, IdentsAssumption, ActorsAssumption,
         NEW a \in Actors, NEW i \in Idents, Close(a, i)
  PROVE  GateInv'
<1> DEFINE h == [name |-> "close", ident |-> i, kind |-> "none", fresh |-> TRUE]
<1>1. /\ CanCall(a) /\ half' = [half EXCEPT ![a] = <<h>>] /\ h \in Calls
      /\ UNCHANGED <<open, asked, calls, listeners, pin, pinList, closer, during, up>>
  BY DEF Close, Later, Calls
<1>2. half[a] = None
  BY <1>1 DEF CanCall
<1>3. Shape'
  BY <1>1 DEF GateInv, Shape, PortShape, PinShape, ActorShape, GateShape
<1>4. AskedOpen' /\ Owned' /\ Listed'
  BY <1>1 DEF GateInv, AskedOpen, Owned, SocketsOwned, Listed
<1>5. \A b \in Actors : half'[b] = IF b = a THEN <<h>> ELSE half[b]
  BY <1>1 DEF GateInv, Shape, ActorShape
<1>6. Busy'
  BY <1>1, <1>5 DEF ActorsAssumption, GateInv, Busy, CanCall, Actors
<1>7. \A j \in Idents : Untouched(j)
  BY <1>1, <1>2, <1>5 DEF Untouched, Quiet, ClosingSoon
<1>8. \A j \in Idents : PinInv(j)'
  BY <1>3, <1>7, OthersKept DEF GateInv, Shape
<1>9. \A w \in Workers : Reaches(w)'
  BY <1>1, <1>5 DEF GateInv, Reaches, Mapped, Actors
<1> QED
  BY <1>3, <1>4, <1>6, <1>8, <1>9 DEF GateInv

LEMMA OffStartStep ==
  ASSUME GateInv, IdentsAssumption, OffStart
  PROVE  GateInv'
<1>1. /\ up = "on" /\ up' = "stopping" /\ \A a \in Users : during[a] = None /\ half[a] = None
      /\ UNCHANGED <<open, asked, calls, listeners, pin, pinList, closer, during, half>>
  BY DEF OffStart
<1>2. Shape'
  BY <1>1 DEF GateInv, Shape, PortShape, PinShape, ActorShape, GateShape
<1>3. AskedOpen' /\ Owned' /\ Listed' /\ Busy'
  BY <1>1 DEF GateInv, AskedOpen, Owned, SocketsOwned, Listed, Busy
<1>4. \A j \in Idents : PinInv(j)'
  BY <1>1, <1>2, PinsUntouched DEF Shape, Quiet
<1>5. \A x \in Workers : Reaches(x)'
  BY <1>1 DEF GateInv, Reaches, Mapped
<1> QED
  BY <1>2, <1>3, <1>4, <1>5 DEF GateInv

LEMMA OffThreadStep ==
  ASSUME GateInv, IdentsAssumption, OffThread
  PROVE  GateInv'
<1>1. /\ up = "stopping" /\ up' = "port" /\ closer.step = "idle"
      /\ UNCHANGED <<open, asked, calls, listeners, pin, pinList, closer, during, half>>
  BY DEF OffThread
<1>2. Shape'
  BY <1>1 DEF GateInv, Shape, PortShape, PinShape, ActorShape, GateShape
<1>3. AskedOpen' /\ Owned' /\ Listed' /\ Busy'
  BY <1>1 DEF GateInv, AskedOpen, Owned, SocketsOwned, Listed, Busy
<1>4. \A j \in Idents : PinInv(j)'
  BY <1>1, <1>2, PinsUntouched DEF Shape, Quiet
<1>5. \A x \in Workers : Reaches(x)'
  BY <1>1 DEF GateInv, Reaches, Mapped
<1> QED
  BY <1>2, <1>3, <1>4, <1>5 DEF GateInv

LEMMA OffPortStep ==
  ASSUME GateInv, IdentsAssumption, OffPort
  PROVE  GateInv'
<1>1. /\ up = "port" /\ up' = "clear" /\ open' = {}
      /\ \A w \in Workers : calls[w] = NoIdent
      /\ asked' = [t \in Operations |-> NoIdent]
      /\ UNCHANGED <<calls, listeners, pin, pinList, closer, during, half>>
  BY DEF OffPort, Port!Down
<1>2. \A i \in Idents : \A k \in Kinds : asked'[<<i, k>>] = NoIdent
  BY <1>1 DEF Operations
<1>3. Shape'
  BY <1>1 DEF GateInv, Shape, PortShape, PinShape, ActorShape, GateShape
<1>4. AskedOpen' /\ Owned' /\ Listed' /\ Busy'
  BY <1>1, <1>2 DEF GateInv, AskedOpen, Owned, SocketsOwned, Listed, Busy
<1>5. \A j \in Idents : PinInv(j)'
  BY <1>1, <1>2, <1>3, PinsUntouched DEF Shape, Quiet, Masks, Kinds
<1>6. \A x \in Workers : Reaches(x)'
  BY <1>1 DEF GateInv, Reaches, Mapped
<1> QED
  BY <1>3, <1>4, <1>5, <1>6 DEF GateInv

LEMMA DestroyStep ==
  ASSUME GateInv, IdentsAssumption, Destroy
  PROVE  GateInv'
<1>1. /\ closer' = [step |-> "idle", ident |-> NoIdent]
      /\ UNCHANGED <<open, asked, calls, listeners, pin, pinList, during, half, up>>
  BY DEF Destroy
<1>2. Shape'
  BY <1>1 DEF GateInv, Shape, PortShape, PinShape, ActorShape, GateShape
<1>3. AskedOpen' /\ Owned' /\ Listed' /\ Busy'
  BY <1>1 DEF GateInv, AskedOpen, Owned, SocketsOwned, Listed, Busy
<1>4. \A j \in Idents : PinInv(j)'
  BY <1>1, <1>2, PinsUntouched DEF Shape, Quiet
<1>5. \A x \in Workers : Reaches(x)'
  BY <1>1 DEF GateInv, Reaches, Mapped
<1> QED
  BY <1>2, <1>3, <1>4, <1>5 DEF GateInv

-----------------------------------------------------------------------------
(* Steps that edit a pin of the map.                                       *)

\* An actor begins the second half of a call.
LEMMA LaterIs ==
  ASSUME ActorShape, NEW a \in Actors, half[a] = None, NEW name \in {"close", "recv"},
         NEW i \in Idents, NEW k \in Kinds, half' = [half EXCEPT ![a] = Later(name, i, k)]
  PROVE  /\ half' \in [Actors -> {None} \cup {<<h>> : h \in Calls}]
         /\ half'[a] # None /\ half'[a][1].fresh
         /\ \A b \in Actors : b # a => half'[b] = half[b]
         /\ \A j \in Idents : ClosingSoon(j) => ClosingSoon(j)'
         /\ name = "close" => ClosingSoon(i)'
<1> DEFINE h == [name |-> name, ident |-> i, kind |-> k, fresh |-> TRUE]
<1>1. half' = [half EXCEPT ![a] = <<h>>] /\ h \in Calls
  BY DEF Later, Calls
<1>2. half' \in [Actors -> {None} \cup {<<g>> : g \in Calls}]
  BY <1>1 DEF ActorShape
<1>3. \A b \in Actors : half'[b] = IF b = a THEN <<h>> ELSE half[b]
  BY <1>1 DEF ActorShape
<1>4. \A j \in Idents : ClosingSoon(j) => ClosingSoon(j)'
  BY <1>3 DEF ClosingSoon
<1>5. name = "close" => ClosingSoon(i)'
  BY <1>3 DEF ClosingSoon, None
<1> QED
  BY <1>2, <1>3, <1>4, <1>5 DEF None

\* A worker that answers: what is known of the others is kept.
LEMMA AnsweredIs ==
  ASSUME GateInv, IdentsAssumption, ActorsAssumption, NEW w \in Workers, CanAnswer(w),
         NEW i \in Idents, i \in open, calls' = [calls EXCEPT ![w] = i], up' = up,
         \A a \in Actors : a # w => during'[a] = during[a] /\ half'[a] = half[a],
         half'[w] # None => half'[w][1].fresh,
         \A x \in Workers : \A j \in Idents :
           x # w /\ j = calls[x] /\ pin'[j].place = "map" => pin[j].place = "map"
  PROVE  Busy' /\ \A x \in Workers : Reaches(x)'
<1>1. \A x \in Workers : calls'[x] = IF x = w THEN i ELSE calls[x]
  BY DEF GateInv, Shape, PortShape
<1>2. Busy'
  BY <1>1 DEF IdentsAssumption, ActorsAssumption, GateInv, Owned, Busy, Actors
<1>3. ASSUME NEW x \in Workers, x # w PROVE Reaches(x)'
  BY <1>1, <1>3, ReachesKept DEF GateInv, Shape, Actors
<1>4. Reaches(w)'
  BY DEF Reaches
<1> QED
  BY <1>2, <1>3, <1>4

\* An edit that leaves the callbacks of the pin as they are.
LEMMA EditKept ==
  ASSUME ActorShape, ActorShape', NEW i \in Idents, PinInv(i),
         SamePlace(pin'[i], pin[i]), pin'[i].invoking = pin[i].invoking,
         UNCHANGED during, ClosingSoon(i) => ClosingSoon(i)', Masked(i)',
         StoredGoes(i)'
  PROVE  PinInv(i)'
<1>1. Marked(i)'
  BY DEF PinInv, Marked, Mapped, SamePlace
<1>2. DeadCloses(i)'
  BY DEF PinInv, DeadCloses, Mapped, SamePlace
<1> QED
  BY <1>1, <1>2 DEF PinInv

\* A callback that begins.
LEMMA CallBackKept ==
  ASSUME ActorShape, ActorShape', NEW i \in Idents, Marked(i),
         NEW a \in Actors, NEW k \in Kinds, during[a] = None,
         during' = [during EXCEPT ![a] = <<i, k>>],
         k \notin pin[i].invoking, pin'[i].invoking = pin[i].invoking \cup {k},
         pin'[i].place = "map", Masked(i)', StoredGoes(i)'
  PROVE  PinInv(i)'
<1>1. \A b \in Actors : during'[b] = IF b = a THEN <<i, k>> ELSE during[b]
  BY DEF ActorShape
<1>2. \A b \in Actors : during[b] # <<i, k>>
  BY DEF Marked
<1>3. ASSUME NEW b \in Actors, NEW l \in Kinds, during'[b] = <<i, l>>
      PROVE  Mapped(i)' /\ l \in pin'[i].invoking
  BY <1>1, <1>3 DEF Marked, Mapped
<1>4. ASSUME NEW l \in pin'[i].invoking
      PROVE  /\ \E b \in Actors : during'[b] = <<i, l>>
             /\ \A b, c \in Actors : during'[b] = <<i, l>> /\ during'[c] = <<i, l>> => b = c
  <2>1. CASE l = k
    BY <1>1, <1>2, <2>1
  <2>2. CASE l # k
    <3>1. l \in pin[i].invoking
      BY <2>2
    <3>2. PICK b \in Actors : during[b] = <<i, l>>
      BY <3>1 DEF Marked
    <3>3. b # a
      BY <3>2 DEF None
    <3> QED
      BY <1>1, <2>2, <3>1, <3>2, <3>3 DEF Marked
  <2> QED
    BY <2>1, <2>2
<1>5. Marked(i)'
  BY <1>3, <1>4 DEF Marked
<1>6. DeadCloses(i)'
  BY DEF DeadCloses
<1> QED
  BY <1>5, <1>6 DEF PinInv

\* The pins a callback of another one leaves alone.
LEMMA OtherCallBack ==
  ASSUME ActorShape, NEW i \in Idents, NEW j \in Idents, j # i, pin'[j] = pin[j], Quiet(j),
         NEW a \in Actors, NEW k \in Kinds, during[a] = None,
         during' = [during EXCEPT ![a] = <<i, k>>],
         ClosingSoon(j) => ClosingSoon(j)'
  PROVE  Untouched(j)
<1>1. \A b \in Actors : during'[b] = IF b = a THEN <<i, k>> ELSE during[b]
  BY DEF ActorShape
<1> QED
  BY <1>1 DEF Untouched, None

LEMMA SendBulkStep ==
  ASSUME GateInv, IdentsAssumption, NEW a \in Actors, NEW i \in Idents, NEW bulk,
         SendBulk(a, i, bulk)
  PROVE  GateInv'
<1> DEFINE accepted == Accepted(pin[i].udp, bulk)
           stored == [Stored(pin[i], accepted) EXCEPT !.refused = accepted # bulk]
           start == accepted = bulk /\ "send" \notin pin[i].progress
           p == IF start THEN Sending(stored) ELSE stored
<1>1. /\ Mapped(i)
      /\ pin' = [pin EXCEPT ![i] = p]
      /\ IF start THEN Ask("send", i) ELSE UNCHANGED <<open, asked, calls>>
      /\ UNCHANGED <<listeners, pinList, closer, during, half, up>>
  BY DEF SendBulk
<1>2. /\ SamePlace(stored, pin[i]) /\ stored.refused = (accepted # bulk)
      /\ stored.progress = pin[i].progress /\ stored.invoking = pin[i].invoking
  <2>1. IsPin(pin[i]) /\ (accepted # bulk) \in BOOLEAN
    BY DEF GateInv, Shape, PinShape
  <2> QED
    BY <2>1, StoredIs, ZenonT(40)
<1>3. /\ SamePlace(p, pin[i]) /\ p.invoking = pin[i].invoking
      /\ p.progress = IF start THEN pin[i].progress \cup {"send"} ELSE pin[i].progress
      /\ ~p.refused => "send" \in p.progress
  <2>1. CASE start
    <3>1. /\ SamePlace(Sending(stored), stored)
          /\ Sending(stored).progress = stored.progress \cup {"send"}
          /\ Sending(stored).invoking = stored.invoking
      BY <1>2, SendingIs DEF SamePlace
    <3> QED
      BY <1>2, <2>1, <3>1 DEF SamePlace
  <2>2. CASE ~start
    BY <1>2, <2>2
  <2> QED
    BY <2>1, <2>2
<1> HIDE DEF p
<1>4. PinShape' /\ pin'[i] = p /\ \A j \in Idents : j # i => pin'[j] = pin[j]
  BY <1>1, <1>3, EditIs DEF GateInv, Shape, SamePlace
<1>5. /\ PortShape' /\ AskedOpen' /\ open' = open /\ calls' = calls
      /\ IF start THEN AskedOnly(i, "send") ELSE asked' = asked
  <2>1. CASE start
    BY <1>1, <2>1, AskIs DEF GateInv, Shape, Kinds
  <2>2. CASE ~start
    BY <1>1, <2>2 DEF GateInv, Shape, PortShape, AskedOpen
  <2> QED
    BY <2>1, <2>2
<1>6. Shape'
  BY <1>1, <1>4, <1>5 DEF GateInv, Shape, ActorShape, GateShape
<1>7. Owned' /\ Listed' /\ Busy'
  BY <1>1, <1>3, <1>4, <1>5, PlacesKept DEF GateInv, SamePlace, Busy
<1>8. \A j \in Idents : j # i => PinInv(j)'
  <2> SUFFICES ASSUME NEW j \in Idents, j # i PROVE PinInv(j)'
    OBVIOUS
  <2>1. Untouched(j)
    BY <1>1, <1>4, <1>5 DEF Untouched, Quiet, AskedOnly, ClosingSoon
  <2> QED
    BY <1>6, <2>1, OthersKept DEF GateInv, Shape
<1>9. Masked(i)'
  <2>1. PinInv(i) /\ i # NoIdent
    BY DEF GateInv, IdentsAssumption
  <2>2. CASE start
    BY <1>1, <1>3, <1>4, <1>5, <2>1, <2>2 DEF PinInv, Masked, Mapped, SamePlace, AskedOnly
  <2>3. CASE ~start
    BY <1>1, <1>3, <1>4, <1>5, <2>1, <2>3 DEF PinInv, Masked, Mapped, SamePlace
  <2> QED
    BY <2>2, <2>3
<1>10. PinInv(i)'
  <2>1. StoredGoes(i)'
    BY <1>3, <1>4 DEF StoredGoes
  <2>2. ClosingSoon(i) => ClosingSoon(i)'
    BY <1>1 DEF ClosingSoon
  <2> QED
    BY <1>1, <1>3, <1>4, <1>6, <1>9, <2>1, <2>2, EditKept DEF GateInv, Shape
<1>11. \A x \in Workers : Reaches(x)'
  BY <1>1, <1>3, <1>4, <1>5, ReachesKept DEF GateInv, Shape, SamePlace
<1> QED
  BY <1>5, <1>6, <1>7, <1>8, <1>10, <1>11 DEF GateInv

\* The receive of a pin, from a call and from v_on_receive.
Received(i) ==
  /\ PortShape' /\ PinShape' /\ AskedOpen' /\ open' = open /\ calls' = calls
  /\ \A j \in Idents : j # i => pin'[j] = pin[j] /\ Quiet(j)
  /\ SamePlace(pin'[i], pin[i]) /\ pin'[i].invoking = pin[i].invoking
  /\ Masked(i)' /\ (StoredGoes(i) /\ (ClosingSoon(i) => ClosingSoon(i)') => StoredGoes(i)')

LEMMA RecvNowIs ==
  ASSUME GateInv, IdentsAssumption, NEW i \in Idents, NEW big, RecvNow(i, big)
  PROVE  Received(i)
<1> DEFINE p == Receiving(pin[i], big)
<1>1. /\ SamePlace(p, pin[i]) /\ p.queue = pin[i].queue /\ p.refused = pin[i].refused
      /\ p.progress = pin[i].progress \cup {"recv"} /\ p.invoking = pin[i].invoking
  BY ReceivingIs DEF GateInv, Shape, PinShape
<1> HIDE DEF p
<1>2. PinInv(i) /\ i # NoIdent /\ IsPin(pin[i])
  BY DEF GateInv, IdentsAssumption, Shape, PinShape
<1>3. CASE Mapped(i) /\ "recv" \notin pin[i].progress
  <2>1. pin' = [pin EXCEPT ![i] = p] /\ Ask("recv", i)
    BY <1>3 DEF RecvNow, p
  <2>2. PinShape' /\ pin'[i] = p /\ \A j \in Idents : j # i => pin'[j] = pin[j]
    BY <1>1, <2>1, EditIs DEF GateInv, Shape, SamePlace
  <2>3. /\ PortShape' /\ AskedOpen' /\ open' = open /\ calls' = calls
        /\ AskedOnly(i, "recv")
    BY <2>1, AskIs DEF GateInv, Shape, Kinds
  <2>4. Masked(i)'
    BY <1>1, <1>2, <1>3, <2>2, <2>3 DEF PinInv, Masked, Mapped, SamePlace, AskedOnly
  <2>5. StoredGoes(i) /\ (ClosingSoon(i) => ClosingSoon(i)') => StoredGoes(i)'
    BY <1>1, <2>2 DEF StoredGoes, Alive, Mapped, SamePlace
  <2>6. \A j \in Idents : j # i => pin'[j] = pin[j] /\ Quiet(j)
    BY <2>2, <2>3 DEF AskedOnly, Quiet
  <2> QED
    BY <1>1, <2>2, <2>3, <2>4, <2>5, <2>6 DEF Received
<1>4. CASE ~(Mapped(i) /\ "recv" \notin pin[i].progress)
  <2>1. UNCHANGED <<open, asked, calls, pin>>
    BY <1>4 DEF RecvNow
  <2>2. PortShape' /\ PinShape' /\ AskedOpen'
    BY <2>1 DEF GateInv, Shape, PortShape, PinShape, AskedOpen
  <2>3. Masked(i)' /\ (StoredGoes(i) /\ (ClosingSoon(i) => ClosingSoon(i)') => StoredGoes(i)')
    BY <1>2, <2>1 DEF PinInv, Masked, StoredGoes, Alive, Mapped
  <2> QED
    BY <1>2, <2>1, <2>2, <2>3 DEF Received, Quiet, SamePlace
<1> QED
  BY <1>3, <1>4

LEMMA RecvStep ==
  ASSUME GateInv, IdentsAssumption, NEW a \in Actors, NEW i \in Idents, NEW big,
         Recv(a, i, big)
  PROVE  GateInv'
<1>1. RecvNow(i, big) /\ UNCHANGED <<listeners, pinList, closer, during, half, up>>
  BY DEF Recv
<1>2. Received(i)
  BY <1>1, RecvNowIs
<1>3. Shape' /\ AskedOpen'
  BY <1>1, <1>2 DEF GateInv, Shape, ActorShape, GateShape, Received
<1>4. \A j \in Idents : pin'[j].place = pin[j].place
  BY <1>2 DEF Received, SamePlace
<1>5. Owned' /\ Listed' /\ Busy'
  BY <1>1, <1>2, <1>4, PlacesKept DEF GateInv, Received, Busy
<1>6. \A j \in Idents : ClosingSoon(j) => ClosingSoon(j)'
  BY <1>1 DEF ClosingSoon
<1>7. \A j \in Idents : j # i => PinInv(j)'
  <2> SUFFICES ASSUME NEW j \in Idents, j # i PROVE PinInv(j)'
    OBVIOUS
  <2>1. Untouched(j)
    BY <1>1, <1>2, <1>6 DEF Untouched, Received
  <2> QED
    BY <1>3, <2>1, OthersKept DEF GateInv, Shape
<1>8. PinInv(i)'
  BY <1>1, <1>2, <1>3, <1>6, EditKept DEF GateInv, PinInv, Shape, Received
<1>9. \A x \in Workers : Reaches(x)'
  BY <1>1, <1>2, <1>4, ReachesKept DEF GateInv, Shape, Received
<1> QED
  BY <1>3, <1>5, <1>7, <1>8, <1>9 DEF GateInv

LEMMA RecvAgainStep ==
  ASSUME GateInv, IdentsAssumption, NEW w \in Workers, NEW big, RecvAgain(w, big)
  PROVE  GateInv'
<1>1. half[w] # None /\ half[w][1].ident \in Idents
  BY DEF RecvAgain, GateInv, Shape, ActorShape, Calls, Actors, None
<1>2. PICK i \in Idents : i = half[w][1].ident
  BY <1>1
<1>3. /\ half[w][1].name = "recv" /\ RecvNow(i, big)
      /\ half' = [half EXCEPT ![w] = None]
      /\ UNCHANGED <<listeners, pinList, closer, during, up>>
  BY <1>2 DEF RecvAgain
<1>4. Received(i)
  BY <1>3, <1>2, RecvNowIs
<1>5. \A b \in Actors : half'[b] = IF b = w THEN None ELSE half[b]
  BY <1>3 DEF GateInv, Shape, ActorShape
<1>6. Shape' /\ AskedOpen'
  BY <1>3, <1>4 DEF GateInv, Shape, ActorShape, GateShape, Received
<1>7. \A j \in Idents : ClosingSoon(j) => ClosingSoon(j)'
  BY <1>3, <1>5 DEF ClosingSoon
<1>8. \A j \in Idents : pin'[j].place = pin[j].place
  BY <1>4 DEF Received, SamePlace
<1>9. Owned' /\ Listed'
  BY <1>3, <1>4, <1>8, PlacesKept DEF GateInv, Received
<1>10. Busy'
  BY <1>3, <1>4, <1>5 DEF GateInv, Received, Busy, Actors
<1>11. \A j \in Idents : j # i => PinInv(j)'
  <2> SUFFICES ASSUME NEW j \in Idents, j # i PROVE PinInv(j)'
    OBVIOUS
  <2>1. Untouched(j)
    BY <1>3, <1>4, <1>7 DEF Untouched, Received
  <2> QED
    BY <1>6, <2>1, OthersKept DEF GateInv, Shape
<1>12. PinInv(i)'
  BY <1>3, <1>2, <1>4, <1>6, <1>7, EditKept DEF GateInv, PinInv, Shape, Received
<1>13. \A x \in Workers : Reaches(x)'
  <2> SUFFICES ASSUME NEW x \in Workers PROVE Reaches(x)'
    OBVIOUS
  <2>1. CASE x = w
    BY <1>5, <2>1 DEF Reaches, Actors
  <2>2. CASE x # w
    BY <1>4, <1>5, <1>8, <2>2, ReachesKept DEF GateInv, Shape, Received, Actors
  <2> QED
    BY <2>1, <2>2
<1> QED
  BY <1>6, <1>9, <1>10, <1>11, <1>12, <1>13 DEF GateInv

LEMMA InitiateCloseStep ==
  ASSUME GateInv, IdentsAssumption, NEW a \in Actors, InitiateClose(a)
  PROVE  GateInv'
<1>1. /\ half[a] # None /\ half[a][1].name = "close"
      /\ half' = [half EXCEPT ![a] = None]
      /\ UNCHANGED <<open, asked, calls, listeners, closer, during, up>>
  BY DEF InitiateClose
<1>2. half[a][1].ident \in Idents
  BY <1>1 DEF GateInv, Shape, ActorShape, Calls, None
<1>3. PICK i \in Idents : i = half[a][1].ident
  BY <1>2
<1>4. \/ ~Mapped(i) /\ UNCHANGED <<pin, pinList>>
      \/ /\ Mapped(i) /\ pin[i].invoking # {} /\ UNCHANGED pinList
         /\ pin' = [pin EXCEPT ![i] = [pin[i] EXCEPT !.alive = FALSE]]
      \/ /\ Mapped(i) /\ pin[i].invoking = {} /\ pinList' = Append(pinList, i)
         /\ pin' = [pin EXCEPT ![i] = [pin[i] EXCEPT !.place = "list"]]
  BY <1>3 DEF InitiateClose
<1>5. \A b \in Actors : half'[b] = IF b = a THEN None ELSE half[b]
  BY <1>1 DEF GateInv, Shape, ActorShape
<1>6. \A j \in Idents : j # i /\ ClosingSoon(j) => ClosingSoon(j)'
  BY <1>1, <1>3, <1>5 DEF ClosingSoon
<1> DEFINE killed == [pin[i] EXCEPT !.alive = FALSE]
           listed == [pin[i] EXCEPT !.place = "list"]
<1>7. /\ IsPin(pin[i]) /\ PinShape
      /\ IsPin(killed) /\ killed.place = pin[i].place /\ killed.alive = FALSE
      /\ killed.progress = pin[i].progress /\ killed.invoking = pin[i].invoking
      /\ IsPin(listed) /\ listed.place = "list"
      /\ listed.progress = pin[i].progress /\ listed.invoking = pin[i].invoking
  <2>1. IsPin(pin[i]) /\ PinShape
    BY DEF GateInv, Shape, PinShape
  <2> QED
    BY <2>1 DEF IsPin, Fields
<1>8. \/ ~Mapped(i) /\ UNCHANGED <<pin, pinList>>
      \/ /\ Mapped(i) /\ pin[i].invoking # {} /\ UNCHANGED pinList
         /\ pin' = [pin EXCEPT ![i] = killed]
      \/ /\ Mapped(i) /\ pin[i].invoking = {} /\ pinList' = Append(pinList, i)
         /\ pin' = [pin EXCEPT ![i] = listed]
  BY <1>4
<1> HIDE DEF killed, listed
<1>9. /\ PinShape' /\ \A j \in Idents : j # i => pin'[j] = pin[j]
      /\ pin'[i].invoking = pin[i].invoking /\ pin'[i].progress = pin[i].progress
      /\ \/ ~Mapped(i) /\ UNCHANGED <<pin, pinList>>
         \/ /\ pin[i].invoking # {} /\ UNCHANGED pinList
            /\ pin'[i].place = pin[i].place /\ pin'[i].alive = FALSE
         \/ /\ Mapped(i) /\ pin[i].invoking = {} /\ pinList' = Append(pinList, i)
            /\ pin'[i].place = "list"
  <2>1. CASE ~Mapped(i) /\ UNCHANGED <<pin, pinList>>
    BY <1>7, <2>1 DEF PinShape
  <2>2. CASE /\ Mapped(i) /\ pin[i].invoking # {} /\ UNCHANGED pinList
             /\ pin' = [pin EXCEPT ![i] = killed]
    <3>1. PinShape' /\ pin'[i] = killed /\ \A j \in Idents : j # i => pin'[j] = pin[j]
      BY <1>7, <2>2, EditIs
    <3> QED
      BY <1>7, <2>2, <3>1
  <2>3. CASE /\ Mapped(i) /\ pin[i].invoking = {} /\ pinList' = Append(pinList, i)
             /\ pin' = [pin EXCEPT ![i] = listed]
    <3>1. PinShape' /\ pin'[i] = listed /\ \A j \in Idents : j # i => pin'[j] = pin[j]
      BY <1>7, <2>3, EditIs
    <3> QED
      BY <1>7, <2>3, <3>1
  <2> QED
    BY <1>8, <2>1, <2>2, <2>3
<1>10. pinList \in Seq(Idents) /\ pinList' \in Seq(Idents)
  BY <1>3, <1>9 DEF GateInv, Shape, GateShape
<1>11. Shape' /\ AskedOpen'
  BY <1>1, <1>9, <1>10 DEF GateInv, Shape, PortShape, ActorShape, GateShape, AskedOpen
<1>12. Owned'
  BY <1>1, <1>3, <1>9 DEF GateInv, Owned, SocketsOwned, Mapped, IdentsAssumption
<1>13. Listed'
  <2>1. closer.step = "on_close" =>
          closer.ident \in Idents /\ pin'[closer.ident].place = "final"
    BY <1>9 DEF GateInv, Listed, Mapped
  <2>2. CASE UNCHANGED pinList
    <3>1. \A n \in DOMAIN pinList : pinList[n] \in Idents
      BY <1>10
    <3> QED
      BY <1>1, <1>9, <2>1, <2>2, <3>1 DEF GateInv, Listed
  <2>3. CASE Mapped(i) /\ pinList' = Append(pinList, i) /\ pin'[i].place = "list"
    <3>1. \A n \in DOMAIN pinList : pinList[n] \in Idents /\ pinList[n] # i
      BY <1>10, <2>3 DEF GateInv, Listed, Mapped
    <3>2. /\ Len(pinList') = Len(pinList) + 1 /\ pinList'[Len(pinList) + 1] = i
          /\ \A n \in 1 .. Len(pinList) : pinList'[n] = pinList[n]
          /\ DOMAIN pinList = 1 .. Len(pinList) /\ DOMAIN pinList' = 1 .. Len(pinList) + 1
          /\ Len(pinList) \in Nat
      BY <1>3, <1>10, <2>3
    <3>3. OnceEach(pinList')
      BY <3>1, <3>2 DEF GateInv, Listed, OnceEach
    <3>4. \A n \in DOMAIN pinList' : pin'[pinList'[n]].place = "list"
      <4> SUFFICES ASSUME NEW n \in 1 .. Len(pinList) + 1
                   PROVE  pin'[pinList'[n]].place = "list"
        BY <3>2
      <4>1. CASE n = Len(pinList) + 1
        BY <2>3, <3>2, <4>1
      <4>2. CASE n \in 1 .. Len(pinList)
        BY <1>9, <3>1, <3>2, <4>2 DEF GateInv, Listed
      <4> QED
        BY <3>2, <4>1, <4>2
    <3> QED
      BY <1>1, <2>1, <3>3, <3>4 DEF GateInv, Listed
  <2> QED
    BY <1>9, <2>2, <2>3
<1>14. Busy'
  BY <1>1, <1>5 DEF GateInv, Busy, Actors
<1>15. \A j \in Idents : j # i => PinInv(j)'
  <2> SUFFICES ASSUME NEW j \in Idents, j # i PROVE PinInv(j)'
    OBVIOUS
  <2>1. Untouched(j)
    BY <1>1, <1>6, <1>9 DEF Untouched, Quiet
  <2> QED
    BY <1>11, <2>1, OthersKept DEF GateInv, Shape
<1>16. PinInv(i)'
  <2>1. PinInv(i)
    BY <1>3 DEF GateInv
  <2>2. Marked(i)'
    BY <1>1, <1>9, <2>1 DEF PinInv, Marked, Mapped
  <2>3. Masked(i)'
    BY <1>1, <1>9, <2>1 DEF PinInv, Masked, Mapped
  <2>4. DeadCloses(i)'
    BY <1>9 DEF DeadCloses, Mapped
  <2>5. StoredGoes(i)'
    BY <1>9 DEF StoredGoes, Alive, Mapped
  <2> QED
    BY <2>2, <2>3, <2>4, <2>5 DEF PinInv
<1>17. \A x \in Workers : Reaches(x)'
  <2> SUFFICES ASSUME NEW x \in Workers PROVE Reaches(x)'
    OBVIOUS
  <2>1. CASE x = a
    BY <1>5, <2>1 DEF Reaches
  <2>2. CASE x # a
    BY <1>1, <1>5, <1>9, <2>2, ReachesKept DEF GateInv, Shape, Actors
  <2> QED
    BY <2>1, <2>2
<1> QED
  BY <1>11, <1>12, <1>13, <1>14, <1>15, <1>16, <1>17, <1>3 DEF GateInv

-----------------------------------------------------------------------------
(* Steps that make a pin.                                                  *)

LEMMA CanCallIsUp ==
  ASSUME GateInv, NEW a \in Actors, CanCall(a)
  PROVE  up \in {"on", "stopping", "port"}
BY DEF GateInv, Busy, CanCall, Actors, Shape, GateShape

LEMMA ConnectStep ==
  ASSUME GateInv, IdentsAssumption, NEW a \in Actors, NEW i \in Idents, Connect(a, i)
  PROVE  GateInv'
<1> DEFINE p == [NewPin(FALSE) EXCEPT !.progress = {"connect"}]
<1>1. /\ CanCall(a) /\ i \notin open /\ i \notin Ears /\ open' = open \cup {i}
      /\ \A w \in Workers : calls[w] # i
      /\ \/ asked' = asked
         \/ asked' = [asked EXCEPT ![<<i, "connect">>] = i]
      /\ pin' = [pin EXCEPT ![i] = p]
      /\ UNCHANGED <<calls, listeners, pinList, closer, during, half, up>>
  BY DEF Connect, Port!Unused
<1>2. /\ IsPin(p) /\ p.place = "map" /\ p.alive = TRUE /\ p.queue = <<>>
      /\ p.progress = {"connect"} /\ p.invoking = {}
  BY NewPinIs DEF IsPin, Fields
<1> HIDE DEF p
<1>3. PinShape' /\ pin'[i] = p /\ \A j \in Idents : j # i => pin'[j] = pin[j]
  BY <1>1, <1>2, EditIs DEF GateInv, Shape
<1>4. up \in {"on", "stopping", "port"}
  BY <1>1, CanCallIsUp
<1>5. /\ pin[i].place = "none"
      /\ \A k \in Kinds : asked[<<i, k>>] = NoIdent
      /\ \A b \in Actors : \A k : during[b] # <<i, k>>
  BY <1>1, <1>4, UnknownIs DEF GateInv
<1>6. \A j \in Idents : \A k \in Kinds :
        \/ asked'[<<j, k>>] = asked[<<j, k>>]
        \/ j = i /\ k = "connect" /\ asked'[<<j, k>>] = i
  <2>1. \A j \in Idents : \A k \in Kinds : <<j, k>> \in Operations
    BY DEF Operations
  <2> QED
    BY <1>1, <2>1 DEF GateInv, Shape, PortShape
<1>7. PortShape'
  BY <1>1 DEF GateInv, Shape, PortShape
<1>8. Shape' /\ AskedOpen'
  BY <1>1, <1>3, <1>6, <1>7 DEF GateInv, Shape, ActorShape, GateShape, AskedOpen
<1>9. Owned' /\ Listed'
  BY <1>1, <1>2, <1>3, <1>4, <1>5, NewOwned DEF GateInv
<1>10. Busy'
  BY <1>1 DEF GateInv, Busy
<1>11. \A j \in Idents : j # i => PinInv(j)'
  <2> SUFFICES ASSUME NEW j \in Idents, j # i PROVE PinInv(j)'
    OBVIOUS
  <2>1. Untouched(j)
    BY <1>1, <1>3, <1>6 DEF Untouched, Quiet, ClosingSoon, Masks, Kinds
  <2> QED
    BY <1>8, <2>1, OthersKept DEF GateInv, Shape
<1>12. PinInv(i)'
  <2>1. Marked(i)'
    BY <1>1, <1>2, <1>3, <1>5 DEF Marked
  <2>2. Masked(i)'
    BY <1>2, <1>3, <1>5, <1>6, SMTT(30) DEF IdentsAssumption, Masked, Masks, Kinds
  <2>3. DeadCloses(i)' /\ StoredGoes(i)'
    BY <1>2, <1>3 DEF DeadCloses, StoredGoes
  <2> QED
    BY <2>1, <2>2, <2>3 DEF PinInv
<1>13. \A x \in Workers : Reaches(x)'
  <2> SUFFICES ASSUME NEW x \in Workers PROVE Reaches(x)'
    OBVIOUS
  <2>1. \A j \in Idents : j = calls[x] => pin'[j] = pin[j]
    BY <1>1, <1>3
  <2> QED
    BY <1>1, <2>1, ReachesKept DEF GateInv, Shape
<1> QED
  BY <1>8, <1>9, <1>10, <1>11, <1>12, <1>13 DEF GateInv

\* A new pin with a callback, of bind and of v_on_accept.
LEMMA NewPinKept ==
  ASSUME GateInv, IdentsAssumption, NEW a \in Actors, NEW i \in Idents, NEW udp,
         NEW k \in {"bind", "accept"}, i \notin open, i \notin Ears,
         up \in {"on", "stopping", "port"}, open' = open \cup {i},
         \A j \in Idents : Quiet(j),
         pin' = [pin EXCEPT ![i] = Invoking(NewPin(udp), k)],
         during[a] = None, during' = [during EXCEPT ![a] = <<i, k>>],
         UNCHANGED <<listeners, pinList, closer, half, up>>
  PROVE  /\ PinShape' /\ ActorShape' /\ Owned' /\ Listed'
         /\ \A j \in Idents : j # i => pin'[j] = pin[j]
         /\ \A b \in Actors : b # a => during'[b] = during[b]
         /\ \A j \in Idents : PinInv(j)'
<1> DEFINE p == Invoking(NewPin(udp), k)
<1>1. /\ IsPin(p) /\ p.place = "map" /\ p.alive = TRUE /\ p.queue = <<>>
      /\ p.progress = {} /\ p.invoking = {k}
  BY NewPinIs DEF Invoking, IsPin, Fields
<1>2. pin' = [pin EXCEPT ![i] = p]
  OBVIOUS
<1> HIDE DEF p
<1>3. PinShape' /\ pin'[i] = p /\ \A j \in Idents : j # i => pin'[j] = pin[j]
  BY <1>1, <1>2, EditIs DEF GateInv, Shape
<1>4. /\ pin[i].place = "none"
      /\ \A l \in Kinds : asked[<<i, l>>] = NoIdent
      /\ \A b \in Actors : \A l : during[b] # <<i, l>>
  BY UnknownIs DEF GateInv
<1>5. ActorShape'
  BY DEF GateInv, Shape, ActorShape, Kinds
<1>6. Owned' /\ Listed'
  BY <1>1, <1>3, <1>4, NewOwned DEF GateInv
<1>7. k \in Kinds /\ k \notin Masks
  BY DEF Kinds, Masks
<1>8. \A j \in Idents : j # i => PinInv(j)'
  <2> SUFFICES ASSUME NEW j \in Idents, j # i PROVE PinInv(j)'
    OBVIOUS
  <2>1. ClosingSoon(j) => ClosingSoon(j)'
    BY DEF ClosingSoon
  <2>2. Untouched(j)
    BY <1>3, <1>7, <2>1, OtherCallBack DEF GateInv, Shape
  <2> QED
    BY <1>5, <2>2, OthersKept DEF GateInv, Shape
<1>9. PinInv(i)'
  <2>1. Masked(i)'
    BY <1>1, <1>3, <1>4, <1>7 DEF IdentsAssumption, Masked, Masks, Kinds, Quiet
  <2>2. StoredGoes(i)'
    BY <1>1, <1>3 DEF StoredGoes
  <2>3. Marked(i)'
    <3>1. \A b \in Actors : during'[b] = IF b = a THEN <<i, k>> ELSE during[b]
      BY DEF GateInv, Shape, ActorShape
    <3> QED
      BY <1>1, <1>3, <1>4, <3>1 DEF Marked, Mapped
  <2>4. DeadCloses(i)'
    BY <1>1, <1>3 DEF DeadCloses
  <2> QED
    BY <2>1, <2>2, <2>3, <2>4 DEF PinInv
<1>10. \A b \in Actors : b # a => during'[b] = during[b]
  BY DEF GateInv, Shape, ActorShape
<1> QED
  BY <1>3, <1>5, <1>6, <1>8, <1>9, <1>10

LEMMA BindStep ==
  ASSUME GateInv, IdentsAssumption, ActorsAssumption,
         NEW a \in Actors, NEW i \in Idents, Bind(a, i)
  PROVE  GateInv'
<1>1. /\ CanCall(a) /\ a \in Users /\ during[a] = None /\ i \notin Ears
      /\ i \notin open /\ open' = open \cup {i} /\ UNCHANGED <<asked, calls>>
      /\ \A w \in Workers : calls[w] # i
      /\ pin' = [pin EXCEPT ![i] = Invoking(NewPin(TRUE), "bind")]
      /\ during' = [during EXCEPT ![a] = <<i, "bind">>]
      /\ UNCHANGED <<listeners, pinList, closer, half, up>>
  BY DEF Bind, Port!Create, Port!Unused
<1>2. up \in {"on", "stopping", "port"}
  BY <1>1, CanCallIsUp
<1>3. \A j \in Idents : Quiet(j)
  BY <1>1 DEF Quiet
<1>4. /\ PinShape' /\ ActorShape' /\ Owned' /\ Listed'
      /\ \A j \in Idents : j # i => pin'[j] = pin[j]
      /\ \A b \in Actors : b # a => during'[b] = during[b]
      /\ \A j \in Idents : PinInv(j)'
  BY <1>1, <1>2, <1>3, NewPinKept
<1>5. Shape' /\ AskedOpen'
  BY <1>1, <1>4 DEF GateInv, Shape, PortShape, GateShape, AskedOpen
<1>6. Busy'
  BY <1>1, <1>4 DEF ActorsAssumption, GateInv, Busy, Actors, CanCall
<1>7. \A x \in Workers : Reaches(x)'
  <2> SUFFICES ASSUME NEW x \in Workers PROVE Reaches(x)'
    OBVIOUS
  <2>1. \A j \in Idents : j = calls[x] => pin'[j] = pin[j]
    BY <1>1, <1>4
  <2> QED
    BY <1>1, <2>1, ReachesKept DEF GateInv, Shape
<1> QED
  BY <1>4, <1>5, <1>6, <1>7 DEF GateInv

LEMMA OnAcceptStep ==
  ASSUME GateInv, IdentsAssumption, ActorsAssumption,
         NEW w \in Workers, NEW i \in Idents, NEW j \in Idents, OnAccept(w, i, j)
  PROVE  GateInv'
<1>1. CanAnswer(w) /\ UNCHANGED <<listeners, pinList, closer, half, up>>
  BY DEF OnAccept
<1>2. CASE Port!Answer(w, <<i, "accept">>) /\ UNCHANGED <<pin, during>>
  BY <1>1, <1>2, IgnoredStep DEF gateVars, Kinds
<1>3. CASE /\ Port!AnswerAccept(w, <<i, "accept">>, j) /\ j \notin Ears
           /\ CallBack(w, j, "accept", NewPin(FALSE))
  <2>1. /\ PortShape' /\ AskedOpen' /\ open' = open \cup {j} /\ i \in open
        /\ j \notin open /\ \A x \in Workers : calls[x] # j
        /\ calls' = [calls EXCEPT ![w] = i]
        /\ \A l \in Idents : Quiet(l)
    BY <1>3, AnswerAcceptIs DEF GateInv, Shape
  <2>2. /\ pin' = [pin EXCEPT ![j] = Invoking(NewPin(FALSE), "accept")]
        /\ during' = [during EXCEPT ![w] = <<j, "accept">>]
    BY <1>3 DEF CallBack
  <2>3. up \in {"on", "stopping", "port"} /\ during[w] = None /\ half[w] = None
    BY <1>1, <2>1 DEF GateInv, Owned, Shape, GateShape, CanAnswer
  <2>4. /\ PinShape' /\ ActorShape' /\ Owned' /\ Listed'
        /\ \A l \in Idents : l # j => pin'[l] = pin[l]
        /\ \A b \in Actors : b # w => during'[b] = during[b]
        /\ \A l \in Idents : PinInv(l)'
    BY <1>1, <1>3, <2>1, <2>2, <2>3, NewPinKept DEF Actors
  <2>5. Shape'
    BY <1>1, <2>1, <2>4 DEF GateInv, Shape, GateShape
  <2>6. Busy' /\ \A x \in Workers : Reaches(x)'
    BY <1>1, <2>1, <2>3, <2>4, AnsweredIs
  <2> QED
    BY <2>1, <2>4, <2>5, <2>6 DEF GateInv
<1> QED
  BY <1>2, <1>3 DEF OnAccept

-----------------------------------------------------------------------------
(* Answers of the port that reach a pin.                                   *)

\* A failed operation, and the end of a stream: the pin is to be closed.
LEMMA AnsweredCloses ==
  ASSUME GateInv, IdentsAssumption, ActorsAssumption,
         NEW w \in Workers, NEW i \in Idents, NEW k \in Kinds, NEW p,
         CanAnswer(w), Port!Answer(w, <<i, k>>), Mapped(i),
         p \in {pin[i], [pin[i] EXCEPT !.progress = @ \ {k}]},
         pin' = [pin EXCEPT ![i] = p],
         half' = [half EXCEPT ![w] = Later("close", i, k)],
         UNCHANGED <<listeners, pinList, closer, during, up>>
  PROVE  GateInv'
<1>1. IsPin(pin[i]) /\ PinInv(i) /\ i # NoIdent /\ half[w] = None /\ w \in Actors
  BY DEF GateInv, Shape, PinShape, IdentsAssumption, CanAnswer, Actors
<1>2. /\ SamePlace(p, pin[i]) /\ p.invoking = pin[i].invoking
      /\ p.progress \in {pin[i].progress, pin[i].progress \ {k}}
  <2>1. CASE p = pin[i]
    BY <1>1, <2>1 DEF SamePlace
  <2>2. CASE p = [pin[i] EXCEPT !.progress = @ \ {k}]
    BY <1>1, <2>2 DEF SamePlace, IsPin, Fields
  <2> QED
    BY <2>1, <2>2
<1>3. PinShape' /\ pin'[i] = p /\ \A j \in Idents : j # i => pin'[j] = pin[j]
  BY <1>2, EditIs DEF GateInv, Shape, SamePlace
<1>4. /\ PortShape' /\ AskedOpen' /\ open' = open /\ i \in open
      /\ calls' = [calls EXCEPT ![w] = i]
      /\ asked[<<i, k>>] = i /\ asked'[<<i, k>>] = NoIdent
      /\ \A j \in Idents : Quiet(j)
  BY AnswerIs DEF GateInv, Shape
<1>5. /\ half' \in [Actors -> {None} \cup {<<h>> : h \in Calls}]
      /\ half'[w][1].fresh
      /\ \A b \in Actors : b # w => half'[b] = half[b]
      /\ \A j \in Idents : ClosingSoon(j) => ClosingSoon(j)'
      /\ ClosingSoon(i)'
  BY <1>1, LaterIs DEF GateInv, Shape
<1>6. ActorShape' /\ Shape'
  BY <1>3, <1>4, <1>5 DEF GateInv, Shape, ActorShape, GateShape
<1>7. \A j \in Idents : pin'[j].place = pin[j].place
  BY <1>2, <1>3 DEF SamePlace
<1>8. Owned' /\ Listed'
  BY <1>4, <1>7, PlacesKept DEF GateInv
<1>9. Busy' /\ \A x \in Workers : Reaches(x)'
  BY <1>4, <1>5, <1>7, AnsweredIs
<1>10. \A j \in Idents : j # i => PinInv(j)'
  <2> SUFFICES ASSUME NEW j \in Idents, j # i PROVE PinInv(j)'
    OBVIOUS
  <2>1. Untouched(j)
    BY <1>3, <1>4, <1>5 DEF Untouched
  <2> QED
    BY <1>6, <2>1, OthersKept DEF GateInv, Shape
<1>11. Masked(i)'
  BY <1>1, <1>2, <1>3, <1>4 DEF PinInv, Masked, Mapped, SamePlace, Quiet
<1>12. PinInv(i)'
  <2>1. StoredGoes(i)'
    BY <1>5 DEF StoredGoes
  <2> QED
    BY <1>1, <1>2, <1>3, <1>5, <1>6, <1>11, <2>1, EditKept DEF GateInv, Shape
<1> QED
  BY <1>4, <1>6, <1>8, <1>9, <1>10, <1>12 DEF GateInv

\* An answer the client is told.
LEMMA AnsweredCalls ==
  ASSUME GateInv, IdentsAssumption, ActorsAssumption,
         NEW w \in Workers, NEW i \in Idents, NEW k \in Masks, NEW p,
         CanAnswer(w), Port!Answer(w, <<i, k>>), Mapped(i),
         SamePlace(p, pin[i]), p.invoking = pin[i].invoking,
         p.progress = pin[i].progress,
         p.alive /\ p.queue # <<>> /\ ~p.refused => "send" \in p.progress \/ ClosingSoon(i),
         CallBack(w, i, k, p), UNCHANGED <<listeners, pinList, closer, half, up>>
  PROVE  GateInv'
<1> DEFINE q == Invoking(p, k)
<1>1. /\ PinInv(i) /\ i # NoIdent /\ during[w] = None /\ half[w] = None
      /\ w \in Actors /\ k \in Kinds
  BY DEF GateInv, IdentsAssumption, CanAnswer, Actors, Masks, Kinds
<1>2. /\ IsPin(q) /\ q.place = pin[i].place /\ q.alive = p.alive
      /\ q.queue = p.queue /\ q.refused = p.refused
      /\ q.progress = pin[i].progress /\ q.invoking = pin[i].invoking \cup {k}
  <2>1. IsPin(p)
    BY DEF SamePlace
  <2>2. /\ SamePlace(q, p) /\ q.queue = p.queue /\ q.refused = p.refused
        /\ q.progress = p.progress /\ q.invoking = p.invoking \cup {k}
    BY <2>1, InvokingIs
  <2> QED
    BY <2>2 DEF SamePlace
<1>3. pin' = [pin EXCEPT ![i] = q] /\ during' = [during EXCEPT ![w] = <<i, k>>]
  BY DEF CallBack
<1> HIDE DEF q
<1>4. PinShape' /\ pin'[i] = q /\ \A j \in Idents : j # i => pin'[j] = pin[j]
  BY <1>2, <1>3, EditIs DEF GateInv, Shape
<1>5. /\ PortShape' /\ AskedOpen' /\ open' = open /\ i \in open
      /\ calls' = [calls EXCEPT ![w] = i]
      /\ asked[<<i, k>>] = i /\ asked'[<<i, k>>] = NoIdent
      /\ \A j \in Idents : Quiet(j)
  BY <1>1, AnswerIs DEF GateInv, Shape
<1>6. Shape'
  BY <1>1, <1>3, <1>4, <1>5 DEF GateInv, Shape, ActorShape, GateShape
<1>7. \A j \in Idents : pin'[j].place = pin[j].place
  BY <1>2, <1>4
<1>8. Owned' /\ Listed'
  BY <1>5, <1>7, PlacesKept DEF GateInv
<1>9. \A b \in Actors : b # w => during'[b] = during[b]
  BY <1>3 DEF GateInv, Shape, ActorShape
<1>10. Busy' /\ \A x \in Workers : Reaches(x)'
  BY <1>1, <1>5, <1>7, <1>9, AnsweredIs
<1>11. \A j \in Idents : ClosingSoon(j) => ClosingSoon(j)'
  BY DEF ClosingSoon
<1>12. \A j \in Idents : j # i => PinInv(j)'
  <2> SUFFICES ASSUME NEW j \in Idents, j # i PROVE PinInv(j)'
    OBVIOUS
  <2>1. Untouched(j)
    BY <1>1, <1>3, <1>4, <1>5, <1>11, OtherCallBack DEF GateInv, Shape
  <2> QED
    BY <1>6, <2>1, OthersKept DEF GateInv, Shape
<1>13. k \notin pin[i].invoking /\ k \in pin[i].progress
  BY <1>1, <1>5 DEF PinInv, Masked
<1>14. Masked(i)'
  BY <1>1, <1>2, <1>4, <1>5, <1>13 DEF PinInv, Masked, Mapped, Quiet
<1>15. PinInv(i)'
  <2>1. StoredGoes(i)'
    BY <1>2, <1>4, <1>11 DEF StoredGoes, Alive
  <2>2. pin'[i].place = "map"
    BY <1>2, <1>4 DEF Mapped
  <2>3. Marked(i) /\ pin'[i].invoking = pin[i].invoking \cup {k}
    BY <1>1, <1>2, <1>4 DEF PinInv
  <2> QED
    BY <1>1, <1>3, <1>6, <1>13, <1>14, <2>1, <2>2, <2>3, CallBackKept DEF GateInv, Shape
<1> QED
  BY <1>5, <1>6, <1>8, <1>10, <1>12, <1>15 DEF GateInv

LEMMA OnErrorStep ==
  ASSUME GateInv, IdentsAssumption, ActorsAssumption,
         NEW w \in Workers, NEW i \in Idents, NEW k \in Kinds, OnError(w, i, k)
  PROVE  GateInv'
<1>1. /\ CanAnswer(w) /\ Port!Answer(w, <<i, k>>)
      /\ UNCHANGED <<listeners, pinList, closer, during, up>>
  BY DEF OnError
<1>2. CASE k # "accept" /\ Alive(i)
  <2>1. /\ pin' = [pin EXCEPT ![i] = [pin[i] EXCEPT !.progress = @ \ {k}]]
        /\ half' = [half EXCEPT ![w] = Later("close", i, k)]
    BY <1>2 DEF OnError
  <2> QED
    BY <1>1, <1>2, <2>1, AnsweredCloses DEF Alive
<1>3. CASE ~(k # "accept" /\ Alive(i))
  <2>1. UNCHANGED <<pin, half>>
    BY <1>3 DEF OnError
  <2> QED
    BY <1>1, <2>1, IgnoredStep DEF gateVars
<1> QED
  BY <1>2, <1>3

LEMMA PinIsItself ==
  ASSUME GateInv, NEW i \in Idents
  PROVE  SamePlace(pin[i], pin[i]) /\ pin = [pin EXCEPT ![i] = pin[i]]
BY DEF GateInv, Shape, PinShape, SamePlace

LEMMA OnConnectStep ==
  ASSUME GateInv, IdentsAssumption, ActorsAssumption,
         NEW w \in Workers, NEW i \in Idents, OnConnect(w, i)
  PROVE  GateInv'
<1>1. /\ CanAnswer(w) /\ Mapped(i) /\ Port!Answer(w, <<i, "connect">>)
      /\ UNCHANGED <<listeners, pinList, closer, up>>
      /\ "connect" \in Masks /\ "connect" \in Kinds
      /\ SamePlace(pin[i], pin[i]) /\ PinInv(i)
  BY PinIsItself DEF GateInv, OnConnect, Alive, Masks, Kinds
<1>2. CASE CallBack(w, i, "connect", pin[i]) /\ UNCHANGED half
  <2>1. pin[i].alive /\ pin[i].queue # <<>> /\ ~pin[i].refused =>
          "send" \in pin[i].progress \/ ClosingSoon(i)
    BY <1>1 DEF PinInv, StoredGoes, Alive
  <2> QED
    BY <1>1, <1>2, <2>1, AnsweredCalls
<1>3. CASE /\ pin' = [pin EXCEPT ![i] = [pin[i] EXCEPT !.progress = @ \ {"connect"}]]
           /\ half' = [half EXCEPT ![w] = Later("close", i, "connect")]
           /\ UNCHANGED during
  BY <1>1, <1>3, AnsweredCloses
<1> QED
  BY <1>2, <1>3 DEF OnConnect

LEMMA OnRecvStep ==
  ASSUME GateInv, IdentsAssumption, ActorsAssumption,
         NEW w \in Workers, NEW i \in Idents, OnRecv(w, i)
  PROVE  GateInv'
<1>1. /\ CanAnswer(w) /\ Mapped(i) /\ Port!Answer(w, <<i, "recv">>)
      /\ UNCHANGED <<listeners, pinList, closer, up>>
      /\ "recv" \in Masks /\ "recv" \in Kinds
      /\ SamePlace(pin[i], pin[i]) /\ PinInv(i) /\ pin = [pin EXCEPT ![i] = pin[i]]
  BY PinIsItself DEF GateInv, OnRecv, Alive, Masks, Kinds
<1>2. CASE CallBack(w, i, "recv", pin[i]) /\ UNCHANGED half
  <2>1. pin[i].alive /\ pin[i].queue # <<>> /\ ~pin[i].refused =>
          "send" \in pin[i].progress \/ ClosingSoon(i)
    BY <1>1 DEF PinInv, StoredGoes, Alive
  <2> QED
    BY <1>1, <1>2, <2>1, AnsweredCalls
<1>3. CASE half' = [half EXCEPT ![w] = Later("close", i, "recv")] /\ UNCHANGED <<pin, during>>
  <2>1. pin' = [pin EXCEPT ![i] = pin[i]]
    BY <1>1, <1>3
  <2> QED
    BY <1>1, <1>3, <2>1, AnsweredCloses
<1> QED
  BY <1>2, <1>3 DEF OnRecv

LEMMA OnSendStep ==
  ASSUME GateInv, IdentsAssumption, ActorsAssumption,
         NEW w \in Workers, NEW i \in Idents, NEW n, OnSend(w, i, n)
  PROVE  GateInv'
<1> DEFINE p == Sent(pin[i], n)
<1>1. /\ CanAnswer(w) /\ Mapped(i) /\ asked[<<i, "send">>] = i
      /\ UNCHANGED <<listeners, pinList, closer, half, up>>
      /\ \/ /\ p.queue # <<>> /\ pin' = [pin EXCEPT ![i] = Sending(p)]
            /\ calls[w] = NoIdent /\ calls' = [calls EXCEPT ![w] = i]
            /\ \/ asked' = [asked EXCEPT ![<<i, "send">>] = NoIdent]
               \/ asked' = [asked EXCEPT ![<<i, "send">>] = i]
            /\ UNCHANGED <<open, during>>
         \/ p.queue = <<>> /\ Port!Answer(w, <<i, "send">>) /\ CallBack(w, i, "send", p)
  BY DEF OnSend, Alive
<1>2. /\ PinInv(i) /\ i # NoIdent /\ half[w] = None /\ w \in Actors
      /\ "send" \in Masks /\ "send" \in Kinds
  BY <1>1 DEF GateInv, IdentsAssumption, CanAnswer, Actors, Masks, Kinds
<1>3. SamePlace(p, pin[i]) /\ p.progress = pin[i].progress /\ p.invoking = pin[i].invoking
  BY SentIs DEF GateInv, Shape, PinShape
<1> HIDE DEF p
<1>4. CASE p.queue = <<>> /\ Port!Answer(w, <<i, "send">>) /\ CallBack(w, i, "send", p)
  BY <1>1, <1>2, <1>3, <1>4, AnsweredCalls
<1>5. CASE /\ p.queue # <<>> /\ pin' = [pin EXCEPT ![i] = Sending(p)]
           /\ calls[w] = NoIdent /\ calls' = [calls EXCEPT ![w] = i]
           /\ \/ asked' = [asked EXCEPT ![<<i, "send">>] = NoIdent]
              \/ asked' = [asked EXCEPT ![<<i, "send">>] = i]
           /\ UNCHANGED <<open, during>>
  <2> DEFINE q == Sending(p)
  <2>1. /\ SamePlace(q, pin[i]) /\ q.invoking = pin[i].invoking
        /\ q.progress = pin[i].progress \cup {"send"}
    BY <1>3, SendingIs DEF SamePlace
  <2>2. pin' = [pin EXCEPT ![i] = q]
    BY <1>5
  <2> HIDE DEF q
  <2>3. PinShape' /\ pin'[i] = q /\ \A j \in Idents : j # i => pin'[j] = pin[j]
    BY <2>1, <2>2, EditIs DEF GateInv, Shape, SamePlace
  <2>4. \A j \in Idents : \A k \in Kinds : asked'[<<j, k>>] \in {asked[<<j, k>>], NoIdent}
    <3>1. \A j \in Idents : \A k \in Kinds : <<j, k>> \in Operations
      BY DEF Operations
    <3> QED
      BY <1>1, <1>5, <3>1 DEF GateInv, Shape, PortShape
  <2>5. PortShape' /\ AskedOpen' /\ i \in open
    BY <1>1, <1>2, <1>5, <2>4 DEF GateInv, Shape, PortShape, AskedOpen
  <2>6. \A j \in Idents : Quiet(j)
    BY <2>4 DEF Quiet, Masks, Kinds
  <2>7. Shape'
    BY <1>1, <1>5, <2>3, <2>5 DEF GateInv, Shape, ActorShape, GateShape
  <2>8. \A j \in Idents : pin'[j].place = pin[j].place
    BY <2>1, <2>3 DEF SamePlace
  <2>9. Owned' /\ Listed'
    BY <1>1, <1>5, <2>8, PlacesKept DEF GateInv
  <2>10. Busy' /\ \A x \in Workers : Reaches(x)'
    BY <1>1, <1>2, <1>5, <2>5, <2>8, AnsweredIs
  <2>11. \A j \in Idents : ClosingSoon(j) => ClosingSoon(j)'
    BY <1>1 DEF ClosingSoon
  <2>12. \A j \in Idents : j # i => PinInv(j)'
    <3> SUFFICES ASSUME NEW j \in Idents, j # i PROVE PinInv(j)'
      OBVIOUS
    <3>1. Untouched(j)
      BY <1>5, <2>3, <2>6, <2>11 DEF Untouched
    <3> QED
      BY <2>7, <3>1, OthersKept DEF GateInv, Shape
  <2>13. Masked(i)'
    BY <1>1, <1>2, <2>1, <2>3, <2>6 DEF PinInv, Masked, Mapped, SamePlace, Quiet
  <2>14. StoredGoes(i)'
    BY <2>1, <2>3 DEF StoredGoes
  <2>15. PinInv(i)'
    BY <1>2, <1>5, <2>1, <2>3, <2>7, <2>11, <2>13, <2>14, EditKept DEF GateInv, Shape
  <2> QED
    BY <2>5, <2>7, <2>9, <2>10, <2>12, <2>15 DEF GateInv
<1> QED
  BY <1>1, <1>4, <1>5

LEMMA EndCallbackStep ==
  ASSUME GateInv, IdentsAssumption, ActorsAssumption, NEW a \in Actors, EndCallback(a)
  PROVE  GateInv'
<1>1. /\ during[a] # None /\ half[a] = None
      /\ during' = [during EXCEPT ![a] = None]
      /\ UNCHANGED <<listeners, pinList, closer, up>>
  BY DEF EndCallback
<1>2. PICK i \in Idents, k \in Kinds : during[a] = <<i, k>>
  BY <1>1 DEF GateInv, Shape, ActorShape
<1>3. /\ PinInv(i) /\ i # NoIdent /\ Mapped(i) /\ k \in pin[i].invoking /\ IsPin(pin[i])
  BY <1>2 DEF GateInv, IdentsAssumption, PinInv, Marked, Shape, PinShape
<1> DEFINE p == Released(pin[i], k)
           q == IF MoreToSend(p, k) THEN Sending(p) ELSE p
<1>4. /\ pin' = [pin EXCEPT ![i] = q]
      /\ IF MoreToSend(p, k) THEN Ask("send", i) ELSE UNCHANGED <<open, asked, calls>>
      /\ \/ LastOfDead(p) /\ half' = [half EXCEPT ![a] = Later("close", i, k)]
         \/ ~LastOfDead(p) /\ UNCHANGED half
         \/ ~LastOfDead(p) /\ half' = [half EXCEPT ![a] = Later("recv", i, k)]
  BY <1>2, <1>3 DEF EndCallback
<1>5. /\ SamePlace(p, pin[i]) /\ p.queue = pin[i].queue /\ p.refused = pin[i].refused
      /\ p.progress = IF k = "accept" THEN pin[i].progress ELSE pin[i].progress \ {k}
      /\ p.invoking = pin[i].invoking \ {k}
  BY <1>3, ReleasedIs
<1> HIDE DEF p
<1>6. /\ SamePlace(q, pin[i]) /\ q.invoking = pin[i].invoking \ {k}
      /\ MoreToSend(p, k) => q.progress = p.progress \cup {"send"}
      /\ ~MoreToSend(p, k) => q = p
  <2>1. IsPin(p)
    BY <1>5 DEF SamePlace
  <2>2. /\ SamePlace(Sending(p), p) /\ Sending(p).invoking = p.invoking
        /\ Sending(p).progress = p.progress \cup {"send"}
    BY <2>1, SendingIs
  <2> QED
    BY <1>5, <2>2 DEF SamePlace
<1> HIDE DEF q
<1>7. PinShape' /\ pin'[i] = q /\ \A j \in Idents : j # i => pin'[j] = pin[j]
  BY <1>4, <1>6, EditIs DEF GateInv, Shape, SamePlace
<1>8. /\ PortShape' /\ AskedOpen' /\ open' = open /\ calls' = calls
      /\ MoreToSend(p, k) => AskedOnly(i, "send")
      /\ ~MoreToSend(p, k) => asked' = asked
  <2>1. CASE MoreToSend(p, k)
    BY <1>4, <2>1, AskIs DEF GateInv, Shape, Kinds
  <2>2. CASE ~MoreToSend(p, k)
    BY <1>4, <2>2 DEF GateInv, Shape, PortShape, AskedOpen
  <2> QED
    BY <2>1, <2>2
<1>9. /\ half' \in [Actors -> {None} \cup {<<h>> : h \in Calls}]
      /\ half'[a] # None => half'[a][1].fresh
      /\ \A b \in Actors : b # a => half'[b] = half[b]
      /\ \A j \in Idents : ClosingSoon(j) => ClosingSoon(j)'
      /\ LastOfDead(p) => ClosingSoon(i)'
  <2>1. CASE \E name \in {"close", "recv"} :
               /\ half' = [half EXCEPT ![a] = Later(name, i, k)]
               /\ LastOfDead(p) => name = "close"
    <3>1. PICK name \in {"close", "recv"} :
               /\ half' = [half EXCEPT ![a] = Later(name, i, k)]
               /\ LastOfDead(p) => name = "close"
      BY <2>1
    <3>2. /\ half' \in [Actors -> {None} \cup {<<h>> : h \in Calls}]
          /\ half'[a] # None /\ half'[a][1].fresh
          /\ \A b \in Actors : b # a => half'[b] = half[b]
          /\ \A j \in Idents : ClosingSoon(j) => ClosingSoon(j)'
          /\ name = "close" => ClosingSoon(i)'
      BY <1>1, <3>1, LaterIs DEF GateInv, Shape
    <3> QED
      BY <3>1, <3>2
  <2>2. CASE ~LastOfDead(p) /\ UNCHANGED half
    BY <1>1, <2>2 DEF GateInv, Shape, ActorShape, ClosingSoon
  <2> QED
    BY <1>4, <2>1, <2>2
<1>10. \A b \in Actors : during'[b] = IF b = a THEN None ELSE during[b]
  BY <1>1 DEF GateInv, Shape, ActorShape
<1>11. Shape'
  BY <1>1, <1>7, <1>8, <1>9 DEF GateInv, Shape, ActorShape, GateShape
<1>12. \A j \in Idents : pin'[j].place = pin[j].place
  BY <1>6, <1>7 DEF SamePlace
<1>13. Owned' /\ Listed'
  BY <1>1, <1>8, <1>12, PlacesKept DEF GateInv
<1>14. Busy'
  <2>1. a \in Users => up = "on"
    BY <1>1 DEF GateInv, Busy
  <2>2. a \in Workers => calls[a] # NoIdent
    BY <1>1 DEF GateInv, Busy
  <2> QED
    BY <1>1, <1>8, <1>9, <1>10, <2>1, <2>2 DEF ActorsAssumption, GateInv, Busy, Actors
<1>15. \A j \in Idents : j # i => PinInv(j)'
  <2> SUFFICES ASSUME NEW j \in Idents, j # i PROVE PinInv(j)'
    OBVIOUS
  <2>1. Quiet(j)
    BY <1>8 DEF AskedOnly, Quiet
  <2>2. \A b \in Actors : \A l \in Kinds : during'[b] = <<j, l>> <=> during[b] = <<j, l>>
    BY <1>2, <1>10 DEF None
  <2>3. Untouched(j)
    BY <1>7, <1>9, <2>1, <2>2 DEF Untouched
  <2> QED
    BY <1>11, <2>3, OthersKept DEF GateInv, Shape
<1>16. Marked(i)'
  <2>1. ASSUME NEW b \in Actors, NEW l \in Kinds, during'[b] = <<i, l>>
        PROVE  Mapped(i)' /\ l \in pin'[i].invoking
    <3>1. b # a /\ during[b] = <<i, l>>
      BY <1>10, <2>1 DEF None
    <3>2. l # k
      BY <1>2, <1>3, <3>1 DEF PinInv, Marked
    <3> QED
      BY <1>3, <1>6, <1>7, <1>12, <3>1, <3>2 DEF PinInv, Marked, Mapped
  <2>2. ASSUME NEW l \in pin'[i].invoking
        PROVE  /\ \E b \in Actors : during'[b] = <<i, l>>
               /\ \A b, c \in Actors : during'[b] = <<i, l>> /\ during'[c] = <<i, l>> => b = c
    <3>1. l \in pin[i].invoking /\ l # k
      BY <1>6, <1>7, <2>2
    <3>2. PICK b \in Actors : during[b] = <<i, l>>
      BY <1>3, <3>1 DEF PinInv, Marked
    <3>3. b # a
      BY <1>2, <3>1, <3>2
    <3>4. l \in Kinds
      BY <3>2, CallbackKnown DEF GateInv, Shape
    <3>5. \A c \in Actors : during'[c] = <<i, l>> => during[c] = <<i, l>>
      BY <1>10, <3>4 DEF None
    <3> QED
      BY <1>3, <1>10, <3>1, <3>2, <3>3, <3>5 DEF PinInv, Marked
  <2> QED
    BY <2>1, <2>2 DEF Marked
<1>17. Masked(i)'
  <2> SUFFICES ASSUME NEW l \in Masks
               PROVE  /\ l \in pin'[i].invoking => l \in pin'[i].progress
                      /\ asked'[<<i, l>>] = i /\ Mapped(i)' =>
                           l \in pin'[i].progress /\ l \notin pin'[i].invoking
    BY DEF Masked
  <2>1. /\ l \in pin[i].invoking => l \in pin[i].progress
        /\ asked[<<i, l>>] = i => l \in pin[i].progress /\ l \notin pin[i].invoking
    BY <1>3 DEF PinInv, Masked
  <2>2. l # k /\ l \in pin[i].progress => l \in q.progress
    BY <1>5, <1>6
  <2>3. CASE MoreToSend(p, k)
    <3>1. k = "send"
      BY <2>3 DEF MoreToSend
    <3>2. l # k => asked'[<<i, l>>] \in {asked[<<i, l>>], NoIdent}
      BY <1>8, <2>3, <3>1 DEF AskedOnly
    <3> QED
      BY <1>3, <1>6, <1>7, <2>1, <2>2, <2>3, <3>1, <3>2
  <2>4. CASE ~MoreToSend(p, k)
    BY <1>3, <1>6, <1>7, <1>8, <2>1, <2>2, <2>4
  <2> QED
    BY <2>3, <2>4
<1>18. DeadCloses(i)'
  <2>1. CASE LastOfDead(p)
    BY <1>9, <2>1 DEF DeadCloses
  <2>2. CASE ~LastOfDead(p)
    BY <1>5, <1>6, <1>7, <2>2 DEF DeadCloses, LastOfDead, SamePlace
  <2> QED
    BY <2>1, <2>2
<1>19. StoredGoes(i)'
  <2>1. CASE MoreToSend(p, k)
    BY <1>6, <1>7, <2>1 DEF StoredGoes
  <2>2. CASE ~MoreToSend(p, k)
    <3>1. q = p
      BY <1>6, <2>2
    <3>2. CASE k = "send"
      BY <1>5, <1>7, <2>2, <3>1, <3>2 DEF StoredGoes, MoreToSend, Alive
    <3>3. CASE k # "send"
      BY <1>3, <1>5, <1>7, <1>9, <3>1, <3>3 DEF PinInv, StoredGoes, Alive, Mapped, SamePlace
    <3> QED
      BY <3>2, <3>3
  <2> QED
    BY <2>1, <2>2
<1>20. PinInv(i)'
  BY <1>16, <1>17, <1>18, <1>19 DEF PinInv
<1>21. \A x \in Workers : Reaches(x)'
  <2> SUFFICES ASSUME NEW x \in Workers PROVE Reaches(x)'
    OBVIOUS
  <2>1. CASE x = a
    BY <1>9, <2>1 DEF Reaches
  <2>2. CASE x # a
    BY <1>8, <1>9, <1>12, <2>2, ReachesKept DEF GateInv, Shape, Actors
  <2> QED
    BY <2>1, <2>2
<1> QED
  BY <1>8, <1>11, <1>13, <1>14, <1>15, <1>20, <1>21 DEF GateInv

-----------------------------------------------------------------------------
(* The closer and the end of the gate.                                     *)

LEMMA TakeStep ==
  ASSUME GateInv, IdentsAssumption, Take
  PROVE  GateInv'
<1>1. /\ closer.step = "idle" /\ pinList # <<>> /\ up = "on"
      /\ UNCHANGED <<open, asked, calls, listeners, during, half, up>>
      /\ pinList \in Seq(Idents)
  BY DEF Take, GateInv, Shape, GateShape
<1>2. Head(pinList) \in Idents /\ Head(pinList) = pinList[1] /\ 1 \in DOMAIN pinList
  BY <1>1
<1>3. PICK i \in Idents : i = Head(pinList)
  BY <1>2
<1> DEFINE p == [pin[i] EXCEPT !.place = "final"]
<1>4. /\ pin' = [pin EXCEPT ![i] = p] /\ pinList' = Tail(pinList)
      /\ closer' = [step |-> "on_close", ident |-> i]
  BY <1>3 DEF Take
<1>5. /\ IsPin(p) /\ p.place = "final" /\ pin[i].place = "list"
      /\ p.invoking = pin[i].invoking /\ p.progress = pin[i].progress
  <2>1. IsPin(pin[i]) /\ pin[i].place = "list"
    BY <1>2, <1>3 DEF GateInv, Shape, PinShape, Listed
  <2> QED
    BY <2>1 DEF IsPin, Fields
<1> HIDE DEF p
<1>6. PinShape' /\ pin'[i] = p /\ \A j \in Idents : j # i => pin'[j] = pin[j]
  BY <1>4, <1>5, EditIs DEF GateInv, Shape
<1>7. /\ Len(pinList) \in Nat /\ DOMAIN pinList = 1 .. Len(pinList)
      /\ pinList' \in Seq(Idents) /\ DOMAIN pinList' = 1 .. Len(pinList) - 1
      /\ \A n \in 1 .. Len(pinList) - 1 : pinList'[n] = pinList[n + 1]
  BY <1>1, <1>4
<1>8. Shape' /\ AskedOpen'
  BY <1>1, <1>4, <1>6, <1>7
     DEF GateInv, Shape, PortShape, ActorShape, GateShape, AskedOpen
<1>9. Owned'
  BY <1>1, <1>5, <1>6 DEF GateInv, Owned, SocketsOwned, IdentsAssumption
<1>10. Listed'
  <2>1. \A n \in DOMAIN pinList : pinList[n] \in Idents
    BY <1>1
  <2>2. ASSUME NEW n \in 1 .. Len(pinList) - 1 PROVE pin'[pinList'[n]].place = "list"
    <3>1. n + 1 \in DOMAIN pinList /\ 1 \in DOMAIN pinList /\ n + 1 # 1
      BY <1>2, <1>7
    <3>2. pinList[n + 1] # i
      BY <1>2, <1>3, <3>1 DEF GateInv, Listed, OnceEach
    <3> QED
      BY <1>6, <1>7, <2>1, <3>1, <3>2 DEF GateInv, Listed
  <2>3. OnceEach(pinList')
    <3> SUFFICES ASSUME NEW m \in 1 .. Len(pinList) - 1, NEW n \in 1 .. Len(pinList) - 1,
                        pinList'[m] = pinList'[n]
                 PROVE  m = n
      BY <1>7 DEF OnceEach
    <3>1. /\ m + 1 \in DOMAIN pinList /\ n + 1 \in DOMAIN pinList
          /\ pinList[m + 1] = pinList[n + 1]
      BY <1>7
    <3>2. m + 1 = n + 1
      BY <3>1 DEF GateInv, Listed, OnceEach
    <3> QED
      BY <3>2
  <2>4. closer'.step = "on_close" /\ closer'.ident = i
    BY <1>4
  <2> QED
    BY <1>1, <1>5, <1>6, <1>7, <2>2, <2>3, <2>4 DEF Listed
<1>11. Busy'
  BY <1>1 DEF GateInv, Busy
<1>12. \A j \in Idents : ClosingSoon(j) => ClosingSoon(j)'
  BY <1>1 DEF ClosingSoon
<1>13. \A j \in Idents : j # i => PinInv(j)'
  <2> SUFFICES ASSUME NEW j \in Idents, j # i PROVE PinInv(j)'
    OBVIOUS
  <2>1. Untouched(j)
    BY <1>1, <1>6, <1>12 DEF Untouched, Quiet
  <2> QED
    BY <1>8, <2>1, OthersKept DEF GateInv, Shape
<1>14. PinInv(i)'
  <2>1. PinInv(i)
    BY DEF GateInv
  <2>2. Marked(i)'
    BY <1>1, <1>5, <1>6, <2>1 DEF PinInv, Marked, Mapped
  <2>3. Masked(i)'
    BY <1>1, <1>5, <1>6, <2>1 DEF PinInv, Masked, Mapped
  <2>4. DeadCloses(i)' /\ StoredGoes(i)'
    BY <1>5, <1>6 DEF DeadCloses, StoredGoes, Alive, Mapped
  <2> QED
    BY <2>2, <2>3, <2>4 DEF PinInv
<1>15. \A x \in Workers : Reaches(x)'
  BY <1>1, <1>5, <1>6, ReachesKept DEF GateInv, Shape
<1> QED
  BY <1>8, <1>9, <1>10, <1>11, <1>13, <1>14, <1>15 DEF GateInv

LEMMA ClosePortStep ==
  ASSUME GateInv, IdentsAssumption, ClosePort
  PROVE  GateInv'
<1>1. PICK i \in Idents : i = closer.ident /\ pin[i].place = "final"
  BY DEF ClosePort, GateInv, Listed
<1>2. /\ Port!Close(i) /\ closer.step = "on_close"
      /\ closer' = [closer EXCEPT !.step = "destroy"]
      /\ pin' = [pin EXCEPT ![i] = NoPin]
      /\ half' = [a \in Actors |-> IF half[a] # None /\ half[a][1].ident = i
                                   THEN <<[half[a][1] EXCEPT !.fresh = FALSE]>>
                                   ELSE half[a]]
      /\ UNCHANGED <<listeners, pinList, during, up>>
  BY <1>1 DEF ClosePort
<1>3. PinShape' /\ pin'[i] = NoPin /\ \A j \in Idents : j # i => pin'[j] = pin[j]
  BY <1>2, NoPinIs, EditIs DEF GateInv, Shape
<1>4. /\ PortShape' /\ AskedOpen' /\ open' = open \ {i} /\ calls' = calls
      /\ \A j \in Idents : Quiet(j)
  BY <1>2, CloseIs DEF GateInv, Shape
<1>5. \A a \in Actors : half'[a] = IF half[a] # None /\ half[a][1].ident = i
                                   THEN <<[half[a][1] EXCEPT !.fresh = FALSE]>>
                                   ELSE half[a]
  BY <1>2
<1>6. \A a \in Actors : half[a] = None \/ \E h \in Calls : half[a] = <<h>>
  BY DEF GateInv, Shape, ActorShape
<1>7. \A h \in Calls :
        LET g == [h EXCEPT !.fresh = FALSE]
        IN  g \in Calls /\ g.name = h.name /\ g.ident = h.ident
  BY DEF Calls
<1>8. \A a \in Actors :
        /\ half'[a] = None \/ \E h \in Calls : half'[a] = <<h>>
        /\ half'[a] = None <=> half[a] = None
        /\ half[a] # None => /\ half'[a][1].name = half[a][1].name
                             /\ half'[a][1].ident = half[a][1].ident
        /\ half[a] # None /\ half[a][1].ident # i => half'[a] = half[a]
  <2> SUFFICES ASSUME NEW a \in Actors
               PROVE  /\ half'[a] = None \/ \E h \in Calls : half'[a] = <<h>>
                      /\ half'[a] = None <=> half[a] = None
                      /\ half[a] # None => /\ half'[a][1].name = half[a][1].name
                                           /\ half'[a][1].ident = half[a][1].ident
                      /\ half[a] # None /\ half[a][1].ident # i => half'[a] = half[a]
    OBVIOUS
  <2>1. CASE half[a] = None
    BY <1>5, <2>1
  <2>2. CASE half[a] # None
    <3>1. PICK h \in Calls : half[a] = <<h>>
      BY <1>6, <2>2
    <3> DEFINE g == [h EXCEPT !.fresh = FALSE]
    <3>2. g \in Calls /\ g.name = h.name /\ g.ident = h.ident
      BY <1>7
    <3>3. half'[a] = IF h.ident = i THEN <<g>> ELSE half[a]
      BY <1>5, <2>2, <3>1
    <3> HIDE DEF g
    <3> QED
      BY <2>2, <3>1, <3>2, <3>3 DEF None
  <2> QED
    BY <2>1, <2>2
<1>9. ActorShape'
  <2>1. half' \in [Actors -> {None} \cup {<<h>> : h \in Calls}]
    BY <1>2, <1>8
  <2> QED
    BY <1>2, <2>1 DEF GateInv, Shape, ActorShape
<1>10. Shape'
  BY <1>2, <1>3, <1>4, <1>9 DEF GateInv, Shape, GateShape
<1>11. Owned'
  BY <1>1, <1>2, <1>3, <1>4, NoPinIs DEF GateInv, Shape, GateShape, Owned, SocketsOwned
<1>12. Listed'
  <2>1. \A n \in DOMAIN pinList : pinList[n] \in Idents /\ pinList[n] # i
    BY <1>1 DEF GateInv, Shape, GateShape, Listed
  <2>2. closer'.step = "destroy" /\ up \notin {"port", "clear", "off"}
    BY <1>2 DEF GateInv, Shape, GateShape, Listed
  <2> QED
    BY <1>2, <1>3, <2>1, <2>2 DEF GateInv, Listed
<1>13. Busy'
  BY <1>2, <1>4, <1>8 DEF GateInv, Busy, Actors
<1>14. \A j \in Idents : ClosingSoon(j) => ClosingSoon(j)'
  BY <1>8 DEF ClosingSoon
<1>15. \A j \in Idents : j # i => PinInv(j)'
  <2> SUFFICES ASSUME NEW j \in Idents, j # i PROVE PinInv(j)'
    OBVIOUS
  <2>1. Untouched(j)
    BY <1>2, <1>3, <1>4, <1>14 DEF Untouched
  <2> QED
    BY <1>9, <2>1, OthersKept DEF GateInv, Shape
<1>16. PinInv(i)'
  <2>1. PinInv(i)
    BY DEF GateInv
  <2>2. Marked(i)'
    BY <1>1, <1>2, <1>3, <2>1, NoPinIs DEF PinInv, Marked, Mapped
  <2>3. Masked(i)' /\ DeadCloses(i)' /\ StoredGoes(i)'
    BY <1>3, NoPinIs DEF Masked, DeadCloses, StoredGoes, Alive, Mapped
  <2> QED
    BY <2>2, <2>3 DEF PinInv
<1>17. \A x \in Workers : Reaches(x)'
  <2> SUFFICES ASSUME NEW x \in Workers PROVE Reaches(x)'
    OBVIOUS
  <2>1. CASE calls[x] = i
    BY <1>3, <1>4, <2>1, NoPinIs DEF Reaches, Mapped
  <2>2. CASE calls[x] # i
    <3>1. half[x] # None => half[x][1].ident \in Idents
      BY <1>6 DEF Calls, Actors
    <3> QED
      BY <1>3, <1>4, <1>8, <2>2, <3>1 DEF GateInv, Reaches, Mapped, Actors
  <2> QED
    BY <2>1, <2>2
<1> QED
  BY <1>4, <1>10, <1>11, <1>12, <1>13, <1>15, <1>16, <1>17 DEF GateInv

LEMMA OffClearStep ==
  ASSUME GateInv, IdentsAssumption, ActorsAssumption, OffClear
  PROVE  GateInv'
<1>1. /\ up = "clear" /\ up' = "off" /\ pinList' = <<>>
      /\ pin' = [i \in Idents |-> NoPin]
      /\ UNCHANGED <<open, asked, calls, listeners, closer, during, half>>
  BY DEF OffClear
<1>2. \A a \in Actors : during[a] = None
  BY <1>1 DEF GateInv, Busy, Actors
<1>3. PinShape'
  BY <1>1, NoPinIs DEF PinShape
<1>4. Shape' /\ AskedOpen'
  BY <1>1, <1>3 DEF GateInv, Shape, PortShape, ActorShape, GateShape, AskedOpen
<1>5. Owned' /\ Listed' /\ Busy'
  BY <1>1, NoPinIs DEF IdentsAssumption, GateInv, Owned, SocketsOwned, Listed, OnceEach, Busy
<1>6. \A i \in Idents : PinInv(i)'
  <2> SUFFICES ASSUME NEW i \in Idents PROVE PinInv(i)'
    OBVIOUS
  <2>1. pin'[i] = NoPin
    BY <1>1
  <2>2. Marked(i)'
    BY <1>1, <1>2, <2>1, NoPinIs DEF Marked, None
  <2>3. Masked(i)' /\ DeadCloses(i)' /\ StoredGoes(i)'
    BY <2>1, NoPinIs DEF Masked, DeadCloses, StoredGoes, Alive, Mapped
  <2> QED
    BY <2>2, <2>3 DEF PinInv
<1>7. \A x \in Workers : Reaches(x)'
  BY <1>1, NoPinIs, ReachesKept DEF GateInv, Shape
<1> QED
  BY <1>4, <1>5, <1>6, <1>7 DEF GateInv

-----------------------------------------------------------------------------
(* The invariant always holds.                                             *)

LEMMA GateBegins ==
  ASSUME IdentsAssumption, Init
  PROVE  GateInv
<1>1. /\ open = {} /\ asked = [t \in Operations |-> NoIdent]
      /\ calls = [x \in Workers |-> NoIdent]
      /\ listeners = {} /\ pin = [i \in Idents |-> NoPin] /\ pinList = <<>>
      /\ closer = [step |-> "idle", ident |-> NoIdent]
      /\ during = [a \in Actors |-> None] /\ half = [a \in Actors |-> None] /\ up = "on"
  BY DEF Init, Port!PortInit
<1>2. PinShape
  BY <1>1, NoPinIs DEF PinShape
<1>3. Shape
  BY <1>1, <1>2 DEF Shape, PortShape, ActorShape, GateShape
<1>4. AskedOpen
  BY <1>1 DEF AskedOpen, Operations
<1>5. Owned /\ Listed /\ Busy
  BY <1>1, NoPinIs DEF IdentsAssumption, Owned, SocketsOwned, Listed, OnceEach, Busy, Actors
<1>6. \A i \in Idents : PinInv(i)
  <2> SUFFICES ASSUME NEW i \in Idents PROVE PinInv(i)
    OBVIOUS
  <2>1. pin[i] = NoPin
    BY <1>1
  <2>2. Marked(i)
    BY <1>1, <2>1, NoPinIs DEF Marked, None
  <2>3. Masked(i) /\ DeadCloses(i) /\ StoredGoes(i)
    BY <2>1, NoPinIs DEF Masked, DeadCloses, StoredGoes, Alive, Mapped
  <2> QED
    BY <2>2, <2>3 DEF PinInv
<1>7. \A w \in Workers : Reaches(w)
  BY <1>1 DEF Reaches, Actors
<1> QED
  BY <1>3, <1>4, <1>5, <1>6, <1>7 DEF GateInv

LEMMA CallKeeps ==
  ASSUME GateInv, IdentsAssumption, ActorsAssumption, NEW a \in Actors, Call(a)
  PROVE  GateInv'
<1>1. PICK i \in Idents :
        \/ Listen(a, i) \/ Deaf(a, i) \/ Connect(a, i) \/ Bind(a, i) \/ Close(a, i)
        \/ \E bulk \in Bulks : SendBulk(a, i, bulk)
        \/ \E big \in BOOLEAN : Recv(a, i, big)
  BY DEF Call
<1> QED
  BY <1>1, ListenStep, DeafStep, ConnectStep, BindStep, CloseStep, SendBulkStep, RecvStep

LEMMA AnsweredKeeps ==
  ASSUME GateInv, IdentsAssumption, ActorsAssumption, NEW w \in Workers, Answered(w)
  PROVE  GateInv'
<1>1. PICK i \in Idents :
        \/ \E k \in Kinds : OnError(w, i, k) \/ Ignored(w, i, k)
        \/ \E j \in Idents : OnAccept(w, i, j)
        \/ \E n \in 1 .. Chunk : OnSend(w, i, n)
        \/ OnConnect(w, i) \/ OnRecv(w, i)
  BY DEF Answered
<1>2. ASSUME NEW k \in Kinds, Ignored(w, i, k) PROVE GateInv'
  BY <1>2, IgnoredStep DEF Ignored
<1> QED
  BY <1>1, <1>2, OnErrorStep, OnAcceptStep, OnSendStep, OnConnectStep, OnRecvStep

LEMMA GateContinues ==
  ASSUME IdentsAssumption, ActorsAssumption, GateInv, [Next]_vars
  PROVE  GateInv'
<1>1. ASSUME NEW a \in Actors, Call(a) \/ InitiateClose(a) \/ EndCallback(a)
      PROVE  GateInv'
  BY <1>1, CallKeeps, InitiateCloseStep, EndCallbackStep
<1>2. ASSUME NEW w \in Workers, Answered(w) \/ Again(w) \/ Return(w)
      PROVE  GateInv'
  BY <1>2, AnsweredKeeps, RecvAgainStep, ReturnStep DEF Again
<1>3. ASSUME NEW i \in Idents, PostAccept(i) PROVE GateInv'
  BY <1>3, PostAcceptStep
<1>4. CASE CloseSteps
  BY <1>4, TakeStep, ClosePortStep, DestroyStep DEF CloseSteps
<1>5. CASE OffStart \/ OffSteps
  BY <1>5, OffStartStep, OffThreadStep, OffPortStep, OffClearStep DEF OffSteps
<1>6. CASE UNCHANGED vars
  <2>1. UNCHANGED <<open, asked, calls, listeners, pin, pinList, closer, during, half, up>>
    BY <1>6 DEF vars, gateVars
  <2>2. Shape' /\ AskedOpen' /\ Owned' /\ Listed' /\ Busy'
    <3>1. Shape'
      BY <2>1 DEF GateInv, Shape, PortShape, PinShape, ActorShape, GateShape
    <3>2. AskedOpen' /\ Busy'
      BY <2>1 DEF GateInv, AskedOpen, Busy
    <3>3. Owned' /\ Listed'
      BY <2>1, PlacesKept DEF GateInv
    <3> QED
      BY <3>1, <3>2, <3>3
  <2>3. \A i \in Idents : PinInv(i)'
    BY <2>1, <2>2, PinsUntouched DEF Quiet, Shape
  <2>4. \A w \in Workers : Reaches(w)'
    BY <2>1 DEF GateInv, Reaches, Mapped
  <2> QED
    BY <2>2, <2>3, <2>4 DEF GateInv
<1> QED
  BY <1>1, <1>2, <1>3, <1>4, <1>5, <1>6 DEF Next

LEMMA GateAlways == Spec => []GateInv
<1>1. Init => GateInv
  BY GateBegins, IdentsAssumption
<1>2. GateInv /\ [Next]_vars => GateInv'
  BY GateContinues, IdentsAssumption, ActorsAssumption
<1> QED
  BY <1>1, <1>2, PTL DEF Spec

-----------------------------------------------------------------------------
(* Chunks: what is stored in them is as much as was given, and fits.       *)

\* Chunks of any kind, and one in which no byte is lost: a chunk of a stream
\* that is not sent, or of datagrams from a header on.
Lengths == Nat \ {0}
Pages == [begin : Nat, end : Nat, grams : Seq(Lengths)]
Weight(grams) == Sum(grams) + Header * Len(grams)
PageKept(udp, page) ==
  IF udp THEN page.grams # <<>> /\ page.end - page.begin = Weight(page.grams)
  ELSE page.grams = <<>> /\ page.begin < page.end /\ page.end <= Chunk

\* More is stored in a chunk.
Grows(udp, page, new) ==
  /\ new.begin = page.begin
  /\ IF udp
     THEN /\ new.end - Weight(new.grams) = page.end - Weight(page.grams)
          /\ page.end <= new.end
          /\ page.grams # <<>> => new.grams # <<>>
     ELSE PageKept(udp, page) => PageKept(udp, new) /\ page.end <= new.end

\* More is stored in the chunks q, by so many bytes.
Grown(udp, q, r, by) ==
  /\ r \in Seq(Pages) /\ Len(q) <= Len(r)
  /\ \A n \in 1 .. Len(q) : Grows(udp, q[n], r[n])
  /\ \A n \in Len(q) + 1 .. Len(r) : r[n].begin = 0 /\ PageKept(udp, r[n])
  /\ Held(udp, r) = Held(udp, q) + by

LEMMA WeightIs ==
  ASSUME SizesAssumption, NEW grams \in Seq(Lengths)
  PROVE  /\ Sum(grams) \in Nat /\ Weight(grams) \in Nat
         /\ Sum(<<>>) = 0 /\ Weight(<<>>) = 0
         /\ Weight(grams) = 0 => Sum(grams) = 0
<1>1. Header \in Nat /\ Len(grams) \in Nat /\ grams \in Seq(Nat)
  BY DEF SizesAssumption, Lengths
<1>2. Header * Len(grams) \in Nat /\ Header * 0 = 0
  BY <1>1
<1>3. Sum(grams) \in Nat
  BY <1>1, SumNat
<1>4. Sum(<<>>) = 0 /\ Len(<<>>) = 0
  BY SumEmpty
<1> QED
  BY <1>2, <1>3, <1>4 DEF Weight

LEMMA WeightAdded ==
  ASSUME SizesAssumption, NEW grams \in Seq(Lengths), NEW len \in Lengths
  PROVE  LET new == grams \o <<len>>
         IN  /\ new \in Seq(Lengths) /\ new # <<>>
             /\ Sum(new) = Sum(grams) + len
             /\ Weight(new) = Weight(grams) + len + Header
<1> DEFINE new == grams \o <<len>>
<1>1. /\ Header \in Nat /\ Len(grams) \in Nat /\ grams \in Seq(Int) /\ len \in Int
      /\ new \in Seq(Int) /\ Len(new) = Len(grams) + 1 /\ new[Len(new)] = len
      /\ \A n \in 1 .. Len(grams) : new[n] = grams[n]
      /\ new \in Seq(Lengths) /\ new # <<>>
  BY DEF SizesAssumption, Lengths
<1> HIDE DEF new
<1>2. Sum(new) = Sum(grams) + len /\ Sum(grams) \in Int
  BY <1>1, SumLast, SumsAre
<1>3. Header * (Len(grams) + 1) = Header * Len(grams) + Header /\ Header * Len(grams) \in Int
  BY <1>1
<1>4. Weight(new) = Weight(grams) + len + Header
  BY <1>1, <1>2, <1>3 DEF Weight
<1> QED
  BY <1>1, <1>2, <1>4 DEF new

LEMMA WeightTaken ==
  ASSUME SizesAssumption, NEW grams \in Seq(Lengths), grams # <<>>
  PROVE  /\ Head(grams) \in Lengths /\ Tail(grams) \in Seq(Lengths)
         /\ Sum(grams) = Head(grams) + Sum(Tail(grams))
         /\ Weight(grams) = Head(grams) + Header + Weight(Tail(grams))
<1> DEFINE rest == Tail(grams)
<1>1. /\ Header \in Nat /\ grams \in Seq(Int) /\ Head(grams) = grams[1]
      /\ Head(grams) \in Lengths /\ rest \in Seq(Lengths) /\ rest \in Seq(Int)
      /\ Len(grams) = Len(rest) + 1 /\ Len(rest) \in Nat
  BY DEF SizesAssumption, Lengths
<1>2. Sum(grams) = Head(grams) + Sum(rest) /\ Sum(rest) \in Int
  BY <1>1, SumFirst, SumsAre
<1> HIDE DEF rest
<1>3. Header * (Len(rest) + 1) = Header * Len(rest) + Header /\ Header * Len(rest) \in Int
  BY <1>1
<1>4. Weight(grams) = Head(grams) + Header + Weight(rest)
  BY <1>1, <1>2, <1>3 DEF Weight, Lengths
<1> QED
  BY <1>1, <1>2, <1>4 DEF rest

\* What one chunk holds.
Value(udp, page) == IF udp THEN Sum(page.grams) ELSE page.end - page.begin

LEMMA ValueIs ==
  ASSUME SizesAssumption, NEW udp \in BOOLEAN, NEW page \in Pages
  PROVE  Value(udp, page) \in Int
<1>1. /\ page.grams \in Seq(Lengths) /\ page.end \in Int /\ page.begin \in Int
  BY DEF Pages
<1>2. Sum(page.grams) \in Nat
  BY <1>1, WeightIs
<1> QED
  BY <1>1, <1>2 DEF Value

LEMMA ValuesAre ==
  ASSUME SizesAssumption, NEW udp \in BOOLEAN, NEW q \in Seq(Pages)
  PROVE  /\ Values(udp, q) \in Seq(Int) /\ Len(Values(udp, q)) = Len(q)
         /\ \A n \in 1 .. Len(q) : Values(udp, q)[n] = Value(udp, q[n])
         /\ Held(udp, q) = Sum(Values(udp, q)) /\ Held(udp, q) \in Int
<1>1. Len(q) \in Nat /\ DOMAIN q = 1 .. Len(q) /\ \A n \in 1 .. Len(q) : q[n] \in Pages
  OBVIOUS
<1>2. \A n \in 1 .. Len(q) : Value(udp, q[n]) \in Int
  BY <1>1, ValueIs
<1>3. Values(udp, q) = [n \in 1 .. Len(q) |-> Value(udp, q[n])]
  BY <1>1, Zenon DEF Values, Value
<1>4. /\ Values(udp, q) \in Seq(Int) /\ Len(Values(udp, q)) = Len(q)
      /\ \A n \in 1 .. Len(q) : Values(udp, q)[n] = Value(udp, q[n])
  BY <1>1, <1>2, <1>3
<1>5. Held(udp, q) = Sum(Values(udp, q))
  BY DEF Held
<1>6. Held(udp, q) \in Int
  BY <1>4, <1>5, SumsAre
<1> QED
  BY <1>4, <1>5, <1>6

LEMMA ValuesOf ==
  ASSUME SizesAssumption, NEW udp \in BOOLEAN, NEW q \in Seq(Pages), NEW k, Len(q) = k
  PROVE  /\ Values(udp, q) \in Seq(Int) /\ Len(Values(udp, q)) = k
         /\ \A n \in 1 .. k : Values(udp, q)[n] = Value(udp, q[n])
         /\ Held(udp, q) = Sum(Values(udp, q)) /\ Held(udp, q) \in Int
BY ValuesAre

LEMMA ToppedIs ==
  ASSUME NEW q \in Seq(Pages), q # <<>>, NEW len \in Int \ {0}, NEW grams \in Seq(Lengths),
         q[Len(q)].end + len \in Nat
  PROVE  LET r == Topped(q, len, grams)
         IN  /\ r \in Seq(Pages) /\ Len(r) = Len(q)
             /\ \A n \in 1 .. Len(q) - 1 : r[n] = q[n]
             /\ r[Len(q)].begin = q[Len(q)].begin
             /\ r[Len(q)].end = q[Len(q)].end + len
             /\ r[Len(q)].grams = q[Len(q)].grams \o grams
<1> DEFINE k == Len(q)
           end == q[k].end + len
           both == q[k].grams \o grams
           page == [q[k] EXCEPT !.end = end, !.grams = both]
           r == [q EXCEPT ![k] = page]
<1>1. k \in 1 .. Len(q) /\ k \in DOMAIN q /\ DOMAIN q = 1 .. Len(q) /\ q[k] \in Pages
  OBVIOUS
<1>2. Topped(q, len, grams) = r
  BY <1>1 DEF Topped
<1>3. end \in Nat /\ both \in Seq(Lengths)
  BY <1>1 DEF Pages
<1> HIDE DEF end, both
<1>4. page \in Pages /\ page.begin = q[k].begin /\ page.end = end /\ page.grams = both
  BY <1>1, <1>3 DEF Pages
<1> HIDE DEF page
<1>5. /\ r \in Seq(Pages) /\ Len(r) = Len(q)
      /\ \A n \in 1 .. Len(q) : r[n] = IF n = k THEN page ELSE q[n]
  BY <1>1, <1>4, ExceptSeq, Zenon
<1> HIDE DEF r
<1>6. \A n \in 1 .. Len(q) - 1 : n \in 1 .. Len(q) /\ n # k
  OBVIOUS
<1>7. r[k] = page /\ \A n \in 1 .. Len(q) - 1 : r[n] = q[n]
  BY <1>1, <1>5, <1>6
<1> QED
  BY <1>2, <1>4, <1>5, <1>7, Zenon DEF end, both

LEMMA GrowsItself ==
  ASSUME NEW udp, NEW page \in Pages
  PROVE  Grows(udp, page, page)
BY DEF Grows, Pages

LEMMA GrowsKept ==
  ASSUME SizesAssumption, NEW udp \in BOOLEAN, NEW page \in Pages, NEW new \in Pages,
         Grows(udp, page, new), PageKept(udp, page)
  PROVE  PageKept(udp, new)
<1>1. CASE udp
  <2>1. /\ new.end - Weight(new.grams) = page.end - Weight(page.grams)
        /\ page.end - page.begin = Weight(page.grams)
        /\ new.grams # <<>> /\ new.begin = page.begin
    BY <1>1 DEF Grows, PageKept
  <2>2. page.grams \in Seq(Lengths) /\ new.grams \in Seq(Lengths)
    BY DEF Pages
  <2>3. PICK a \in Nat, b \in Nat, c \in Nat, d \in Nat, e \in Nat :
          /\ a = new.end /\ b = Weight(new.grams) /\ c = page.end /\ d = Weight(page.grams)
          /\ e = page.begin
    BY <2>2, WeightIs DEF Pages
  <2>4. a - b = c - d /\ c - e = d
    BY <2>1, <2>3
  <2>5. a - e = b
    BY <2>4
  <2>6. new.end - new.begin = Weight(new.grams)
    BY <2>1, <2>3, <2>5
  <2> QED
    BY <1>1, <2>1, <2>6 DEF PageKept
<1>2. CASE ~udp
  BY <1>2 DEF Grows
<1> QED
  BY <1>1, <1>2

LEMMA GrownNot ==
  ASSUME SizesAssumption, NEW udp \in BOOLEAN, NEW q \in Seq(Pages)
  PROVE  Grown(udp, q, q, 0)
<1>1. /\ Len(q) \in Nat /\ \A n \in 1 .. Len(q) : q[n] \in Pages
      /\ \A n \in Len(q) + 1 .. Len(q) : FALSE
  OBVIOUS
<1>2. Held(udp, q) \in Int
  BY ValuesAre
<1>3. Held(udp, q) = Held(udp, q) + 0
  BY <1>2
<1> QED
  BY <1>1, <1>3, GrowsItself DEF Grown

\* The last chunk is the only one that is another.
LEMMA LastGrown ==
  ASSUME SizesAssumption, NEW udp \in BOOLEAN, NEW q \in Seq(Pages), NEW r \in Seq(Pages),
         NEW k \in Nat \ {0}, Len(q) = k, Len(r) = k, NEW by \in Int,
         \A n \in 1 .. k - 1 : r[n] = q[n],
         Grows(udp, q[k], r[k]),
         IF udp THEN Sum(r[k].grams) = Sum(q[k].grams) + by
         ELSE r[k].end - r[k].begin = q[k].end - q[k].begin + by
  PROVE  Grown(udp, q, r, by)
<1>1. k \in 1 .. k /\ q[k] \in Pages /\ r[k] \in Pages /\ \A n \in 1 .. k : q[n] \in Pages
  OBVIOUS
<1>2. \A n \in 1 .. k : Grows(udp, q[n], r[n])
  <2> SUFFICES ASSUME NEW n \in 1 .. k PROVE Grows(udp, q[n], r[n])
    OBVIOUS
  <2>1. CASE n = k
    BY <2>1
  <2>2. CASE n # k
    <3>1. n \in 1 .. k - 1
      BY <2>2
    <3>2. r[n] = q[n] /\ q[n] \in Pages
      BY <1>1, <3>1
    <3> QED
      BY <3>2, GrowsItself, Zenon
  <2> QED
    BY <2>1, <2>2
<1> DEFINE x == Values(udp, q)
           y == Values(udp, r)
<1>3. /\ x \in Seq(Int) /\ Len(x) = k /\ \A n \in 1 .. k : x[n] = Value(udp, q[n])
      /\ y \in Seq(Int) /\ Len(y) = k /\ \A n \in 1 .. k : y[n] = Value(udp, r[n])
      /\ Held(udp, q) = Sum(x) /\ Held(udp, r) = Sum(y)
      /\ Held(udp, q) \in Int /\ Held(udp, r) \in Int
  <2>1. /\ x \in Seq(Int) /\ Len(x) = k /\ \A n \in 1 .. k : x[n] = Value(udp, q[n])
        /\ Held(udp, q) \in Int
    BY ValuesOf, Zenon
  <2>2. /\ y \in Seq(Int) /\ Len(y) = k /\ \A n \in 1 .. k : y[n] = Value(udp, r[n])
        /\ Held(udp, r) \in Int
    BY ValuesOf, Zenon
  <2>3. Held(udp, q) = Sum(x) /\ Held(udp, r) = Sum(y)
    BY <1>2, ValuesOf, Zenon
  <2> HIDE DEF x, y
  <2> QED
    BY <2>1, <2>2, <2>3
<1>4. Value(udp, r[k]) = Value(udp, q[k]) + by /\ Value(udp, q[k]) \in Int
  <2>1. /\ q[k].grams \in Seq(Lengths) /\ q[k].begin \in Int /\ q[k].end \in Int
        /\ r[k].begin \in Int /\ r[k].end \in Int
    BY <1>1 DEF Pages
  <2>2. Sum(q[k].grams) \in Nat
    BY <2>1, WeightIs
  <2> QED
    BY <2>1, <2>2 DEF Value
<1> HIDE DEF x, y
<1>5. \A n \in 1 .. k - 1 : y[n] = x[n]
  <2> SUFFICES ASSUME NEW n \in 1 .. k - 1 PROVE y[n] = x[n]
    OBVIOUS
  <2>1. n \in 1 .. k /\ r[n] = q[n]
    OBVIOUS
  <2> QED
    BY <1>3, <2>1, Zenon
<1>6. Sum(y) - Sum(x) = y[k] - x[k]
  <2>1. Len(y) = Len(x) /\ Len(x) # 0 /\ \A n \in 1 .. Len(x) - 1 : y[n] = x[n]
    BY <1>3, <1>5
  <2>2. Sum(y) - Sum(x) = y[Len(y)] - x[Len(x)]
    BY <1>3, <2>1, SumLastChanged, Zenon
  <2> QED
    BY <1>3, <2>2, Zenon
<1>7. y[k] = Value(udp, q[k]) + by /\ x[k] = Value(udp, q[k])
  BY <1>1, <1>3, <1>4
<1>8. Held(udp, r) = Held(udp, q) + by
  BY <1>3, <1>4, <1>6, <1>7
<1> QED
  BY <1>2, <1>8 DEF Grown

\* A chunk is put behind the others.
LEMMA NextGrown ==
  ASSUME SizesAssumption, NEW udp \in BOOLEAN, NEW q \in Seq(Pages), NEW page \in Pages,
         page.begin = 0, PageKept(udp, page)
  PROVE  Grown(udp, q, Append(q, page), IF udp THEN Sum(page.grams) ELSE page.end)
<1> DEFINE r == Append(q, page)
           x == Values(udp, q)
           y == Values(udp, r)
<1>1. PICK k \in Nat : k = Len(q)
  OBVIOUS
<1>2. /\ r \in Seq(Pages) /\ Len(r) = k + 1 /\ r[k + 1] = page
      /\ \A n \in 1 .. k : r[n] = q[n] /\ q[n] \in Pages
  BY <1>1
<1> HIDE DEF r
<1>3. \A n \in 1 .. k : Grows(udp, q[n], r[n])
  BY <1>2, GrowsItself
<1>4. \A n \in k + 1 .. Len(r) : r[n].begin = 0 /\ PageKept(udp, r[n])
  <2>1. \A n \in k + 1 .. Len(r) : n = k + 1
    BY <1>2
  <2> QED
    BY <1>2, <2>1
<1>5. /\ x \in Seq(Int) /\ Len(x) = k /\ \A n \in 1 .. k : x[n] = Value(udp, q[n])
      /\ y \in Seq(Int) /\ Len(y) = k + 1 /\ \A n \in 1 .. k + 1 : y[n] = Value(udp, r[n])
      /\ Held(udp, q) = Sum(x) /\ Held(udp, r) = Sum(y)
      /\ Held(udp, q) \in Int /\ Held(udp, r) \in Int
  <2>1. /\ x \in Seq(Int) /\ Len(x) = k /\ \A n \in 1 .. k : x[n] = Value(udp, q[n])
        /\ Held(udp, q) \in Int
    BY <1>1, ValuesOf
  <2>2. /\ y \in Seq(Int) /\ Len(y) = k + 1 /\ \A n \in 1 .. k + 1 : y[n] = Value(udp, r[n])
        /\ Held(udp, r) \in Int
    <3>1. PICK m \in Nat : m = k + 1
      OBVIOUS
    <3>2. r \in Seq(Pages) /\ Len(r) = m
      BY <1>2, <3>1
    <3>3. /\ y \in Seq(Int) /\ Len(y) = m /\ \A n \in 1 .. m : y[n] = Value(udp, r[n])
          /\ Held(udp, r) \in Int
      BY <3>2, ValuesOf, ZenonT(60)
    <3> HIDE DEF y
    <3> QED
      BY <3>1, <3>3, Zenon
  <2>3. Held(udp, q) = Sum(x) /\ Held(udp, r) = Sum(y)
    BY DEF Held
  <2> HIDE DEF x, y
  <2> QED
    BY <2>1, <2>2, <2>3
<1>6. Value(udp, page) = IF udp THEN Sum(page.grams) ELSE page.end
  BY DEF Pages, Value
<1> HIDE DEF x, y
<1>7. \A n \in 1 .. k : n \in 1 .. k + 1 /\ y[n] = x[n]
  <2> SUFFICES ASSUME NEW n \in 1 .. k PROVE n \in 1 .. k + 1 /\ y[n] = x[n]
    OBVIOUS
  <2>1. n \in 1 .. k + 1 /\ r[n] = q[n]
    BY <1>2
  <2> QED
    BY <1>5, <2>1, Zenon
<1>8. Sum(y) = Sum(x) + y[k + 1]
  BY <1>5, <1>7, SumLast
<1>9. y[k + 1] = Value(udp, page)
  BY <1>2, <1>5
<1>10. Held(udp, r) = Held(udp, q) + IF udp THEN Sum(page.grams) ELSE page.end
  BY <1>5, <1>6, <1>8, <1>9
<1> QED
  BY <1>1, <1>2, <1>3, <1>4, <1>10 DEF Grown, r

\* A datagram: on the last chunk, or on one of its own.
LEMMA StoredGramIs ==
  ASSUME SizesAssumption, NEW q \in Seq(Pages), NEW len \in Lengths
  PROVE  Grown(TRUE, q, StoredGram(q, len), len)
<1>1. PICK k \in Nat : k = Len(q)
  OBVIOUS
<1>2. Header \in Nat \ {0} /\ len \in Nat \ {0} /\ <<len>> \in Seq(Lengths)
  BY DEF SizesAssumption, Lengths
<1>3. CASE q # <<>> /\ Room(q) >= len + Header
  <2> DEFINE r == Topped(q, len + Header, <<len>>)
  <2>1. StoredGram(q, len) = r
    BY <1>3 DEF StoredGram
  <2>2. k \in Nat \ {0} /\ q[k] \in Pages
    BY <1>1, <1>3
  <2>3. q[k].end \in Nat /\ q[k].begin \in Nat /\ q[k].grams \in Seq(Lengths)
    BY <2>2 DEF Pages
  <2>4. len + Header \in Int \ {0} /\ q[k].end + (len + Header) \in Nat
    BY <1>2, <2>3, SMTT(30)
  <2>5. /\ r \in Seq(Pages) /\ Len(r) = k
        /\ \A n \in 1 .. k - 1 : r[n] = q[n]
        /\ r[k].begin = q[k].begin
        /\ r[k].end = q[k].end + (len + Header)
        /\ r[k].grams = q[k].grams \o <<len>>
    <3>1. q[Len(q)].end + (len + Header) \in Nat
      BY <1>1, <2>4
    <3>2. /\ r \in Seq(Pages) /\ Len(r) = Len(q)
          /\ \A n \in 1 .. Len(q) - 1 : r[n] = q[n]
          /\ r[Len(q)].begin = q[Len(q)].begin
          /\ r[Len(q)].end = q[Len(q)].end + (len + Header)
          /\ r[Len(q)].grams = q[Len(q)].grams \o <<len>>
      BY <1>2, <1>3, <2>4, <3>1, ToppedIs
    <3> QED
      BY <1>1, <3>2, Zenon
  <2> HIDE DEF r
  <2>6. /\ r[k].grams # <<>> /\ Sum(r[k].grams) = Sum(q[k].grams) + len
        /\ Weight(r[k].grams) = Weight(q[k].grams) + len + Header
        /\ Weight(q[k].grams) \in Nat
    BY <2>3, <2>5, WeightAdded, WeightIs
  <2>7. Grows(TRUE, q[k], r[k])
    <3>1. r[k].end - Weight(r[k].grams) = q[k].end - Weight(q[k].grams) /\ q[k].end <= r[k].end
      BY <1>2, <2>3, <2>5, <2>6, SMTT(30)
    <3> QED
      BY <2>5, <2>6, <3>1 DEF Grows
  <2>8. Grown(TRUE, q, r, len)
    <3>1. IF TRUE THEN Sum(r[k].grams) = Sum(q[k].grams) + len
          ELSE r[k].end - r[k].begin = q[k].end - q[k].begin + len
      BY <2>6
    <3>2. len \in Int /\ k \in Nat \ {0} /\ Len(q) = k
      BY <1>1, <1>2, <2>2
    <3> QED
      BY <2>5, <2>7, <3>1, <3>2, LastGrown
  <2> QED
    BY <2>1, <2>8
<1>4. CASE ~(q # <<>> /\ Room(q) >= len + Header)
  <2> DEFINE page == Page(len + Header, <<len>>)
  <2>1. StoredGram(q, len) = Append(q, page)
    BY <1>4 DEF StoredGram
  <2>2. /\ page \in Pages /\ page.begin = 0 /\ page.end = len + Header
        /\ page.grams = <<len>>
    BY <1>2 DEF Page, Pages
  <2>3. /\ page.grams # <<>> /\ Sum(page.grams) = len /\ Weight(page.grams) = len + Header
    <3>1. <<>> \in Seq(Lengths) /\ <<>> \o <<len>> = <<len>>
      OBVIOUS
    <3>2. Sum(<<len>>) = Sum(<<>>) + len /\ Weight(<<len>>) = Weight(<<>>) + len + Header
      BY <3>1, WeightAdded
    <3>3. Sum(<<>>) = 0 /\ Weight(<<>>) = 0
      BY <3>1, WeightIs
    <3> QED
      BY <1>2, <2>2, <3>2, <3>3
  <2> HIDE DEF page
  <2>4. PageKept(TRUE, page)
    BY <1>2, <2>2, <2>3 DEF PageKept
  <2>5. Grown(TRUE, q, Append(q, page), Sum(page.grams))
    BY <2>2, <2>4, NextGrown
  <2> QED
    BY <2>1, <2>3, <2>5
<1> QED
  BY <1>3, <1>4

\* What one call stores after another.
LEMMA GrownTwice ==
  ASSUME SizesAssumption, NEW udp \in BOOLEAN, NEW q \in Seq(Pages), NEW r, NEW s,
         NEW by \in Int, NEW more \in Int, Grown(udp, q, r, by), Grown(udp, r, s, more)
  PROVE  Grown(udp, q, s, by + more)
<1>1. PICK k \in Nat, m \in Nat, l \in Nat : k = Len(q) /\ m = Len(r) /\ l = Len(s)
  BY DEF Grown
<1>2. /\ k <= m /\ m <= l
      /\ \A n \in 1 .. k : q[n] \in Pages
      /\ \A n \in 1 .. m : r[n] \in Pages
      /\ \A n \in 1 .. l : s[n] \in Pages
      /\ \A n \in 1 .. k : Grows(udp, q[n], r[n])
      /\ \A n \in 1 .. m : Grows(udp, r[n], s[n])
      /\ \A n \in k + 1 .. m : r[n].begin = 0 /\ PageKept(udp, r[n])
      /\ \A n \in m + 1 .. l : s[n].begin = 0 /\ PageKept(udp, s[n])
  BY <1>1 DEF Grown
<1>3. \A n \in 1 .. k : Grows(udp, q[n], s[n])
  <2> SUFFICES ASSUME NEW n \in 1 .. k PROVE Grows(udp, q[n], s[n])
    OBVIOUS
  <2>1. n \in 1 .. m /\ n \in 1 .. l
    BY <1>2
  <2>2. /\ Grows(udp, q[n], r[n]) /\ Grows(udp, r[n], s[n])
        /\ q[n].end \in Nat /\ r[n].end \in Nat /\ s[n].end \in Nat
    BY <1>2, <2>1 DEF Pages
  <2> QED
    BY <2>2, SMTT(30) DEF Grows
<1>4. ASSUME NEW n \in k + 1 .. l PROVE s[n].begin = 0 /\ PageKept(udp, s[n])
  <2>1. CASE n \in m + 1 .. l
    BY <1>2, <2>1
  <2>2. CASE n \in 1 .. m
    <3>1. n \in k + 1 .. m /\ n \in 1 .. l
      BY <1>2, <2>2
    <3>2. /\ Grows(udp, r[n], s[n]) /\ r[n].begin = 0 /\ PageKept(udp, r[n])
          /\ r[n] \in Pages /\ s[n] \in Pages
      BY <1>2, <2>2, <3>1
    <3>3. PageKept(udp, s[n])
      BY <3>2, GrowsKept
    <3> QED
      BY <3>2, <3>3 DEF Grows
  <2> QED
    BY <1>2, <2>1, <2>2
<1>5. Held(udp, s) = Held(udp, q) + (by + more)
  <2>1. Held(udp, q) \in Int
    BY ValuesAre
  <2> QED
    BY <2>1 DEF Grown
<1> QED
  BY <1>1, <1>2, <1>3, <1>4, <1>5 DEF Grown

\* The chunks that so many bytes need, and what the last of them holds.
LEMMA PagesNeeded ==
  ASSUME SizesAssumption, NEW rest \in Nat
  PROVE  LET pages == (rest + Chunk - 1) \div Chunk
             last  == rest - Chunk * (pages - 1)
         IN  /\ pages \in Nat
             /\ rest = 0 => pages = 0
             /\ rest # 0 => pages # 0 /\ last \in 1 .. Chunk
<1>1. Chunk \in Nat \ {0} /\ rest + Chunk - 1 \in Nat
  BY DEF SizesAssumption
<1>2. PICK pages : pages = (rest + Chunk - 1) \div Chunk
  OBVIOUS
<1>3. /\ pages \in Nat /\ Chunk * pages <= rest + Chunk - 1
      /\ rest + Chunk - 1 < Chunk * pages + Chunk
  BY <1>1, <1>2
<1>4. PICK times \in Nat : times = Chunk * pages
  BY <1>1, <1>3
<1>5. Chunk * (pages - 1) = times - Chunk
  BY <1>1, <1>3, <1>4
<1>6. (pages = 0 => times = 0) /\ (times = 0 => pages = 0)
  BY <1>1, <1>3, <1>4
<1>7. times <= rest + Chunk - 1 /\ rest + Chunk - 1 < times + Chunk
  BY <1>3, <1>4
<1>8. rest # 0 => pages # 0 /\ rest - (times - Chunk) \in 1 .. Chunk
  BY <1>1, <1>6, <1>7
<1>9. rest = 0 => pages = 0
  BY <1>1, <1>3
<1> QED
  BY <1>2, <1>3, <1>5, <1>8, <1>9

\* Chunks of a stream behind the others, all full but the last.
Full(pages, last, m) == [n \in 1 .. m |-> Page(IF n < pages THEN Chunk ELSE last, <<>>)]

LEMMA FullIs ==
  ASSUME SizesAssumption, NEW udp \in BOOLEAN, ~udp, NEW q \in Seq(Pages),
         NEW pages \in Nat \ {0}, NEW last \in 1 .. Chunk
  PROVE  Grown(udp, q, q \o Full(pages, last, pages), Chunk * (pages - 1) + last)
<1> DEFINE r == [m \in Nat |-> q \o Full(pages, last, m)]
           page == [m \in Nat |-> Page(IF m < pages THEN Chunk ELSE last, <<>>)]
           times == [m \in Nat |-> Chunk * m]
           S == {m \in Nat : m < pages => Grown(udp, q, r[m], times[m])}
<1>1. Chunk \in Nat \ {0} /\ pages - 1 \in Nat /\ last \in Nat \ {0} /\ last <= Chunk
  BY DEF SizesAssumption
<1>2. /\ times[0] = 0 /\ times[pages - 1] = Chunk * (pages - 1)
      /\ \A m \in Nat : times[m] \in Nat /\ times[m + 1] = times[m] + Chunk
  <2>1. \A m \in Nat : Chunk * m \in Nat /\ Chunk * (m + 1) = Chunk * m + Chunk
    BY <1>1
  <2>2. Chunk * 0 = 0
    BY <1>1
  <2> QED
    BY <1>1, <2>1, <2>2
<1>3. ASSUME NEW m \in Nat
      PROVE  /\ page[m] \in Pages /\ page[m].begin = 0 /\ page[m].grams = <<>>
             /\ page[m].end = IF m < pages THEN Chunk ELSE last
             /\ PageKept(udp, page[m])
  BY <1>1 DEF Page, Pages, PageKept
<1>4. \A m \in Nat : Full(pages, last, m) = [n \in 1 .. m |-> page[n]]
  BY DEF Full
<1> HIDE DEF page, times
<1>5. ASSUME NEW m \in Nat
      PROVE  /\ r[m] \in Seq(Pages) /\ r[m + 1] = Append(r[m], page[m + 1])
  <2> DEFINE f == [n \in 1 .. m |-> page[n]]
             g == [n \in 1 .. m + 1 |-> page[n]]
  <2>1. page[m + 1] \in Pages /\ \A n \in 1 .. m : page[n] \in Pages
    BY <1>3
  <2>2. f \in Seq(Pages) /\ g = Append(f, page[m + 1])
    BY <2>1
  <2>3. r[m] = q \o f /\ r[m + 1] = q \o g
    <3>1. m + 1 \in Nat
      OBVIOUS
    <3>2. Full(pages, last, m) = f /\ Full(pages, last, m + 1) = g
      BY <1>4, <3>1
    <3> HIDE DEF f, g
    <3> QED
      BY <3>1, <3>2
  <2> HIDE DEF f, g, r
  <2>4. q \o f \in Seq(Pages) /\ q \o Append(f, page[m + 1]) = Append(q \o f, page[m + 1])
    BY <2>1, <2>2, SMTT(30)
  <2> QED
    BY <2>2, <2>3, <2>4, Zenon
<1>6. r[0] = q
  BY DEF Full
<1> HIDE DEF r
<1>7. 0 \in S
  BY <1>2, <1>6, GrownNot
<1>8. ASSUME NEW m \in Nat, Grown(udp, q, r[m], times[m])
      PROVE  Grown(udp, q, r[m + 1], times[m] + page[m + 1].end)
  <2>1. m + 1 \in Nat
    OBVIOUS
  <2>2. Grown(udp, r[m], r[m + 1], page[m + 1].end)
    <3>1. /\ page[m + 1] \in Pages /\ page[m + 1].begin = 0 /\ PageKept(udp, page[m + 1])
          /\ r[m] \in Seq(Pages)
      BY <1>3, <1>5, <2>1
    <3>2. Grown(udp, r[m], Append(r[m], page[m + 1]),
                IF udp THEN Sum(page[m + 1].grams) ELSE page[m + 1].end)
      BY <3>1, NextGrown
    <3> QED
      BY <1>5, <3>2
  <2>3. page[m + 1].end \in Int /\ times[m] \in Int
    <3>1. page[m + 1] \in Pages /\ times[m] \in Nat
      BY <1>2, <1>3, <2>1
    <3> QED
      BY <3>1 DEF Pages
  <2> QED
    BY <1>8, <2>2, <2>3, GrownTwice
<1>9. ASSUME NEW m \in S PROVE m + 1 \in S
  <2>1. SUFFICES ASSUME m + 1 < pages PROVE Grown(udp, q, r[m + 1], times[m + 1])
    OBVIOUS
  <2>2. m \in Nat /\ Grown(udp, q, r[m], times[m])
    BY <2>1
  <2>3. page[m + 1].end = Chunk /\ times[m + 1] = times[m] + Chunk
    <3>1. m + 1 \in Nat /\ m \in Nat
      BY <2>2
    <3>2. page[m + 1].end = IF m + 1 < pages THEN Chunk ELSE last
      BY <1>3, <3>1, Zenon
    <3> QED
      BY <1>2, <2>1, <3>1, <3>2
  <2> QED
    BY <1>8, <2>2, <2>3
<1>10. S = Nat
  BY <1>7, <1>9, Induction
<1>11. PICK m \in Nat : m = pages - 1
  OBVIOUS
<1>12. m \in S
  BY <1>10
<1>13. Grown(udp, q, r[m], times[m])
  BY <1>11, <1>12
<1>14. page[m + 1].end = last /\ times[m] = Chunk * (pages - 1) /\ m + 1 = pages
  <2>1. m + 1 \in Nat /\ m + 1 = pages /\ ~(m + 1 < pages)
    BY <1>11
  <2>2. page[m + 1].end = IF m + 1 < pages THEN Chunk ELSE last
    BY <1>3, <2>1, Zenon
  <2>3. times[m] = Chunk * (pages - 1)
    BY <1>2, <1>11, Zenon
  <2> QED
    BY <2>1, <2>2, <2>3
<1>15. Grown(udp, q, r[m + 1], times[m] + page[m + 1].end)
  BY <1>8, <1>13
<1> QED
  BY <1>14, <1>15 DEF r

\* Bytes of a stream: on the last chunk what it has room for, the rest behind.
LEMMA StoredBytesIs ==
  ASSUME SizesAssumption, NEW udp \in BOOLEAN, ~udp, NEW q \in Seq(Pages),
         NEW len \in Lengths
  PROVE  Grown(udp, q, StoredBytes(q, len), len)
<1> DEFINE head == IF len < Room(q) THEN len ELSE Room(q)
           rest == len - head
           pages == (rest + Chunk - 1) \div Chunk
           last == rest - Chunk * (pages - 1)
           r == Topped(q, head, <<>>)
<1>1. PICK k \in Nat : k = Len(q)
  OBVIOUS
<1>2. len \in Nat \ {0} /\ Chunk \in Nat \ {0}
  BY DEF SizesAssumption, Lengths
<1>3. StoredBytes(q, len) = r \o Full(pages, last, pages)
  BY DEF StoredBytes, Full
<1>4. q # <<>> => k \in Nat \ {0} /\ q[k] \in Pages /\ Room(q) = Chunk - q[k].end
  BY <1>1 DEF Room
<1>5. q = <<>> => head = 0
  BY <1>2 DEF Room
<1>6. q # <<>> => q[k].end \in Nat /\ q[k].begin \in Nat /\ q[k].grams \in Seq(Lengths)
  BY <1>4 DEF Pages
<1>7. Room(q) \in Int /\ (q = <<>> => Room(q) = 0)
  <2>1. CASE q = <<>>
    BY <2>1 DEF Room
  <2>2. CASE q # <<>>
    BY <1>2, <1>4, <1>6, <2>2
  <2> QED
    BY <2>1, <2>2
<1>8. /\ head \in Int /\ rest \in Nat /\ rest + head = len /\ head <= Room(q)
      /\ Room(q) >= 0 => head >= 0
      /\ head = len \/ head = Room(q)
  BY <1>2, <1>7
<1>9. q # <<>> => q[k].end + head \in Nat
  <2> HIDE DEF head, rest
  <2> SUFFICES ASSUME q # <<>> PROVE q[k].end + head \in Nat
    OBVIOUS
  <2>1. PICK end \in Nat : end = q[k].end
    BY <1>6
  <2>2. head = len \/ head = Chunk - end
    BY <1>4, <1>8, <2>1
  <2>3. end + head \in Nat
    BY <1>2, <2>2
  <2> QED
    BY <2>1, <2>3
<1>10. pages \in Nat /\ (rest = 0 => pages = 0) /\ (rest # 0 => pages # 0 /\ last \in 1 .. Chunk)
  BY <1>8, PagesNeeded
<1>11. Chunk * (pages - 1) + last = rest
  <2>1. PICK full \in Int : full = Chunk * (pages - 1)
    BY <1>2, <1>10
  <2>2. last = rest - full
    BY <2>1
  <2> HIDE DEF last, rest
  <2>3. full + last = rest
    BY <1>8, <2>1, <2>2
  <2> QED
    BY <2>1, <2>3
<1> HIDE DEF head, rest, pages, last
<1>12. Grown(udp, q, r, head)
  <2>1. CASE head = 0
    <3>1. r = q
      BY <2>1 DEF Topped
    <3> QED
      BY <2>1, <3>1, GrownNot
  <2>2. CASE head # 0
    <3>1. /\ q # <<>> /\ k \in Nat \ {0} /\ q[k] \in Pages /\ Room(q) = Chunk - q[k].end
          /\ q[Len(q)].end + head \in Nat /\ head \in Int \ {0} /\ <<>> \in Seq(Lengths)
      BY <1>1, <1>4, <1>5, <1>8, <1>9, <2>2
    <3>2. /\ r \in Seq(Pages) /\ Len(r) = Len(q)
          /\ \A n \in 1 .. Len(q) - 1 : r[n] = q[n]
          /\ r[Len(q)].begin = q[Len(q)].begin
          /\ r[Len(q)].end = q[Len(q)].end + head
          /\ r[Len(q)].grams = q[Len(q)].grams \o <<>>
      BY <3>1, ToppedIs
    <3> HIDE DEF r
    <3>3. /\ Len(r) = k /\ \A n \in 1 .. k - 1 : r[n] = q[n]
          /\ r[k].begin = q[k].begin /\ r[k].end = q[k].end + head
          /\ r[k].grams = q[k].grams \o <<>>
      BY <1>1, <3>2, Zenon
    <3>4. ASSUME PageKept(udp, q[k]) PROVE PageKept(udp, r[k]) /\ q[k].end <= r[k].end
      <4>1. q[k].grams = <<>> /\ q[k].begin < q[k].end /\ q[k].end <= Chunk
        BY <3>4 DEF PageKept
      <4>2. head > 0
        BY <1>2, <1>6, <1>8, <3>1, <4>1
      <4>3. r[k].grams = <<>>
        BY <3>3, <4>1
      <4>4. r[k].begin < r[k].end /\ r[k].end <= Chunk /\ q[k].end <= r[k].end
        <5>1. PICK begin \in Nat, end \in Nat : begin = q[k].begin /\ end = q[k].end
          BY <1>6, <3>1
        <5>2. head <= Chunk - end /\ begin < end /\ r[k].begin = begin /\ r[k].end = end + head
          BY <1>8, <3>1, <3>3, <4>1, <5>1
        <5>3. begin < end + head /\ end + head <= Chunk /\ end <= end + head
          BY <1>2, <1>8, <4>2, <5>2, SMTT(30)
        <5> QED
          BY <5>1, <5>2, <5>3
      <4> QED
        BY <4>3, <4>4 DEF PageKept
    <3>5. Grows(udp, q[k], r[k])
      BY <3>3, <3>4 DEF Grows
    <3>6. IF udp THEN Sum(r[k].grams) = Sum(q[k].grams) + head
          ELSE r[k].end - r[k].begin = q[k].end - q[k].begin + head
      BY <1>6, <1>8, <3>1, <3>3, SMTT(30)
    <3> QED
      BY <1>1, <1>8, <3>1, <3>2, <3>3, <3>5, <3>6, LastGrown
  <2> QED
    BY <2>1, <2>2
<1>13. r \in Seq(Pages)
  BY <1>12 DEF Grown
<1> HIDE DEF r
<1>14. Grown(udp, r, r \o Full(pages, last, pages), rest)
  <2>1. CASE rest = 0
    <3>1. Full(pages, last, pages) = <<>>
      BY <1>10, <2>1 DEF Full
    <3>2. r \o Full(pages, last, pages) = r
      BY <1>13, <3>1
    <3> QED
      BY <1>13, <2>1, <3>2, GrownNot
  <2>2. CASE rest # 0
    <3>1. pages \in Nat \ {0} /\ last \in 1 .. Chunk /\ Chunk * (pages - 1) + last = rest
      BY <1>10, <1>11, <2>2
    <3>2. Grown(udp, r, r \o Full(pages, last, pages), Chunk * (pages - 1) + last)
      BY <1>13, <3>1, FullIs
    <3> QED
      BY <3>1, <3>2
  <2> QED
    BY <2>1, <2>2
<1>15. rest \in Int /\ head + rest = len
  BY <1>8
<1>16. Grown(udp, q, r \o Full(pages, last, pages), head + rest)
  BY <1>8, <1>12, <1>14, <1>15, GrownTwice
<1> QED
  BY <1>3, <1>15, <1>16

LEMMA StoredOnIs ==
  ASSUME SizesAssumption, NEW udp \in BOOLEAN, NEW q \in Seq(Pages), NEW len \in Lengths
  PROVE  Grown(udp, q, StoredOn(udp, q, len), len) /\ StoredOn(udp, q, len) \in Seq(Pages)
<1>1. CASE udp
  BY <1>1, StoredGramIs DEF StoredOn, Grown
<1>2. CASE ~udp
  BY <1>2, StoredBytesIs DEF StoredOn, Grown
<1> QED
  BY <1>1, <1>2

\* One buffer after the other.
LEMMA ChunksAre ==
  ASSUME SizesAssumption, NEW udp \in BOOLEAN, NEW q \in Seq(Pages), NEW bulk \in Seq(Lengths)
  PROVE  Grown(udp, q, Chunks(udp, q, bulk)[Len(bulk)], Sum(bulk))
<1> DEFINE N == Len(bulk)
           G == [x \in (1 .. N) \X Seq(Pages) |-> StoredOn(udp, x[2], bulk[x[1]])]
           c == Chunks(udp, q, bulk)
           S == {n \in Nat : n <= N => Grown(udp, q, c[n], Sums(bulk)[n])}
<1>1. N \in Nat /\ N = Len(bulk) /\ \A n \in 1 .. N : bulk[n] \in Lengths
  OBVIOUS
<1>2. /\ bulk \in Seq(Int) /\ Sums(bulk) \in [0 .. N -> Int] /\ Sums(bulk)[0] = 0
      /\ \A n \in 1 .. N : Sums(bulk)[n] = Sums(bulk)[n - 1] + bulk[n]
  <2>1. bulk \in Seq(Int)
    BY DEF Lengths
  <2> QED
    BY <2>1, SumsAre
<1> HIDE DEF N
<1>3. G \in [(1 .. N) \X Seq(Pages) -> Seq(Pages)]
  BY <1>1, StoredOnIs
<1>4. \A n \in 1 .. N : \A r \in Seq(Pages) : G[<<n, r>>] = StoredOn(udp, r, bulk[n])
  OBVIOUS
<1> HIDE DEF G
<1>5. PICK f \in [0 .. N -> Seq(Pages)] : Recursive(f, q, N, G)
  BY <1>1, <1>3, RecursiveExists
<1>6. f = [n \in 0 .. N |-> IF n = 0 THEN q ELSE StoredOn(udp, f[n - 1], bulk[n])]
  <2>1. f = [n \in 0 .. N |-> IF n = 0 THEN q ELSE G[<<n, f[n - 1]>>]]
    BY <1>5 DEF Recursive
  <2>2. \A n \in 0 .. N : n # 0 => n \in 1 .. N /\ f[n - 1] \in Seq(Pages)
    BY <1>1, <1>5, SMTT(30)
  <2> QED
    BY <1>4, <2>1, <2>2, Zenon
<1>7. c = [n \in 0 .. N |-> IF n = 0 THEN q ELSE StoredOn(udp, c[n - 1], bulk[n])]
  BY <1>1, <1>6 DEF Chunks
<1> HIDE DEF c
<1>8. c[0] = q /\ \A n \in 1 .. N : c[n] = StoredOn(udp, c[n - 1], bulk[n])
  <2>1. 0 \in 0 .. N /\ \A n \in 1 .. N : n \in 0 .. N /\ n # 0
    BY <1>1
  <2>2. \A n \in 0 .. N : c[n] = IF n = 0 THEN q ELSE StoredOn(udp, c[n - 1], bulk[n])
    BY <1>7, Zenon
  <2> QED
    BY <2>1, <2>2
<1>9. 0 \in S
  BY <1>2, <1>8, GrownNot
<1>10. ASSUME NEW n \in S PROVE n + 1 \in S
  <2>1. SUFFICES ASSUME n + 1 <= N PROVE Grown(udp, q, c[n + 1], Sums(bulk)[n + 1])
    OBVIOUS
  <2>2. n \in 0 .. N /\ n + 1 \in 1 .. N /\ (n + 1) - 1 = n
    BY <1>1, <2>1
  <2>3. Grown(udp, q, c[n], Sums(bulk)[n])
    BY <2>2
  <2>4. /\ c[n + 1] = StoredOn(udp, c[n], bulk[n + 1])
        /\ Sums(bulk)[n + 1] = Sums(bulk)[n] + bulk[n + 1]
        /\ c[n] \in Seq(Pages) /\ bulk[n + 1] \in Lengths /\ Sums(bulk)[n] \in Int
    <3>1. c[n] \in Seq(Pages)
      BY <2>3 DEF Grown
    <3> QED
      BY <1>1, <1>2, <1>8, <2>2, <3>1
  <2>5. Grown(udp, c[n], c[n + 1], bulk[n + 1])
    BY <2>4, StoredOnIs
  <2>6. bulk[n + 1] \in Int
    BY <2>4 DEF Lengths
  <2> QED
    BY <2>3, <2>4, <2>5, <2>6, GrownTwice
<1>11. S = Nat
  BY <1>9, <1>10, Induction
<1> QED
  BY <1>1, <1>11 DEF c, Sum

-----------------------------------------------------------------------------
(* The data of a pin: what is stored, given to the port and reported sent  *)
(* keeps it whole.  The chunks behind the first begin at 0 and hold what   *)
(* their ends and headers say; the first may be given to the port.         *)

\* The first chunk is that of a datagram which the port was given.
Flying(p) == p.udp /\ p.queue # <<>> /\ Head(p.queue).begin = p.from /\ p.from > 0

\* The first chunk has the bytes of that datagram before its headers.
FirstKept(p) ==
  IF Flying(p)
  THEN /\ p.len > 0
       /\ Head(p.queue).end - Head(p.queue).begin = Weight(Head(p.queue).grams) + p.len
  ELSE PageKept(p.udp, Head(p.queue))

DataShape(p) ==
  /\ p.udp \in BOOLEAN /\ p.queue \in Seq(Pages)
  /\ p.from \in Nat /\ p.len \in Nat /\ p.taken \in Int /\ p.sent \in Int

\* Nothing is lost: the first chunk and the others hold what was not yet sent.
Whole(p) ==
  /\ DataShape(p)
  /\ p.udp /\ p.from = 0 => p.len = 0
  /\ p.queue # <<>> => FirstKept(p)
  /\ \A n \in 2 .. Len(p.queue) : p.queue[n].begin = 0 /\ PageKept(p.udp, p.queue[n])
  /\ p.taken - p.sent = InFlight(p) + Held(p.udp, p.queue)

\* What the port was given is in the first chunk.
Given(p) ==
  /\ p.queue # <<>> /\ Head(p.queue).begin = p.from
  /\ p.len > 0 /\ p.from + p.len <= Head(p.queue).end
  /\ p.udp => p.from > 0

\* While a send is asked the chunk is as it was given; and in on_send nothing is
\* given, or what is stored there would be sent from behind a header.
DataInv(i) ==
  /\ Whole(pin[i])
  /\ asked[<<i, "send">>] = i => Given(pin[i])
  /\ "send" \in pin[i].invoking => ~Flying(pin[i])

LEMMA FlightIs ==
  ASSUME NEW p, DataShape(p), p.udp /\ p.from = 0 => p.len = 0
  PROVE  InFlight(p) = IF Flying(p) THEN p.len ELSE 0
BY DEF InFlight, Flying, DataShape

LEMMA QueueIs ==
  ASSUME NEW q \in Seq(Pages), q # <<>>
  PROVE  /\ Len(q) \in Nat \ {0} /\ Head(q) = q[1] /\ q[1] \in Pages
         /\ Tail(q) \in Seq(Pages) /\ Len(Tail(q)) = Len(q) - 1
         /\ \A n \in 1 .. Len(q) - 1 : Tail(q)[n] = q[n + 1]
OBVIOUS

\* The edits of a pin that leave its data alone.
SameData(q, p) ==
  /\ q.udp = p.udp /\ q.queue = p.queue /\ q.from = p.from /\ q.len = p.len
  /\ q.taken = p.taken /\ q.sent = p.sent

LEMMA SameWhole ==
  ASSUME NEW p, NEW q, SameData(q, p)
  PROVE  /\ Whole(p) => Whole(q)
         /\ Given(p) => Given(q)
         /\ Flying(q) = Flying(p)
<1>1. Flying(q) = Flying(p) /\ InFlight(q) = InFlight(p)
  BY DEF SameData, Flying, InFlight
<1>2. FirstKept(p) => FirstKept(q)
  BY <1>1 DEF SameData, FirstKept
<1>3. Whole(p) => Whole(q)
  BY <1>1, <1>2 DEF SameData, Whole, DataShape
<1> QED
  BY <1>1, <1>3 DEF SameData, Given

LEMMA StoredKeeps ==
  ASSUME SizesAssumption, NEW p, IsPin(p), Whole(p), NEW bulk \in Seq(Lengths),
         NEW r \in BOOLEAN
  PROVE  LET q == [Stored(p, bulk) EXCEPT !.refused = r]
         IN  /\ Whole(q)
             /\ Given(p) => Given(q)
             /\ Flying(q) <=> Flying(p)
             /\ bulk # <<>> => q.queue # <<>>
<1> DEFINE q == [Stored(p, bulk) EXCEPT !.refused = r]
           new == Chunks(p.udp, p.queue, bulk)[Len(bulk)]
<1>1. /\ q.queue = new /\ q.taken = p.taken + Sum(bulk)
      /\ q.udp = p.udp /\ q.from = p.from /\ q.len = p.len /\ q.sent = p.sent
  BY DEF Stored, IsPin, Fields
<1>2. p.udp \in BOOLEAN /\ p.queue \in Seq(Pages)
  BY DEF Whole, DataShape
<1>3. Grown(p.udp, p.queue, new, Sum(bulk))
  BY <1>2, ChunksAre
<1>4. Sum(bulk) \in Nat
  BY WeightIs
<1> HIDE DEF new, q
<1>5. new \in Seq(Pages) /\ Len(p.queue) <= Len(new) /\ Len(p.queue) \in Nat /\ Len(new) \in Nat
  BY <1>2, <1>3 DEF Grown
<1>6. DataShape(q)
  BY <1>1, <1>4, <1>5 DEF Whole, DataShape
<1>7. \A n \in Len(p.queue) + 1 .. Len(new) : new[n].begin = 0 /\ PageKept(p.udp, new[n])
  BY <1>3 DEF Grown
<1>8. \A n \in 1 .. Len(p.queue) :
        /\ Grows(p.udp, p.queue[n], new[n])
        /\ p.queue[n] \in Pages /\ new[n] \in Pages
  BY <1>2, <1>3, <1>5 DEF Grown
<1>9. p.queue = <<>> /\ new # <<>> => Head(new).begin = 0 /\ PageKept(p.udp, Head(new))
  BY <1>5, <1>7
<1>10. p.queue # <<>> =>
         /\ new # <<>> /\ Head(p.queue) \in Pages /\ Head(new) \in Pages
         /\ Grows(p.udp, Head(p.queue), Head(new)) /\ FirstKept(p)
  <2>1. p.queue # <<>> =>
          1 \in 1 .. Len(p.queue) /\ new # <<>> /\ Head(p.queue) = p.queue[1] /\ Head(new) = new[1]
    BY <1>2, <1>5
  <2> QED
    BY <1>8, <2>1 DEF Whole
<1>11. Flying(q) <=> Flying(p)
  <2>1. CASE p.queue = <<>>
    BY <1>1, <1>9, <2>1 DEF Flying
  <2>2. CASE p.queue # <<>>
    BY <1>1, <1>10, <2>2 DEF Flying, Grows
  <2> QED
    BY <2>1, <2>2
<1>12. InFlight(q) = InFlight(p)
  BY <1>1, <1>6, <1>11, FlightIs DEF Whole
<1>13. new # <<>> => FirstKept(q)
  <2>1. CASE p.queue = <<>>
    BY <1>1, <1>9, <1>11, <2>1 DEF FirstKept, Flying
  <2>2. CASE p.queue # <<>> /\ ~Flying(p)
    BY <1>1, <1>2, <1>10, <1>11, <2>2, GrowsKept DEF FirstKept
  <2>3. CASE p.queue # <<>> /\ Flying(p)
    <3> DEFINE u == Head(p.queue)
               v == Head(new)
    <3>1. /\ p.udp /\ u \in Pages /\ v \in Pages /\ p.len > 0
          /\ v.end - Weight(v.grams) = u.end - Weight(u.grams)
          /\ u.end - u.begin = Weight(u.grams) + p.len
          /\ v.begin = u.begin
      BY <1>10, <2>3 DEF FirstKept, Grows, Flying
    <3> HIDE DEF u, v
    <3>2. u.grams \in Seq(Lengths) /\ v.grams \in Seq(Lengths) /\ p.len \in Nat
      BY <3>1 DEF Pages, Whole, DataShape
    <3>3. PICK a \in Nat, b \in Nat, c \in Nat, d \in Nat, e \in Nat, l \in Nat :
            /\ a = v.end /\ b = Weight(v.grams) /\ c = u.end /\ d = Weight(u.grams)
            /\ e = u.begin /\ l = p.len
      BY <3>1, <3>2, WeightIs DEF Pages
    <3>4. a - b = c - d /\ c - e = d + l
      BY <3>1, <3>3
    <3>5. a - e = b + l
      BY <3>4
    <3>6. v.end - v.begin = Weight(v.grams) + p.len
      BY <3>1, <3>3, <3>5
    <3> QED
      BY <1>1, <1>11, <2>3, <3>1, <3>6 DEF FirstKept, u, v
  <2> QED
    BY <2>1, <2>2, <2>3
<1>14. \A n \in 2 .. Len(new) : new[n].begin = 0 /\ PageKept(p.udp, new[n])
  <2> SUFFICES ASSUME NEW n \in 2 .. Len(new)
               PROVE  new[n].begin = 0 /\ PageKept(p.udp, new[n])
    OBVIOUS
  <2>1. CASE n \in 1 .. Len(p.queue)
    <3>1. p.queue[n].begin = 0 /\ PageKept(p.udp, p.queue[n])
      BY <2>1 DEF Whole
    <3> QED
      BY <1>2, <1>8, <2>1, <3>1, GrowsKept DEF Grows
  <2>2. CASE n \in Len(p.queue) + 1 .. Len(new)
    BY <1>7, <2>2
  <2> QED
    BY <1>5, <2>1, <2>2
<1>15. q.taken - q.sent = InFlight(q) + Held(q.udp, q.queue)
  <2>1. Held(p.udp, p.queue) \in Int /\ Held(q.udp, q.queue) = Held(p.udp, p.queue) + Sum(bulk)
    BY <1>1, <1>2, <1>3, ValuesAre DEF Grown
  <2>2. p.taken - p.sent = InFlight(p) + Held(p.udp, p.queue) /\ InFlight(p) \in Int
    BY FlightIs DEF Whole, DataShape
  <2>3. p.taken \in Int /\ p.sent \in Int
    BY DEF Whole, DataShape
  <2>4. PICK t \in Int : t = p.taken
    BY <2>3, Zenon
  <2>5. PICK s \in Int : s = p.sent
    BY <2>3, Zenon
  <2>6. PICK f \in Int : f = InFlight(p)
    BY <2>2, Zenon
  <2>7. PICK h \in Int : h = Held(p.udp, p.queue)
    BY <2>1, Zenon
  <2>8. PICK b \in Nat : b = Sum(bulk)
    BY <1>4, Zenon
  <2>9. t - s = f + h
    BY <2>2, <2>4, <2>5, <2>6, <2>7, Zenon
  <2>10. (t + b) - s = f + (h + b)
    BY <2>9, SMT
  <2>11. /\ q.taken = t + b /\ q.sent = s /\ InFlight(q) = f
         /\ Held(q.udp, q.queue) = h + b
    BY <1>1, <1>12, <2>1, <2>4, <2>5, <2>6, <2>7, <2>8, Zenon
  <2> QED
    BY <2>10, <2>11, Zenon
<1>16. Whole(q)
  <2>1. q.udp /\ q.from = 0 => q.len = 0
    BY <1>1 DEF Whole
  <2> QED
    BY <1>1, <1>6, <1>13, <1>14, <1>15, <2>1 DEF Whole
<1>17. Given(p) => Given(q)
  <2> SUFFICES ASSUME Given(p) PROVE Given(q)
    OBVIOUS
  <2>1. /\ new # <<>> /\ Head(new).begin = Head(p.queue).begin
        /\ Head(p.queue).end <= Head(new).end
    BY <1>2, <1>10 DEF Given, Grows, FirstKept, Flying
  <2>2. Head(new).end \in Nat /\ Head(p.queue).end \in Nat /\ p.from \in Nat /\ p.len \in Nat
    BY <1>10 DEF Given, Pages, Whole, DataShape
  <2>3. p.from + p.len <= Head(new).end
    BY <2>1, <2>2 DEF Given
  <2> QED
    BY <1>1, <2>1, <2>3 DEF Given
<1>18. bulk # <<>> => new # <<>>
  <2> SUFFICES ASSUME bulk # <<>>, new = <<>> PROVE FALSE
    OBVIOUS
  <2>1. p.queue = <<>>
    BY <1>10
  <2>2. Sum(bulk) = 0
    <3>1. Held(p.udp, new) = Held(p.udp, p.queue) + Sum(bulk) /\ new = p.queue
      BY <1>3, <2>1 DEF Grown
    <3>2. PICK h \in Int : h = Held(p.udp, p.queue)
      BY <1>2, ValuesAre
    <3>3. h = h + Sum(bulk)
      BY <3>1, <3>2, Zenon
    <3> QED
      BY <1>4, <3>3
  <2>3. /\ bulk[1] \in Nat \ {0} /\ Tail(bulk) \in Seq(Lengths) /\ bulk \in Seq(Int)
    BY DEF Lengths
  <2>4. Sum(bulk) = bulk[1] + Sum(Tail(bulk)) /\ Sum(Tail(bulk)) \in Nat
    BY <2>3, SumFirst, WeightIs
  <2> QED
    BY <2>2, <2>3, <2>4
<1> QED
  BY <1>1, <1>11, <1>16, <1>17, <1>18 DEF q

\* The first chunk is another, and it is taken away.
LEMMA FirstChanged ==
  ASSUME SizesAssumption, NEW udp \in BOOLEAN, NEW q \in Seq(Pages), q # <<>>, NEW page \in Pages
  PROVE  LET r == [q EXCEPT ![1] = page]
         IN  /\ r \in Seq(Pages) /\ Len(r) = Len(q) /\ r # <<>> /\ Head(r) = page
             /\ \A n \in 2 .. Len(q) : r[n] = q[n]
             /\ Held(udp, r) - Held(udp, q) = Value(udp, page) - Value(udp, Head(q))
             /\ Held(udp, r) \in Int
<1> DEFINE r == [q EXCEPT ![1] = page]
           x == Values(udp, q)
           y == Values(udp, r)
<1>1. PICK k \in Nat \ {0} : k = Len(q)
  OBVIOUS
<1>2. 1 \in 1 .. Len(q) /\ Head(q) = q[1] /\ page \in Pages /\ q \in Seq(Pages)
  BY <1>1
<1>3. /\ r \in Seq(Pages) /\ Len(r) = Len(q)
      /\ \A n \in 1 .. Len(q) : r[n] = IF n = 1 THEN page ELSE q[n]
  BY <1>2, SMT
<1> HIDE DEF r
<1>4. \A n \in 2 .. k : n \in 1 .. k /\ n # 1
  OBVIOUS
<1>5. Len(r) = k /\ r[1] = page /\ \A n \in 2 .. k : r[n] = q[n]
  BY <1>1, <1>2, <1>3, <1>4
<1>6. r # <<>> /\ Head(r) = page
  BY <1>3, <1>5
<1>7. /\ x \in Seq(Int) /\ Len(x) = k /\ \A n \in 1 .. k : x[n] = Value(udp, q[n])
      /\ y \in Seq(Int) /\ Len(y) = k /\ \A n \in 1 .. k : y[n] = Value(udp, r[n])
      /\ Held(udp, q) = Sum(x) /\ Held(udp, r) = Sum(y) /\ Held(udp, r) \in Int
  <2>1. k = Len(q) /\ k = Len(r) /\ r \in Seq(Pages)
    BY <1>1, <1>3, <1>5
  <2> HIDE DEF r
  <2>2. /\ x \in Seq(Int) /\ Len(x) = k /\ \A n \in 1 .. k : x[n] = Value(udp, q[n])
        /\ Held(udp, q) = Sum(x)
    BY <2>1, ValuesOf
  <2>3. /\ y \in Seq(Int) /\ Len(y) = k /\ \A n \in 1 .. k : y[n] = Value(udp, r[n])
        /\ Held(udp, r) = Sum(y) /\ Held(udp, r) \in Int
    BY <2>1, ValuesOf
  <2> QED
    BY <2>2, <2>3
<1> HIDE DEF x, y
<1>8. \A n \in 2 .. k : y[n] = x[n]
  BY <1>4, <1>5, <1>7, Zenon
<1>9. Sum(y) - Sum(x) = y[1] - x[1]
  BY <1>7, <1>8, SumFirstChanged
<1>10. y[1] = Value(udp, page) /\ x[1] = Value(udp, Head(q))
  BY <1>1, <1>2, <1>5, <1>7
<1> QED
  BY <1>1, <1>3, <1>5, <1>6, <1>7, <1>9, <1>10, Zenon DEF r

LEMMA FirstTaken ==
  ASSUME SizesAssumption, NEW udp \in BOOLEAN, NEW q \in Seq(Pages), q # <<>>
  PROVE  /\ Held(udp, q) = Value(udp, Head(q)) + Held(udp, Tail(q))
         /\ Held(udp, Tail(q)) \in Int
<1> DEFINE r == Tail(q)
           x == Values(udp, q)
           y == Values(udp, r)
<1>1. PICK k \in Nat : k + 1 = Len(q)
  <2>1. Len(q) \in Nat \ {0} /\ Len(q) - 1 \in Nat /\ (Len(q) - 1) + 1 = Len(q)
    OBVIOUS
  <2> QED
    BY <2>1, Zenon
<1>2. /\ r \in Seq(Pages) /\ Len(r) = k /\ Head(q) = q[1]
      /\ \A n \in 1 .. k : r[n] = q[n + 1] /\ n + 1 \in 1 .. k + 1
  BY <1>1
<1> HIDE DEF r
<1>3. /\ x \in Seq(Int) /\ Len(x) = k + 1 /\ \A n \in 1 .. k + 1 : x[n] = Value(udp, q[n])
      /\ y \in Seq(Int) /\ Len(y) = k /\ \A n \in 1 .. k : y[n] = Value(udp, r[n])
      /\ Held(udp, q) = Sum(x) /\ Held(udp, r) = Sum(y) /\ Held(udp, r) \in Int
  <2>1. /\ x \in Seq(Int) /\ Len(x) = k + 1 /\ \A n \in 1 .. k + 1 : x[n] = Value(udp, q[n])
        /\ Held(udp, q) = Sum(x)
    BY <1>1, ValuesOf
  <2>2. /\ y \in Seq(Int) /\ Len(y) = k /\ \A n \in 1 .. k : y[n] = Value(udp, r[n])
        /\ Held(udp, r) = Sum(y) /\ Held(udp, r) \in Int
    <3>1. r \in Seq(Pages) /\ Len(r) = k
      BY <1>2
    <3> QED
      BY <3>1, ValuesOf, Zenon
  <2> QED
    BY <2>1, <2>2
<1> HIDE DEF x, y
<1>4. x # <<>> /\ Tail(x) \in Seq(Int) /\ Len(Tail(x)) = k /\ 1 \in 1 .. k + 1
      /\ \A n \in 1 .. k : Tail(x)[n] = x[n + 1]
  BY <1>3
<1>5. \A n \in 1 .. k : Tail(x)[n] = y[n]
  BY <1>2, <1>3, <1>4, ZenonT(30)
<1>6. Tail(x) = y
  BY <1>3, <1>4, <1>5, SeqEqual
<1>7. Sum(x) = x[1] + Sum(Tail(x))
  BY <1>3, <1>4, SumFirst
<1> QED
  BY <1>2, <1>3, <1>4, <1>6, <1>7, Zenon DEF r

\* The first chunk is given to the port, when none of it is there.
LEMMA SendingKeeps ==
  ASSUME SizesAssumption, NEW p, IsPin(p), Whole(p), p.queue # <<>>, ~Flying(p)
  PROVE  LET q == Sending(p) IN Whole(q) /\ Given(q)
<1> DEFINE q == Sending(p)
           top == Head(p.queue)
           at == IF p.udp THEN top.begin + Header ELSE top.begin
           grams == IF p.udp THEN Tail(top.grams) ELSE top.grams
           page == [top EXCEPT !.begin = at, !.grams = grams]
           len == IF p.udp THEN Head(top.grams) ELSE top.end - at
<1>1. /\ p.udp \in BOOLEAN /\ p.queue \in Seq(Pages) /\ top \in Pages /\ PageKept(p.udp, top)
      /\ \A n \in 2 .. Len(p.queue) : p.queue[n].begin = 0 /\ PageKept(p.udp, p.queue[n])
      /\ p.taken \in Int /\ p.sent \in Int
      /\ p.taken - p.sent = InFlight(p) + Held(p.udp, p.queue)
  BY QueueIs DEF Whole, DataShape, FirstKept
<1>2. InFlight(p) = 0
  BY FlightIs DEF Whole
<1>3. top.begin \in Nat /\ top.end \in Nat /\ top.grams \in Seq(Lengths) /\ Header \in Nat \ {0}
  BY <1>1 DEF Pages, SizesAssumption
<1>4. /\ q.udp = p.udp /\ q.taken = p.taken /\ q.sent = p.sent
      /\ q.from = at /\ q.len = len /\ q.queue = [p.queue EXCEPT ![1] = page]
  <2>1. Head(p.queue) = p.queue[1] /\ 1 \in DOMAIN p.queue
    BY <1>1, QueueIs
  <2>2. /\ q.udp = p.udp /\ q.taken = p.taken /\ q.sent = p.sent
        /\ q.from = at /\ q.len = len
    BY DEF Sending, IsPin, Fields
  <2>3. q.queue = [p.queue EXCEPT ![1].begin = at,
                                  ![1].grams = IF p.udp THEN Tail(@) ELSE @]
    BY DEF Sending, IsPin, Fields
  <2>4. [p.queue EXCEPT ![1].begin = at, ![1].grams = IF p.udp THEN Tail(@) ELSE @]
        = [p.queue EXCEPT ![1] = page]
    <3>1. [p.queue EXCEPT ![1].begin = at, ![1].grams = IF p.udp THEN Tail(@) ELSE @]
          = [p.queue EXCEPT ![1].begin = at, ![1].grams = grams]
      BY <1>1, <2>1 DEF Pages
    <3> HIDE DEF at, grams
    <3> QED
      BY <2>1, <3>1
  <2> HIDE DEF q, at, page
  <2> QED
    BY <2>2, <2>3, <2>4
<1>5. p.udp => /\ Head(top.grams) \in Lengths /\ Tail(top.grams) \in Seq(Lengths)
               /\ Sum(top.grams) = Head(top.grams) + Sum(Tail(top.grams))
               /\ Weight(top.grams) = Head(top.grams) + Header + Weight(Tail(top.grams))
               /\ Sum(Tail(top.grams)) \in Nat /\ Weight(Tail(top.grams)) \in Nat
  BY <1>1, <1>3, WeightTaken, WeightIs DEF PageKept
<1> HIDE DEF q, top
<1>6. CASE p.udp
  <2>1. PICK b \in Nat, e \in Nat : b = top.begin /\ e = top.end
    BY <1>3, Zenon
  <2>2. PICK g \in Nat, s \in Nat, w \in Nat :
          g = Head(top.grams) /\ s = Sum(Tail(top.grams)) /\ w = Weight(Tail(top.grams))
    <3>1. Head(top.grams) \in Nat
      BY <1>5, <1>6 DEF Lengths
    <3> QED
      BY <1>5, <1>6, <3>1, Zenon
  <2>3. /\ e - b = g + Header + w /\ g > 0 /\ Sum(top.grams) = g + s
        /\ at = b + Header /\ len = g /\ at \in Nat /\ at # 0
    <3>1. e - b = Weight(top.grams)
      BY <1>1, <1>6, <2>1 DEF PageKept
    <3>2. Weight(top.grams) = g + Header + w /\ Sum(top.grams) = g + s /\ g > 0
      BY <1>5, <1>6, <2>2 DEF Lengths
    <3>3. at = b + Header /\ len = g
      BY <1>6, <2>1, <2>2
    <3> HIDE DEF at, len
    <3>4. at \in Nat /\ at # 0
      BY <1>3, <2>1, <3>3
    <3> QED
      BY <3>1, <3>2, <3>3, <3>4
  <2>4. page \in Pages /\ page.begin = at /\ page.end = e /\ page.grams = Tail(top.grams)
    <3>1. grams = Tail(top.grams) /\ grams \in Seq(Lengths)
      BY <1>5, <1>6
    <3> HIDE DEF at, grams, len
    <3> QED
      BY <1>1, <2>1, <2>3, <3>1 DEF Pages
  <2> HIDE DEF page, at, len
  <2>5. /\ q.queue \in Seq(Pages) /\ Len(q.queue) = Len(p.queue) /\ q.queue # <<>>
        /\ Head(q.queue) = page /\ \A n \in 2 .. Len(p.queue) : q.queue[n] = p.queue[n]
        /\ Held(p.udp, q.queue) - Held(p.udp, p.queue) = Value(p.udp, page) - Value(p.udp, top)
        /\ Held(p.udp, q.queue) \in Int
    BY <1>1, <1>4, <2>4, FirstChanged DEF top
  <2>6. Value(p.udp, page) = s /\ Value(p.udp, top) = g + s
    BY <1>6, <2>2, <2>3, <2>4 DEF Value
  <2>7. Flying(q) /\ FirstKept(q)
    <3>1. Flying(q)
      <4>1. at > 0
        BY <2>3
      <4> QED
        BY <1>4, <1>6, <2>4, <2>5, <4>1 DEF Flying
    <3>2. e - at = w + g
      <4>1. at = b + Header /\ e - b = g + Header + w
        BY <2>3, Zenon
      <4>2. b \in Nat /\ e \in Nat /\ g \in Nat /\ w \in Nat /\ Header \in Nat
        BY <1>3, <2>1, <2>2
      <4>3. e - (b + Header) = w + g
        BY <4>1, <4>2
      <4> QED
        BY <4>1, <4>3, Zenon
    <3>3. Head(q.queue).end - Head(q.queue).begin = Weight(Head(q.queue).grams) + q.len
      BY <1>4, <2>2, <2>3, <2>4, <2>5, <3>2
    <3> QED
      BY <1>4, <2>3, <3>1, <3>3 DEF FirstKept
  <2>8. DataShape(q) /\ q.from # 0
    BY <1>1, <1>4, <2>3, <2>5 DEF DataShape
  <2>9. q.taken - q.sent = InFlight(q) + Held(q.udp, q.queue)
    <3>1. InFlight(q) = g
      BY <1>4, <2>3, <2>7, <2>8, FlightIs
    <3>2. PICK h \in Int : h = Held(p.udp, p.queue)
      BY <1>1, ValuesAre
    <3>3. PICK k \in Int : k = Held(p.udp, q.queue)
      BY <2>5, Zenon
    <3>4. k - h = s - (g + s)
      BY <2>5, <2>6, <3>2, <3>3, Zenon
    <3>5. g + k = 0 + h
      BY <3>4
    <3> QED
      BY <1>1, <1>2, <1>4, <3>1, <3>2, <3>3, <3>5, Zenon
  <2>10. Whole(q)
    BY <1>1, <1>4, <2>5, <2>7, <2>8, <2>9 DEF Whole
  <2>11. Given(q)
    <3>1. at + len <= e /\ len > 0 /\ at > 0
      BY <1>3, <2>3
    <3> QED
      BY <1>4, <2>4, <2>5, <3>1 DEF Given
  <2> QED
    BY <2>10, <2>11 DEF q
<1>7. CASE ~p.udp
  <2>1. page = top /\ at = top.begin /\ len = top.end - top.begin /\ len > 0 /\ len \in Nat
    <3>1. grams = top.grams /\ at = top.begin /\ len = top.end - at
      BY <1>7
    <3>2. top.begin < top.end
      BY <1>1, <1>7 DEF PageKept
    <3> HIDE DEF grams, at, len
    <3>3. page = top
      BY <1>1, <3>1 DEF Pages
    <3>4. top.end - top.begin > 0 /\ top.end - top.begin \in Nat
      BY <1>3, <3>2
    <3> QED
      BY <3>1, <3>3, <3>4
  <2> HIDE DEF page, at, len
  <2>2. q.queue = p.queue
    BY <1>1, <1>4, <2>1 DEF top
  <2>3. ~Flying(q) /\ FirstKept(q) /\ InFlight(q) = 0
    BY <1>1, <1>4, <1>7, <2>2 DEF Flying, FirstKept, InFlight, top
  <2>4. DataShape(q)
    BY <1>1, <1>3, <1>4, <2>1, <2>2 DEF DataShape
  <2>5. Whole(q)
    BY <1>1, <1>2, <1>4, <1>7, <2>2, <2>3, <2>4 DEF Whole
  <2>6. Given(q)
    <3>1. at + len <= top.end
      BY <1>3, <2>1
    <3> QED
      BY <1>4, <1>7, <2>1, <2>2, <3>1 DEF Given, top
  <2> QED
    BY <2>5, <2>6 DEF q
<1> QED
  BY <1>1, <1>6, <1>7

\* What the port has sent is taken off: the chunk, or bytes at its begin.
LEMMA SentKeeps ==
  ASSUME SizesAssumption, NEW p, IsPin(p), Whole(p), Given(p), NEW n \in 1 .. p.len
  PROVE  LET q == Sent(p, n) IN Whole(q) /\ ~Flying(q)
<1> DEFINE q == Sent(p, n)
           top == Head(p.queue)
           by == IF p.udp THEN p.len ELSE n
           at == top.begin + by
           page == [top EXCEPT !.begin = at]
<1>1. /\ p.udp \in BOOLEAN /\ p.queue \in Seq(Pages) /\ p.queue # <<>>
      /\ top \in Pages /\ top = p.queue[1] /\ 1 \in DOMAIN p.queue
      /\ \A m \in 2 .. Len(p.queue) : p.queue[m].begin = 0 /\ PageKept(p.udp, p.queue[m])
      /\ p.taken \in Int /\ p.sent \in Int /\ p.from \in Nat /\ p.len \in Nat
      /\ p.taken - p.sent = InFlight(p) + Held(p.udp, p.queue)
  BY QueueIs DEF Whole, Given, DataShape
<1>2. /\ top.begin \in Nat /\ top.end \in Nat /\ top.grams \in Seq(Lengths)
      /\ top.begin = p.from /\ p.from + p.len <= top.end
      /\ p.udp => p.from > 0
  BY <1>1 DEF Pages, Given
<1>3. PICK b \in Nat, e \in Nat, l \in Nat : b = top.begin /\ e = top.end /\ l = p.len
  BY <1>1, <1>2, Zenon
<1>4. /\ by \in Nat /\ by > 0 /\ by <= l /\ at = b + by /\ at \in Nat /\ at > b /\ at <= e
      /\ b = p.from
  <2>1. /\ b = p.from /\ b + l <= e /\ at = b + by /\ n \in 1 .. l
        /\ by = IF p.udp THEN l ELSE n
    BY <1>3, <1>2
  <2> HIDE DEF by, at
  <2>2. by \in Nat /\ by > 0 /\ by <= l
    BY <1>3, <2>1
  <2> QED
    BY <1>3, <2>1, <2>2
<1>5. PICK c \in Nat, d \in Nat : c = by /\ d = at
  BY <1>4, Zenon
<1>6. c > 0 /\ d = b + c /\ d > b /\ d <= e
  BY <1>4, <1>5, Zenon
<1>7. PICK t \in Int, s \in Int : t = p.taken /\ s = p.sent
  BY <1>1, Zenon
<1>8. /\ q.udp = p.udp /\ q.taken = p.taken /\ q.sent = p.sent + by
      /\ q.from = p.from /\ q.len = p.len
      /\ q.queue = IF at = top.end THEN Tail(p.queue) ELSE [p.queue EXCEPT ![1] = page]
  <2>1. /\ q.udp = p.udp /\ q.taken = p.taken /\ q.sent = p.sent + by
        /\ q.from = p.from /\ q.len = p.len
    BY DEF Sent, IsPin, Fields
  <2>2. q.queue = IF at = top.end THEN Tail(p.queue)
                  ELSE [p.queue EXCEPT ![1].begin = at]
    BY DEF Sent, IsPin, Fields
  <2> QED
    BY <1>1, <2>1, <2>2
<1>9. page \in Pages /\ page.begin = at /\ page.end = top.end /\ page.grams = top.grams
  BY <1>1, <1>4 DEF Pages
<1> HIDE DEF page, q
<1>10. /\ p.udp => Flying(p) /\ top.end - top.begin = Weight(top.grams) + by
       /\ ~p.udp => ~Flying(p) /\ top.grams = <<>> /\ top.end <= Chunk
  BY <1>1, <1>2 DEF Whole, FirstKept, Flying, PageKept
<1>11. InFlight(p) = IF p.udp THEN by ELSE 0
  BY <1>10, FlightIs DEF Whole
<1>12. /\ q.queue \in Seq(Pages)
       /\ \A m \in 2 .. Len(q.queue) : q.queue[m].begin = 0 /\ PageKept(p.udp, q.queue[m])
       /\ q.queue # <<>> => Head(q.queue).begin # p.from \/ ~p.udp
       /\ q.queue # <<>> => PageKept(p.udp, Head(q.queue))
       /\ p.taken - (p.sent + by) = Held(p.udp, q.queue)
  <2>1. CASE at = top.end
    <3>1. PICK rest \in Seq(Pages) : rest = Tail(p.queue)
      BY <1>1, QueueIs
    <3>2. /\ q.queue = rest /\ Len(rest) = Len(p.queue) - 1
          /\ \A m \in 1 .. Len(p.queue) - 1 : rest[m] = p.queue[m + 1]
      BY <1>1, <1>8, <2>1, <3>1, QueueIs
    <3>3. \A m \in 1 .. Len(rest) : rest[m].begin = 0 /\ PageKept(p.udp, rest[m])
      <4> SUFFICES ASSUME NEW m \in 1 .. Len(rest)
                   PROVE  rest[m].begin = 0 /\ PageKept(p.udp, rest[m])
        OBVIOUS
      <4>1. m \in 1 .. Len(p.queue) - 1 /\ m + 1 \in 2 .. Len(p.queue)
        BY <1>1, <3>2
      <4> QED
        BY <1>1, <3>2, <4>1
    <3>4. rest # <<>> => Head(rest) = rest[1] /\ 1 \in 1 .. Len(rest)
      BY <3>1
    <3>5. Held(p.udp, p.queue) = Value(p.udp, top) + Held(p.udp, rest) /\ Held(p.udp, rest) \in Int
      BY <1>1, <3>1, FirstTaken
    <3>6. Value(p.udp, top) = IF p.udp THEN 0 ELSE by
      <4>1. CASE p.udp
        <5>1. PICK w \in Nat : w = Weight(top.grams)
          BY <1>2, WeightIs
        <5>2. e - b = w + by /\ b + by = e
          BY <1>3, <1>4, <1>10, <2>1, <4>1, <5>1
        <5> HIDE DEF by
        <5>3. w = 0
          BY <1>3, <1>4, <5>1, <5>2, SMTT(30)
        <5> QED
          BY <1>2, <4>1, <5>1, <5>3, WeightIs DEF Value
      <4>2. CASE ~p.udp
        BY <1>2, <1>4, <2>1, <4>2 DEF Value
      <4> QED
        BY <4>1, <4>2
    <3>7. p.taken - (p.sent + by) = Held(p.udp, rest)
      <4>1. PICK h \in Int : h = Held(p.udp, rest)
        BY <3>5, Zenon
      <4>2. t - s = by + h
        BY <1>1, <1>7, <1>4, <1>11, <3>5, <3>6, <4>1
      <4>3. t - s = c + h
        BY <1>5, <4>2, Zenon
      <4>4. t - (s + c) = h
        BY <4>3
      <4> QED
        BY <1>7, <1>5, <4>1, <4>4, Zenon
    <3>8. \A m \in 2 .. Len(rest) : m \in 1 .. Len(rest)
      OBVIOUS
    <3>9. rest # <<>> =>
            /\ Head(rest).begin # p.from \/ ~p.udp
            /\ PageKept(p.udp, Head(rest))
      BY <1>2, <3>3, <3>4
    <3> HIDE DEF by
    <3> QED
      BY <3>1, <3>2, <3>3, <3>7, <3>8, <3>9, Zenon
  <2>2. CASE at # top.end
    <3>1. /\ q.queue \in Seq(Pages) /\ Len(q.queue) = Len(p.queue)
          /\ Head(q.queue) = page /\ \A m \in 2 .. Len(p.queue) : q.queue[m] = p.queue[m]
          /\ Held(p.udp, q.queue) - Held(p.udp, p.queue) = Value(p.udp, page) - Value(p.udp, top)
          /\ Held(p.udp, q.queue) \in Int
      BY <1>1, <1>8, <1>9, <2>2, FirstChanged
    <3>2. PageKept(p.udp, page)
      <4>1. CASE p.udp
        <5>1. PICK w \in Nat : w = Weight(top.grams)
          BY <1>2, WeightIs
        <5>2. e - b = w + by /\ at # e
          BY <1>3, <1>4, <1>10, <2>2, <4>1, <5>1
        <5>3. w # 0 /\ top.end - at = w
          <6>1. e - b = w + c /\ d # e
            BY <1>5, <5>2, Zenon
          <6>2. w # 0 /\ e - d = w
            BY <1>6, <6>1
          <6> QED
            BY <1>3, <1>5, <6>2, Zenon
        <5>4. top.grams # <<>>
          BY <1>2, <5>1, <5>3, WeightIs
        <5>5. page.end - page.begin = Weight(page.grams) /\ page.grams # <<>>
          BY <1>9, <5>1, <5>3, <5>4, Zenon
        <5> QED
          BY <4>1, <5>5 DEF PageKept
      <4>2. CASE ~p.udp
        <5>1. page.begin = d /\ page.end = e /\ d # e
          BY <1>3, <1>9, <1>5, <2>2, Zenon
        <5>2. d < e
          BY <1>6, <5>1
        <5>3. page.begin < page.end
          BY <5>1, <5>2
        <5> QED
          BY <1>9, <1>10, <4>2, <5>3 DEF PageKept
      <4> QED
        BY <4>1, <4>2
    <3>3. /\ p.udp => Value(p.udp, page) - Value(p.udp, top) = 0
          /\ ~p.udp => Value(p.udp, page) - Value(p.udp, top) = 0 - c
      <4>1. CASE p.udp
        <5>1. Value(p.udp, page) = Sum(top.grams) /\ Value(p.udp, top) = Sum(top.grams)
          BY <1>9, <4>1 DEF Value
        <5>2. PICK g \in Nat : g = Sum(top.grams)
          BY <1>2, WeightIs
        <5>3. g - g = 0
          BY <5>2
        <5> QED
          BY <4>1, <5>1, <5>2, <5>3, Zenon
      <4>2. CASE ~p.udp
        <5>1. Value(p.udp, page) = e - at /\ Value(p.udp, top) = e - b
          BY <1>3, <1>9, <4>2 DEF Value
        <5>2. (e - d) - (e - b) = 0 - c
          BY <1>6
        <5>3. Value(p.udp, page) - Value(p.udp, top) = 0 - c
          BY <1>5, <5>1, <5>2, Zenon
        <5> QED
          BY <4>2, <5>3
      <4> QED
        BY <4>1, <4>2
    <3>4. p.taken - (p.sent + by) = Held(p.udp, q.queue)
      <4>1. PICK h \in Int : h = Held(p.udp, p.queue)
        BY <1>1, ValuesAre
      <4>2. PICK k \in Int : k = Held(p.udp, q.queue)
        BY <3>1, Zenon
      <4>3. PICK f \in Int : f = InFlight(p) /\ f = IF p.udp THEN by ELSE 0
        BY <1>4, <1>11
      <4>4. /\ t - s = f + h
            /\ p.udp => k - h = 0
            /\ ~p.udp => k - h = 0 - c
        BY <1>1, <1>7, <3>1, <3>3, <4>1, <4>2, <4>3, Zenon
      <4>5. t - s = f + h /\ ((f = c /\ k - h = 0) \/ (f = 0 /\ k - h = 0 - c))
        <5> HIDE DEF by
        <5> QED
          BY <1>5, <4>3, <4>4
      <4>6. t - (s + c) = k
        BY <4>5
      <4> QED
        BY <1>7, <1>5, <4>2, <4>6, Zenon
    <3>5. page.begin # p.from
      BY <1>3, <1>4, <1>9
    <3>6. \A m \in 2 .. Len(q.queue) :
            q.queue[m].begin = 0 /\ PageKept(p.udp, q.queue[m])
      BY <1>1, <3>1, Zenon
    <3> HIDE DEF by
    <3> QED
      BY <3>1, <3>2, <3>4, <3>5, <3>6, Zenon
  <2> QED
    BY <2>1, <2>2
<1>13. ~Flying(q)
  BY <1>8, <1>12 DEF Flying
<1>14. DataShape(q)
  BY <1>1, <1>4, <1>8, <1>12, SMTT(30) DEF DataShape
<1>15. q.udp /\ q.from = 0 => q.len = 0
  BY <1>8 DEF Whole
<1>16. q.taken - q.sent = InFlight(q) + Held(q.udp, q.queue)
  <2>1. InFlight(q) = 0
    BY <1>13, <1>14, <1>15, FlightIs
  <2>2. PICK h \in Int : h = Held(p.udp, q.queue)
    BY <1>1, <1>12, ValuesAre
  <2>3. 0 + h = h
    BY <2>2
  <2> QED
    BY <1>8, <1>12, <2>1, <2>2, <2>3, Zenon
<1>17. Whole(q)
  BY <1>8, <1>12, <1>13, <1>14, <1>15, <1>16 DEF Whole, FirstKept
<1> QED
  BY <1>13, <1>17 DEF q

-----------------------------------------------------------------------------
(* The steps that edit data, on top of GateInv: the masks say when the     *)
(* first chunk is nobody's.                                                *)

DataAll == \A i \in Idents : DataInv(i)

\* No data is asked to be sent for the pin.
NoSend(i) == asked'[<<i, "send">>] \in {asked[<<i, "send">>], NoIdent}

\* A pin without data.
NoData(p) ==
  /\ p.udp \in BOOLEAN /\ p.queue = <<>>
  /\ p.from = 0 /\ p.len = 0 /\ p.taken = 0 /\ p.sent = 0

LEMMA NoDataWhole ==
  ASSUME SizesAssumption, NEW p, NoData(p)
  PROVE  Whole(p) /\ ~Flying(p)
<1>1. DataShape(p) /\ ~Flying(p) /\ Len(p.queue) = 0
  BY DEF NoData, DataShape, Flying
<1>2. InFlight(p) = 0
  BY DEF NoData, InFlight
<1>3. Held(p.udp, p.queue) = 0
  <2>1. Values(p.udp, <<>>) \in Seq(Int) /\ Len(Values(p.udp, <<>>)) = 0
    <3>1. <<>> \in Seq(Pages) /\ Len(<<>>) = 0
      OBVIOUS
    <3> QED
      BY <3>1, ValuesAre DEF NoData
  <2>2. Values(p.udp, <<>>) = <<>>
    BY <2>1
  <2> QED
    BY <2>2, SumEmpty DEF Held, NoData
<1>4. p.taken - p.sent = InFlight(p) + Held(p.udp, p.queue)
  BY <1>2, <1>3 DEF NoData
<1> QED
  BY <1>1, <1>4 DEF Whole, NoData

LEMMA NoPinData ==
  /\ NoData(NoPin) /\ NoPin.invoking = {}
  /\ \A udp \in BOOLEAN : NoData(NewPin(udp)) /\ NewPin(udp).invoking = {}
BY DEF NoData, NoPin, NewPin

\* The edits that leave the data alone.
LEMMA EditsSame ==
  ASSUME NEW p, IsPin(p), NEW k, NEW x
  PROVE  /\ SameData(p, p)
         /\ SameData(Invoking(p, k), p) /\ SameData(Receiving(p, x), p)
         /\ SameData(Released(p, k), p) /\ SameData([p EXCEPT !.progress = @ \ {k}], p)
         /\ SameData([p EXCEPT !.place = x], p) /\ SameData([p EXCEPT !.alive = x], p)
BY DEF SameData, IsPin, Fields, Invoking, Receiving, Released

\* What becomes of a pin's data, and of the send that is asked for it.
LEMMA DataStays ==
  ASSUME IdentsAssumption, NEW i \in Idents, DataInv(i), SameData(pin'[i], pin[i]), NoSend(i),
         "send" \in pin'[i].invoking => "send" \in pin[i].invoking
  PROVE  DataInv(i)'
<1>1. asked'[<<i, "send">>] = i => asked[<<i, "send">>] = i
  BY DEF IdentsAssumption, NoSend
<1> QED
  BY <1>1, SameWhole DEF DataInv

LEMMA DataUntouched ==
  ASSUME IdentsAssumption, PinShape, DataAll, pin' = pin, \A i \in Idents : NoSend(i)
  PROVE  DataAll'
<1> SUFFICES ASSUME NEW i \in Idents PROVE DataInv(i)'
  BY DEF DataAll
<1> QED
  BY DataStays, EditsSame DEF DataAll, PinShape

\* A pin is edited, in its data, too.
LEMMA DataEdited ==
  ASSUME IdentsAssumption, PinShape, DataAll, NEW i \in Idents, NEW q,
         pin' = [pin EXCEPT ![i] = q],
         \A j \in Idents : j # i => NoSend(j),
         Whole(q), asked'[<<i, "send">>] = i => Given(q), "send" \in q.invoking => ~Flying(q)
  PROVE  DataAll'
<1> SUFFICES ASSUME NEW j \in Idents PROVE DataInv(j)'
  BY DEF DataAll
<1>1. pin'[i] = q /\ (j # i => pin'[j] = pin[j])
  BY DEF PinShape
<1>2. CASE j = i
  BY <1>1, <1>2 DEF DataInv
<1>3. CASE j # i
  BY <1>1, <1>3, DataStays, EditsSame DEF DataAll, PinShape
<1> QED
  BY <1>2, <1>3

LEMMA DataKeptBy ==
  ASSUME IdentsAssumption, PinShape, DataAll, NEW i \in Idents, NEW q,
         pin' = [pin EXCEPT ![i] = q], \A j \in Idents : NoSend(j),
         SameData(q, pin[i]), "send" \in q.invoking => "send" \in pin[i].invoking
  PROVE  DataAll'
<1>1. asked'[<<i, "send">>] = i => asked[<<i, "send">>] = i
  BY DEF IdentsAssumption, NoSend
<1>2. DataInv(i)
  BY DEF DataAll
<1>3. Whole(q) /\ (asked'[<<i, "send">>] = i => Given(q)) /\ ("send" \in q.invoking => ~Flying(q))
  BY <1>1, <1>2, SameWhole DEF DataInv
<1> QED
  BY <1>3, DataEdited

LEMMA DataFresh ==
  ASSUME IdentsAssumption, SizesAssumption, PinShape, DataAll, NEW i \in Idents, NEW q,
         pin' = [pin EXCEPT ![i] = q], \A j \in Idents : j # i => NoSend(j),
         asked'[<<i, "send">>] = NoIdent, NoData(q)
  PROVE  DataAll'
<1>1. i # NoIdent
  BY DEF IdentsAssumption
<1> QED
  BY <1>1, DataEdited, NoDataWhole

LEMMA QuietSend ==
  /\ "send" \in Kinds /\ "recv" \in Kinds /\ "connect" \in Kinds /\ "accept" \in Kinds
  /\ "send" \in Masks
  /\ \A i \in Idents : Quiet(i) => NoSend(i)
  /\ asked' = asked => \A i \in Idents : NoSend(i)
BY DEF Kinds, Masks, Quiet, NoSend

\* The steps that edit no pin.
LEMMA DataAside ==
  ASSUME GateInv, IdentsAssumption, DataAll,
         \/ \E a \in Actors : \E i \in Idents : Listen(a, i) \/ Deaf(a, i) \/ Close(a, i)
         \/ \E i \in Idents : PostAccept(i)
         \/ \E w \in Workers : Return(w) \/ \E i \in Idents : \E k \in Kinds : Ignored(w, i, k)
         \/ Destroy \/ OffStart \/ OffThread \/ OffPort
         \/ UNCHANGED vars
  PROVE  DataAll'
<1>1. PinShape /\ PortShape /\ AskedOpen
  BY DEF GateInv, Shape
<1>2. ASSUME NEW a \in Actors, NEW i \in Idents, Listen(a, i) \/ Close(a, i) PROVE DataAll'
  <2>1. pin' = pin /\ asked' = asked
    BY <1>2 DEF Listen, Close, Port!Create
  <2> QED
    BY <1>1, <2>1, QuietSend, DataUntouched
<1>3. ASSUME NEW a \in Actors, NEW i \in Idents, Deaf(a, i) PROVE DataAll'
  <2>1. pin' = pin /\ Port!Close(i)
    BY <1>3 DEF Deaf
  <2>2. \A j \in Idents : Quiet(j)
    BY <1>1, <2>1, CloseIs
  <2> QED
    BY <1>1, <2>1, <2>2, QuietSend, DataUntouched
<1>4. ASSUME NEW i \in Idents, PostAccept(i) PROVE DataAll'
  <2>1. pin' = pin /\ Port!Ask(<<i, "accept">>, i)
    BY <1>4 DEF PostAccept, gateVars
  <2>2. AskedOnly(i, "accept")
    BY <1>1, <2>1, AskingIs, QuietSend
  <2>3. \A j \in Idents : NoSend(j)
    BY <2>2 DEF AskedOnly, NoSend, Masks
  <2> QED
    BY <1>1, <2>1, <2>3, DataUntouched
<1>5. ASSUME NEW w \in Workers, Return(w) PROVE DataAll'
  <2>1. pin' = pin /\ asked' = asked
    BY <1>5 DEF Return, Port!Return, gateVars
  <2> QED
    BY <1>1, <2>1, QuietSend, DataUntouched
<1>6. ASSUME NEW w \in Workers, NEW i \in Idents, NEW k \in Kinds, Ignored(w, i, k)
      PROVE  DataAll'
  <2>1. pin' = pin /\ Port!Answer(w, <<i, k>>)
    BY <1>6 DEF Ignored, gateVars
  <2>2. \A j \in Idents : Quiet(j)
    BY <1>1, <2>1, AnswerIs
  <2> QED
    BY <1>1, <2>1, <2>2, QuietSend, DataUntouched
<1>7. CASE Destroy \/ OffStart \/ OffThread \/ UNCHANGED vars
  <2>1. pin' = pin /\ asked' = asked
    BY <1>7 DEF Destroy, OffStart, OffThread, vars, gateVars
  <2> QED
    BY <1>1, <2>1, QuietSend, DataUntouched
<1>8. CASE OffPort
  <2>1. pin' = pin /\ asked' = [t \in Operations |-> NoIdent]
    BY <1>8 DEF OffPort, Port!Down
  <2>2. \A j \in Idents : NoSend(j)
    BY <2>1, QuietSend DEF NoSend, Operations
  <2> QED
    BY <1>1, <2>1, <2>2, DataUntouched
<1> QED
  BY <1>2, <1>3, <1>4, <1>5, <1>6, <1>7, <1>8

\* The steps that leave the data of a pin alone.
LEMMA DataBeside ==
  ASSUME GateInv, IdentsAssumption, DataAll,
         \/ \E a \in Actors : InitiateClose(a)
         \/ \E a \in Actors : \E i \in Idents : \E big \in BOOLEAN : Recv(a, i, big)
         \/ \E w \in Workers : Again(w)
         \/ \E w \in Workers : \E i \in Idents :
              OnConnect(w, i) \/ OnRecv(w, i) \/ \E k \in Kinds : OnError(w, i, k)
         \/ Take
  PROVE  DataAll'
<1>1. PinShape /\ PortShape /\ AskedOpen /\ \A i \in Idents : IsPin(pin[i])
  BY DEF GateInv, Shape, PinShape
<1>2. ASSUME NEW a \in Actors, InitiateClose(a) PROVE DataAll'
  <2>1. asked' = asked /\ half[a][1].ident \in Idents
    <3>1. half[a] # None /\ asked' = asked
      BY <1>2 DEF InitiateClose
    <3> QED
      BY <3>1 DEF GateInv, Shape, ActorShape, Calls, None
  <2>2. PICK i \in Idents :
          \/ pin' = pin
          \/ pin' = [pin EXCEPT ![i] = [pin[i] EXCEPT !.alive = FALSE]]
          \/ pin' = [pin EXCEPT ![i] = [pin[i] EXCEPT !.place = "list"]]
    BY <1>2, <2>1 DEF InitiateClose
  <2>3. \A x : [pin[i] EXCEPT !.alive = x].invoking = pin[i].invoking
               /\ [pin[i] EXCEPT !.place = x].invoking = pin[i].invoking
    BY <1>1 DEF IsPin, Fields
  <2>4. CASE pin' = pin
    BY <1>1, <2>1, <2>4, QuietSend, DataUntouched
  <2>5. CASE pin' = [pin EXCEPT ![i] = [pin[i] EXCEPT !.alive = FALSE]]
    BY <1>1, <2>1, <2>3, <2>5, QuietSend, EditsSame, DataKeptBy
  <2>6. CASE pin' = [pin EXCEPT ![i] = [pin[i] EXCEPT !.place = "list"]]
    BY <1>1, <2>1, <2>3, <2>6, QuietSend, EditsSame, DataKeptBy
  <2> QED
    BY <2>2, <2>4, <2>5, <2>6
<1>3. ASSUME NEW i \in Idents, NEW big, RecvNow(i, big) PROVE DataAll'
  <2>1. CASE Mapped(i) /\ "recv" \notin pin[i].progress
    <3>1. Ask("recv", i) /\ pin' = [pin EXCEPT ![i] = Receiving(pin[i], big)]
      BY <1>3, <2>1 DEF RecvNow
    <3>2. AskedOnly(i, "recv")
      BY <1>1, <3>1, AskIs, QuietSend
    <3>3. \A j \in Idents : NoSend(j)
      BY <3>2 DEF AskedOnly, NoSend, Masks
    <3>4. Receiving(pin[i], big).invoking = pin[i].invoking
      BY <1>1, ReceivingIs
    <3> QED
      BY <1>1, <3>1, <3>3, <3>4, EditsSame, DataKeptBy
  <2>2. CASE ~(Mapped(i) /\ "recv" \notin pin[i].progress)
    <3>1. pin' = pin /\ asked' = asked
      BY <1>3, <2>2 DEF RecvNow
    <3> QED
      BY <1>1, <3>1, QuietSend, DataUntouched
  <2> QED
    BY <2>1, <2>2
<1>4. ASSUME NEW a \in Actors, NEW i \in Idents, NEW big \in BOOLEAN, Recv(a, i, big)
      PROVE  DataAll'
  BY <1>3, <1>4 DEF Recv
<1>5. ASSUME NEW w \in Workers, Again(w) PROVE DataAll'
  <2>1. PICK big \in BOOLEAN : RecvAgain(w, big)
    BY <1>5 DEF Again
  <2>2. half[w][1].ident \in Idents
    BY <2>1 DEF RecvAgain, GateInv, Shape, ActorShape, Calls, None, Actors
  <2> QED
    BY <1>3, <2>1, <2>2 DEF RecvAgain
<1>6. ASSUME NEW w \in Workers, NEW i \in Idents, NEW k \in Kinds, Port!Answer(w, <<i, k>>),
             \/ pin' = pin
             \/ pin' = [pin EXCEPT ![i] = [pin[i] EXCEPT !.progress = @ \ {k}]]
             \/ k # "send" /\ pin' = [pin EXCEPT ![i] = Invoking(pin[i], k)]
      PROVE  DataAll'
  <2>1. \A j \in Idents : NoSend(j)
    <3>1. \A j \in Idents : Quiet(j)
      BY <1>1, <1>6, AnswerIs
    <3> QED
      BY <3>1, QuietSend
  <2>2. CASE pin' = pin
    BY <1>1, <2>1, <2>2, DataUntouched
  <2>3. CASE pin' = [pin EXCEPT ![i] = [pin[i] EXCEPT !.progress = @ \ {k}]]
    <3>1. [pin[i] EXCEPT !.progress = @ \ {k}].invoking = pin[i].invoking
      BY <1>1, UnmaskedIs
    <3> QED
      BY <1>1, <2>1, <2>3, <3>1, EditsSame, DataKeptBy
  <2>4. CASE k # "send" /\ pin' = [pin EXCEPT ![i] = Invoking(pin[i], k)]
    <3>1. Invoking(pin[i], k).invoking = pin[i].invoking \cup {k}
      BY <1>1, InvokingIs
    <3> QED
      BY <1>1, <2>1, <2>4, <3>1, EditsSame, DataKeptBy
  <2> QED
    BY <1>6, <2>2, <2>3, <2>4
<1>7. ASSUME NEW w \in Workers, NEW i \in Idents, OnConnect(w, i) PROVE DataAll'
  <2>1. /\ Port!Answer(w, <<i, "connect">>)
        /\ \/ pin' = [pin EXCEPT ![i] = Invoking(pin[i], "connect")]
           \/ pin' = [pin EXCEPT ![i] = [pin[i] EXCEPT !.progress = @ \ {"connect"}]]
    BY <1>7 DEF OnConnect, CallBack
  <2> QED
    BY <1>6, <2>1, QuietSend
<1>8. ASSUME NEW w \in Workers, NEW i \in Idents, OnRecv(w, i) PROVE DataAll'
  <2>1. /\ Port!Answer(w, <<i, "recv">>)
        /\ pin' = [pin EXCEPT ![i] = Invoking(pin[i], "recv")] \/ pin' = pin
    BY <1>8 DEF OnRecv, CallBack
  <2> QED
    BY <1>6, <2>1, QuietSend
<1>9. ASSUME NEW w \in Workers, NEW i \in Idents, NEW k \in Kinds, OnError(w, i, k)
      PROVE  DataAll'
  <2>1. /\ Port!Answer(w, <<i, k>>)
        /\ \/ pin' = [pin EXCEPT ![i] = [pin[i] EXCEPT !.progress = @ \ {k}]]
           \/ pin' = pin
    BY <1>9 DEF OnError
  <2> QED
    BY <1>6, <2>1
<1>10. CASE Take
  <2>1. /\ asked' = asked /\ pinList # <<>>
        /\ pin' = [pin EXCEPT ![Head(pinList)] = [pin[Head(pinList)] EXCEPT !.place = "final"]]
    BY <1>10 DEF Take
  <2>2. PICK i \in Idents : i = Head(pinList)
    BY <2>1, HeadAndTail DEF GateInv, Shape, GateShape
  <2>3. [pin[i] EXCEPT !.place = "final"].invoking = pin[i].invoking
    BY <1>1 DEF IsPin, Fields
  <2> QED
    BY <1>1, <2>1, <2>2, <2>3, QuietSend, EditsSame, DataKeptBy
<1> QED
  BY <1>2, <1>4, <1>5, <1>7, <1>8, <1>9, <1>10

\* The steps that begin or end the life of a pin.
LEMMA DataBegins ==
  ASSUME GateInv, IdentsAssumption, SizesAssumption, DataAll,
         \/ \E a \in Actors : \E i \in Idents : Connect(a, i) \/ Bind(a, i)
         \/ \E w \in Workers : \E i, j \in Idents : OnAccept(w, i, j)
         \/ ClosePort \/ OffClear
  PROVE  DataAll'
<1>1. PinShape /\ PortShape /\ AskedOpen /\ \A i \in Idents : IsPin(pin[i])
  BY DEF GateInv, Shape, PinShape
<1>2. ASSUME NEW i \in Idents, i \notin open
      PROVE  asked[<<i, "send">>] = NoIdent
  BY <1>1, <1>2, QuietSend DEF AskedOpen
<1>3. \A udp \in BOOLEAN : \A k :
        /\ NoData([NewPin(udp) EXCEPT !.progress = {"connect"}])
        /\ NoData(Invoking(NewPin(udp), k))
  BY DEF NoData, NoPin, NewPin, Invoking
<1>4. ASSUME NEW a \in Actors, NEW i \in Idents, Connect(a, i) PROVE DataAll'
  <2>1. /\ i \notin open
        /\ asked' \in {asked, [asked EXCEPT ![<<i, "connect">>] = i]}
        /\ pin' = [pin EXCEPT ![i] = [NewPin(FALSE) EXCEPT !.progress = {"connect"}]]
    BY <1>4 DEF Connect, Port!Unused
  <2>2. \A j \in Idents : asked'[<<j, "send">>] = asked[<<j, "send">>]
    <3>1. \A j \in Idents : <<j, "send">> \in Operations /\ <<j, "send">> # <<i, "connect">>
      BY QuietSend DEF Operations
    <3> QED
      BY <1>1, <2>1, <3>1 DEF PortShape
  <2>3. asked'[<<i, "send">>] = NoIdent /\ \A j \in Idents : NoSend(j)
    BY <1>2, <2>1, <2>2 DEF NoSend
  <2> QED
    BY <1>1, <1>3, <2>1, <2>3, DataFresh
<1>5. ASSUME NEW a \in Actors, NEW i \in Idents, Bind(a, i) PROVE DataAll'
  <2>1. /\ i \notin open /\ asked' = asked
        /\ pin' = [pin EXCEPT ![i] = Invoking(NewPin(TRUE), "bind")]
    BY <1>5 DEF Bind, Port!Create, Port!Unused
  <2>2. asked'[<<i, "send">>] = NoIdent /\ \A j \in Idents : NoSend(j)
    BY <1>2, <2>1, QuietSend
  <2> QED
    BY <1>1, <1>3, <2>1, <2>2, DataFresh
<1>6. ASSUME NEW w \in Workers, NEW i \in Idents, NEW j \in Idents, OnAccept(w, i, j)
      PROVE  DataAll'
  <2>1. CASE Port!Answer(w, <<i, "accept">>) /\ pin' = pin
    <3>1. \A l \in Idents : Quiet(l)
      BY <1>1, <2>1, QuietSend, AnswerIs
    <3> QED
      BY <1>1, <2>1, <3>1, QuietSend, DataUntouched
  <2>2. CASE /\ Port!AnswerAccept(w, <<i, "accept">>, j)
             /\ pin' = [pin EXCEPT ![j] = Invoking(NewPin(FALSE), "accept")]
    <3>1. j \notin open /\ \A l \in Idents : Quiet(l)
      BY <1>1, <2>2, AnswerAcceptIs
    <3>2. \A l \in Idents : NoSend(l)
      BY <3>1, QuietSend
    <3>3. asked'[<<j, "send">>] = NoIdent
      BY <1>2, <3>1, <3>2 DEF NoSend
    <3> QED
      BY <1>1, <1>3, <2>2, <3>2, <3>3, DataFresh
  <2> QED
    BY <1>6, <2>1, <2>2 DEF OnAccept, CallBack
<1>7. CASE ClosePort
  <2>1. /\ closer.ident \in Idents /\ Port!Close(closer.ident)
        /\ pin' = [pin EXCEPT ![closer.ident] = NoPin]
    BY <1>7 DEF ClosePort, GateInv, Listed
  <2>2. PICK i \in Idents : i = closer.ident
    BY <2>1
  <2>3. AskedOpen' /\ open' = open \ {i} /\ \A j \in Idents : Quiet(j)
    BY <1>1, <2>1, <2>2, CloseIs
  <2>4. asked'[<<i, "send">>] = NoIdent
    BY <2>3, QuietSend DEF AskedOpen
  <2> QED
    BY <1>1, <2>1, <2>2, <2>3, <2>4, QuietSend, NoPinData, DataFresh
<1>8. CASE OffClear
  <2>1. pin' = [i \in Idents |-> NoPin] /\ asked' = asked /\ open = {}
    BY <1>8 DEF OffClear, GateInv, Owned
  <2> SUFFICES ASSUME NEW i \in Idents PROVE DataInv(i)'
    BY DEF DataAll
  <2>2. pin'[i] = NoPin /\ asked'[<<i, "send">>] = NoIdent /\ i # NoIdent
    BY <1>2, <2>1 DEF IdentsAssumption
  <2> QED
    BY <2>2, NoPinData, NoDataWhole DEF DataInv
<1> QED
  BY <1>4, <1>5, <1>6, <1>7, <1>8

\* What is stored of a call, if not all of it, is less.
LEMMA AcceptedIs ==
  ASSUME NEW udp, NEW bulk \in Seq(Lengths)
  PROVE  Accepted(udp, bulk) \in Seq(Lengths)
<1> DEFINE T == {n \in DOMAIN bulk : TooLong(udp, bulk[n])}
           First(n) == TooLong(udp, bulk[n]) /\ \A m \in 1 .. n - 1 : ~TooLong(udp, bulk[m])
<1>1. CASE T = {}
  BY <1>1 DEF Accepted
<1>2. CASE T # {}
  <2>1. T \subseteq Nat /\ \A n \in T : n \in 1 .. Len(bulk)
    OBVIOUS
  <2>2. PICK n \in T : \A m \in T : n <= m
    BY <1>2, <2>1, Least
  <2>3. n \in DOMAIN bulk /\ n \in Nat /\ TooLong(udp, bulk[n])
    BY <2>1, <2>2
  <2>4. ASSUME NEW m \in 1 .. n - 1 PROVE ~TooLong(udp, bulk[m])
    <3>1. m \in DOMAIN bulk /\ m \in Nat /\ m < n
      BY <2>3
    <3> QED
      BY <2>2, <2>3, <3>1
  <2>5. \E k \in DOMAIN bulk : First(k)
    BY <2>3, <2>4
  <2> DEFINE c == CHOOSE k \in DOMAIN bulk : First(k)
  <2>6. c \in DOMAIN bulk
    <3> HIDE DEF First
    <3> QED
      BY <2>5
  <2>7. Accepted(udp, bulk) = SubSeq(bulk, 1, c - 1)
    BY <2>3 DEF Accepted
  <2> HIDE DEF c
  <2>8. c \in 1 .. Len(bulk)
    BY <2>6
  <2>9. SubSeq(bulk, 1, c - 1) \in Seq(Lengths)
    BY <2>8
  <2> QED
    BY <2>7, <2>9
<1> QED
  BY <1>1, <1>2

\* The steps that store and send.
LEMMA DataSendBulk ==
  ASSUME GateInv, IdentsAssumption, SizesAssumption, BulksAssumption, DataAll,
         NEW a \in Actors, NEW i \in Idents, NEW bulk \in Bulks, SendBulk(a, i, bulk)
  PROVE  DataAll'
<1> DEFINE accepted == Accepted(pin[i].udp, bulk)
           stored == [Stored(pin[i], accepted) EXCEPT !.refused = accepted # bulk]
           start == accepted = bulk /\ "send" \notin pin[i].progress
<1>1. /\ pin' = [pin EXCEPT ![i] = IF start THEN Sending(stored) ELSE stored]
      /\ IF start THEN Ask("send", i) ELSE UNCHANGED <<open, asked, calls>>
      /\ ~HeaderSkipped(pin[i])
  BY DEF SendBulk
<1>2. /\ PinShape /\ PortShape /\ AskedOpen /\ IsPin(pin[i]) /\ DataInv(i) /\ Masked(i)
      /\ i # NoIdent
  BY DEF GateInv, Shape, PinShape, DataAll, PinInv, IdentsAssumption
<1>3. bulk \in Seq(Lengths) /\ bulk # <<>> /\ accepted \in Seq(Lengths)
  <2>1. bulk \in Seq(Lengths) /\ bulk # <<>>
    BY DEF BulksAssumption, Lengths
  <2> QED
    BY <2>1, AcceptedIs
<1>4. /\ Whole(stored) /\ (Given(pin[i]) => Given(stored)) /\ (Flying(stored) <=> Flying(pin[i]))
      /\ accepted # <<>> => stored.queue # <<>>
      /\ SamePlace(stored, pin[i]) /\ stored.invoking = pin[i].invoking
  <2>1. Whole(pin[i])
    BY <1>2 DEF DataInv
  <2>2. PICK r \in BOOLEAN : r = (accepted # bulk)
    OBVIOUS
  <2> HIDE DEF accepted
  <2>3. stored = [Stored(pin[i], accepted) EXCEPT !.refused = r]
    BY <2>2
  <2> HIDE DEF stored
  <2>4. /\ Whole(stored) /\ (Given(pin[i]) => Given(stored))
        /\ Flying(stored) <=> Flying(pin[i])
        /\ accepted # <<>> => stored.queue # <<>>
    BY <1>2, <1>3, <2>1, <2>3, StoredKeeps
  <2>5. SamePlace(stored, pin[i]) /\ stored.invoking = pin[i].invoking
    BY <1>2, <2>3, StoredIs
  <2> QED
    BY <2>4, <2>5
<1> HIDE DEF accepted, stored
<1>5. CASE start
  <2>1. ~Flying(stored) /\ stored.queue # <<>> /\ "send" \notin pin[i].invoking
    <3>1. ~Flying(pin[i])
      BY <1>1, <1>5 DEF HeaderSkipped, Flying
    <3>2. "send" \notin pin[i].invoking
      BY <1>2, <1>5, QuietSend DEF Masked
    <3> QED
      BY <1>3, <1>4, <1>5, <3>1, <3>2
  <2>2. /\ Whole(Sending(stored)) /\ Given(Sending(stored))
        /\ Sending(stored).invoking = pin[i].invoking
    BY <1>4, <2>1, SendingKeeps, SendingIs DEF SamePlace
  <2>3. pin' = [pin EXCEPT ![i] = Sending(stored)]
    BY <1>1, <1>5
  <2>4. \A j \in Idents : j # i => NoSend(j)
    <3>1. AskedOnly(i, "send")
      BY <1>1, <1>2, <1>5, QuietSend, AskIs
    <3> QED
      BY <3>1, QuietSend DEF AskedOnly, NoSend
  <2> QED
    BY <1>2, <2>1, <2>2, <2>3, <2>4, DataEdited
<1>6. CASE ~start
  <2>1. pin' = [pin EXCEPT ![i] = stored] /\ asked' = asked
    BY <1>1, <1>6
  <2>2. asked'[<<i, "send">>] = i => Given(stored)
    BY <1>2, <1>4, <2>1 DEF DataInv
  <2>3. "send" \in stored.invoking => ~Flying(stored)
    BY <1>2, <1>4 DEF DataInv
  <2> QED
    BY <1>2, <1>4, <2>1, <2>2, <2>3, QuietSend, DataEdited
<1> QED
  BY <1>5, <1>6

LEMMA DataOnSend ==
  ASSUME GateInv, IdentsAssumption, SizesAssumption, DataAll,
         NEW w \in Workers, NEW i \in Idents, NEW n, OnSend(w, i, n)
  PROVE  DataAll'
<1> DEFINE p == Sent(pin[i], n)
<1>1. /\ Mapped(i) /\ asked[<<i, "send">>] = i /\ n \in 1 .. pin[i].len
      /\ \/ /\ p.queue # <<>> /\ pin' = [pin EXCEPT ![i] = Sending(p)]
            /\ asked' \in {[asked EXCEPT ![<<i, "send">>] = x] : x \in {NoIdent, i}}
         \/ Port!Answer(w, <<i, "send">>) /\ pin' = [pin EXCEPT ![i] = Invoking(p, "send")]
  BY DEF OnSend, Alive, CallBack
<1>2. /\ PinShape /\ PortShape /\ AskedOpen /\ IsPin(pin[i]) /\ i # NoIdent
      /\ Whole(pin[i]) /\ Given(pin[i]) /\ "send" \notin pin[i].invoking
  BY <1>1, QuietSend
     DEF GateInv, Shape, PinShape, DataAll, DataInv, PinInv, Masked, IdentsAssumption
<1>3. IsPin(p) /\ Whole(p) /\ ~Flying(p) /\ p.invoking = pin[i].invoking
  BY <1>1, <1>2, SentKeeps, SentIs DEF SamePlace
<1> HIDE DEF p
<1>4. CASE /\ p.queue # <<>> /\ pin' = [pin EXCEPT ![i] = Sending(p)]
           /\ asked' \in {[asked EXCEPT ![<<i, "send">>] = x] : x \in {NoIdent, i}}
  <2>1. /\ Whole(Sending(p)) /\ Given(Sending(p))
        /\ Sending(p).invoking = pin[i].invoking
    BY <1>3, <1>4, SendingKeeps, SendingIs
  <2>2. \A j \in Idents : j # i => NoSend(j)
    <3>1. \A j \in Idents : <<j, "send">> \in Operations
      BY QuietSend DEF Operations
    <3> QED
      BY <1>2, <1>4, <3>1 DEF NoSend, PortShape
  <2> QED
    BY <1>2, <1>4, <2>1, <2>2, DataEdited
<1>5. CASE Port!Answer(w, <<i, "send">>) /\ pin' = [pin EXCEPT ![i] = Invoking(p, "send")]
  <2>1. asked'[<<i, "send">>] = NoIdent /\ \A j \in Idents : NoSend(j)
    <3>1. asked'[<<i, "send">>] = NoIdent /\ \A j \in Idents : Quiet(j)
      BY <1>2, <1>5, QuietSend, AnswerIs
    <3> QED
      BY <3>1, QuietSend
  <2>2. Whole(Invoking(p, "send")) /\ ~Flying(Invoking(p, "send"))
    <3>1. SameData(Invoking(p, "send"), p)
      BY <1>3, EditsSame
    <3>2. /\ Whole(p) => Whole(Invoking(p, "send"))
          /\ Flying(Invoking(p, "send")) = Flying(p)
      BY <3>1, SameWhole
    <3> QED
      BY <1>3, <3>2
  <2> QED
    BY <1>2, <1>5, <2>1, <2>2, DataEdited
<1> QED
  BY <1>1, <1>4, <1>5

LEMMA DataEndCallback ==
  ASSUME GateInv, IdentsAssumption, SizesAssumption, DataAll,
         NEW a \in Actors, EndCallback(a)
  PROVE  DataAll'
<1>1. PICK i \in Idents, k \in Kinds : during[a] = <<i, k>>
  BY DEF EndCallback, GateInv, Shape, ActorShape, None
<1> DEFINE p == Released(pin[i], k)
<1>2. /\ PinShape /\ PortShape /\ AskedOpen /\ IsPin(pin[i]) /\ i # NoIdent
      /\ DataInv(i) /\ k \in pin[i].invoking
  BY <1>1 DEF GateInv, Shape, PinShape, DataAll, PinInv, Marked, IdentsAssumption
<1>3. \/ asked' = asked /\ pin' = pin
      \/ asked' = asked /\ pin' = [pin EXCEPT ![i] = p]
      \/ /\ MoreToSend(p, k) /\ Ask("send", i)
         /\ pin' = [pin EXCEPT ![i] = Sending(p)]
  BY <1>1 DEF EndCallback
<1>4. /\ IsPin(p) /\ SameData(p, pin[i]) /\ p.invoking = pin[i].invoking \ {k}
      /\ Whole(p) /\ Flying(p) = Flying(pin[i])
  <2>1. IsPin(p) /\ SameData(p, pin[i]) /\ p.invoking = pin[i].invoking \ {k}
    BY <1>2, ReleasedIs, EditsSame DEF SamePlace
  <2> QED
    BY <1>2, <2>1, SameWhole DEF DataInv
<1> HIDE DEF p
<1>5. CASE asked' = asked /\ pin' = pin
  BY <1>2, <1>5, QuietSend, DataUntouched
<1>6. CASE asked' = asked /\ pin' = [pin EXCEPT ![i] = p]
  BY <1>2, <1>4, <1>6, QuietSend, DataKeptBy
<1>7. CASE MoreToSend(p, k) /\ Ask("send", i) /\ pin' = [pin EXCEPT ![i] = Sending(p)]
  <2>1. k = "send" /\ p.queue # <<>>
    BY <1>7 DEF MoreToSend
  <2>2. ~Flying(p)
    BY <1>2, <1>4, <2>1 DEF DataInv
  <2>3. /\ Whole(Sending(p)) /\ Given(Sending(p))
        /\ Sending(p).invoking = p.invoking
    BY <1>4, <2>1, <2>2, SendingKeeps, SendingIs
  <2>4. "send" \notin Sending(p).invoking
    BY <1>4, <2>1, <2>3
  <2>5. \A j \in Idents : j # i => NoSend(j)
    <3>1. AskedOnly(i, "send")
      BY <1>2, <1>7, QuietSend, AskIs
    <3> QED
      BY <3>1, QuietSend DEF AskedOnly, NoSend
  <2> QED
    BY <1>2, <1>7, <2>3, <2>4, <2>5, DataEdited
<1> QED
  BY <1>3, <1>5, <1>6, <1>7

LEMMA DataBeginsWhole ==
  ASSUME SizesAssumption, IdentsAssumption, Init
  PROVE  DataAll
<1> SUFFICES ASSUME NEW i \in Idents PROVE DataInv(i)
  BY DEF DataAll
<1>1. pin[i] = NoPin /\ asked[<<i, "send">>] = NoIdent /\ i # NoIdent
  BY QuietSend DEF Init, Port!PortInit, Operations, IdentsAssumption
<1> QED
  BY <1>1, NoPinData, NoDataWhole DEF DataInv

LEMMA DataContinues ==
  ASSUME IdentsAssumption, SizesAssumption, BulksAssumption, GateInv, DataAll, [Next]_vars
  PROVE  DataAll'
<1>1. ASSUME NEW a \in Actors, Call(a) PROVE DataAll'
  <2>1. PICK i \in Idents :
          \/ Listen(a, i) \/ Deaf(a, i) \/ Connect(a, i) \/ Bind(a, i) \/ Close(a, i)
          \/ \E bulk \in Bulks : SendBulk(a, i, bulk)
          \/ \E big \in BOOLEAN : Recv(a, i, big)
    BY <1>1 DEF Call
  <2>2. CASE Listen(a, i) \/ Deaf(a, i) \/ Close(a, i)
    BY <2>2, DataAside
  <2>3. CASE Connect(a, i) \/ Bind(a, i)
    BY <2>3, DataBegins
  <2>4. CASE \E bulk \in Bulks : SendBulk(a, i, bulk)
    BY <2>4, DataSendBulk
  <2>5. CASE \E big \in BOOLEAN : Recv(a, i, big)
    BY <2>5, DataBeside
  <2> QED
    BY <2>1, <2>2, <2>3, <2>4, <2>5
<1>2. ASSUME NEW a \in Actors, InitiateClose(a) \/ EndCallback(a) PROVE DataAll'
  BY <1>2, DataBeside, DataEndCallback
<1>3. ASSUME NEW w \in Workers, Answered(w) PROVE DataAll'
  <2>1. PICK i \in Idents :
          \/ \E k \in Kinds : OnError(w, i, k) \/ Ignored(w, i, k)
          \/ \E j \in Idents : OnAccept(w, i, j)
          \/ \E n \in 1 .. Chunk : OnSend(w, i, n)
          \/ OnConnect(w, i) \/ OnRecv(w, i)
    BY <1>3 DEF Answered
  <2>2. CASE \E k \in Kinds : Ignored(w, i, k)
    BY <2>2, DataAside
  <2>3. CASE (\E k \in Kinds : OnError(w, i, k)) \/ OnConnect(w, i) \/ OnRecv(w, i)
    BY <2>3, DataBeside
  <2>4. CASE \E j \in Idents : OnAccept(w, i, j)
    BY <2>4, DataBegins
  <2>5. CASE \E n \in 1 .. Chunk : OnSend(w, i, n)
    BY <2>5, DataOnSend
  <2> QED
    BY <2>1, <2>2, <2>3, <2>4, <2>5
<1>4. ASSUME NEW w \in Workers, Again(w) \/ Return(w) PROVE DataAll'
  BY <1>4, DataBeside, DataAside
<1>5. ASSUME NEW i \in Idents, PostAccept(i) PROVE DataAll'
  BY <1>5, DataAside
<1>6. CASE CloseSteps
  BY <1>6, DataBeside, DataBegins, DataAside DEF CloseSteps
<1>7. CASE OffStart \/ OffSteps
  BY <1>7, DataAside, DataBegins DEF OffSteps
<1>8. CASE UNCHANGED vars
  BY <1>8, DataAside
<1> QED
  BY <1>1, <1>2, <1>3, <1>4, <1>5, <1>6, <1>7, <1>8 DEF Next

LEMMA DataAlways == Spec => []DataAll
<1>1. Init => DataAll
  BY DataBeginsWhole, SizesAssumption, IdentsAssumption
<1>2. GateInv /\ DataAll /\ [Next]_vars => DataAll'
  BY DataContinues, SizesAssumption, IdentsAssumption, BulksAssumption
<1> QED
  BY <1>1, <1>2, GateAlways, PTL DEF Spec

-----------------------------------------------------------------------------
(* Theorems.                                                               *)

\* A pin stays in the map, marked, while a callback of the client runs for it,
\* no two callbacks of one kind run for it at once, and a dead pin always has
\* somebody who will close it: unlock_pin and initiate_close between them
\* neither close under a callback nor forget to.
THEOREM PinClosedByLast == Spec => []ClosedByLast
<1>1. GateInv => ClosedByLast
  <2> SUFFICES ASSUME GateInv PROVE ClosedByLast
    OBVIOUS
  <2>1. ASSUME NEW a \in Actors, during[a] # None
        PROVE  Mapped(during[a][1]) /\ during[a][2] \in pin[during[a][1]].invoking
    <3>1. PICK i \in Idents, k \in Kinds : during[a] = <<i, k>>
      BY <2>1 DEF GateInv, Shape, ActorShape
    <3> QED
      BY <3>1 DEF GateInv, PinInv, Marked
  <2>2. ASSUME NEW i \in Idents, NEW k \in pin[i].invoking
        PROVE  Cardinality({a \in Actors : during[a] = <<i, k>>}) = 1
    <3>1. PICK a \in Actors : during[a] = <<i, k>>
      BY <2>2 DEF GateInv, PinInv, Marked
    <3>2. {b \in Actors : during[b] = <<i, k>>} = {a}
      BY <2>2, <3>1 DEF GateInv, PinInv, Marked
    <3> QED
      BY <3>2, FS_Singleton
  <2>3. DeadIsClosed
    BY DEF GateInv, PinInv, DeadCloses, DeadIsClosed
  <2> QED
    BY <2>1, <2>2, <2>3 DEF ClosedByLast, CallbacksMarked
<1> QED
  BY <1>1, GateAlways, PTL

\* An operation the port has not answered is in its pin's mask: send_bulk and
\* recv never ask for a second one of the kind beside it.
THEOREM PinProgressKnown == Spec => []ProgressKnown
<1>1. GateInv => ProgressKnown
  BY DEF GateInv, PinInv, Masked, Masks, ProgressKnown
<1> QED
  BY <1>1, GateAlways, PTL

\* What a living pin has stored is being sent, or the pin is about to be closed,
\* or send_bulk has refused a buffer after it had stored others.
THEOREM PinStoredIsSent == Spec => []StoredIsSent
<1>1. GateInv => StoredIsSent
  BY DEF GateInv, PinInv, StoredGoes, StoredIsSent
<1> QED
  BY <1>1, GateAlways, PTL

\* An open socket is a listener's or that of a pin on its way to final_close,
\* until off() of the port has closed them all.
THEOREM PinSocketsOwned == Spec => []SocketsOwned
<1>1. GateInv => SocketsOwned
  BY DEF GateInv, Owned
<1> QED
  BY <1>1, GateAlways, PTL

\* initiate_close and recv, which v_on_... calls after it has dropped the mutex,
\* reach the pin they were meant for, though idents are used again.
THEOREM PinCloseReachesOwn == Spec => []CloseReachesOwn
<1>1. GateInv => CloseReachesOwn
  BY DEF GateInv, Reaches, CloseReachesOwn
<1> QED
  BY <1>1, GateAlways, PTL

\* Data that send_bulk accepted is in the chunks, whole and in place, until the
\* port has reported it sent: no byte is dropped or stored twice on the way
\* through the chunks, and the chunk the port reads from is as it was given.
THEOREM PinDataKept == Spec => []DataKept
<1>1. DataAll => DataKept
  <2> SUFFICES ASSUME DataAll PROVE DataKept
    OBVIOUS
  <2>1. BytesAddUp
    BY DEF DataAll, DataInv, Whole, BytesAddUp
  <2>2. BuffersKept
    BY DEF DataAll, DataInv, Given, BuffersKept
  <2> QED
    BY <2>1, <2>2 DEF DataKept
<1> QED
  BY <1>1, DataAlways, PTL
=============================================================================
