------------------------------ MODULE AioGate -------------------------------
(***************************************************************************)
(* The gate over the sockets (aiogate/aiogate.cpp): pins, which are what   *)
(* the client sees of a connection, over the port SocketPort promises.     *)
(*                                                                         *)
(* Actors: users; the working threads of the port, which run v_on_...;     *)
(* the closer (_pin_thread), which ends pins; the owner, who calls off().  *)
(* A critical section under _pin_mtx is one action.  The mutex is dropped  *)
(* for a client's callback, and between finding a pin and initiate_close.  *)
(*                                                                         *)
(* Abstracted: addresses, the bytes themselves (their number is kept), the *)
(* allocator.  A refused operation of the port needs a failed allocation   *)
(* there (the socket of a pin in the map is open), and is left out.        *)
(***************************************************************************)
EXTENDS Integers, Sequences, FiniteSets, Lists

CONSTANTS Idents,      \* idents of sockets, and of pins
          Users,       \* threads that call the interface
          Workers,     \* working threads of the port
          NoIdent,     \* no pin
          Chunk,       \* BUFFER_CHUNK, in units of data
          Header,      \* sizeof(udp_header), in units of data
          Bulks,       \* what a call of send_bulk may bring: lengths of buffers
          MaxBytes,    \* bound: data accepted for one pin
          Ears,        \* bound: idents that only listeners get
          Binds,       \* may there be UDP pins?
          Stoppable    \* may the owner call off()?

ASSUME ActorsAssumption == Users \cap Workers = {}
ASSUME IdentsAssumption == NoIdent \notin Idents /\ Ears \subseteq Idents
ASSUME SizesAssumption  == {Chunk, Header, MaxBytes} \subseteq Nat \ {0} /\ Header < Chunk
\* send_bulk skips empty buffers, so those of Bulks are not; a call that brings
\* nothing else, while nothing is queued, would read through a null _shead.  It
\* never ends for a datagram that is let through and fits no chunk.
ASSUME BulksAssumption ==
  /\ Bulks \subseteq Seq(Nat \ {0}) \ {<<>>}
  /\ Binds => \A bulk \in Bulks : \A n \in DOMAIN bulk :
                bulk[n] \notin Chunk - Header + 1 .. Chunk + Header
ASSUME SwitchAssumption == {Binds, Stoppable} \subseteq BOOLEAN

Kinds  == {"accept", "connect", "bind", "send", "recv"}
Actors == Users \cup Workers
Operations == Idents \X Kinds     \* names of operations asked of the port

VARIABLES
  open, asked, calls,  \* the port
  listeners,           \* keys of _listener_map
  pin,                 \* pin_info of each ident, with the place where it is
  pinList,             \* _pin_list
  closer,              \* what the closer does, and for which pin
  during,              \* the callback each actor is in: pin and kind
  half,                \* the call each actor has begun: "close" or "recv" of a pin
  up                   \* where the owner is in off()

gateVars == <<listeners, pin, pinList, closer, during, half, up>>
vars == <<open, asked, calls, gateVars>>

Port == INSTANCE SocketPort WITH Tokens <- Operations, Threads <- Workers

None == <<>>
\* `from' and `len' are the part of the first chunk the port was given; `big'
\* says that _rbuf is set.  The rest is history: data accepted, data the port
\* has reported, and whether the last call was refused with part of it stored.
NoPin == [place |-> "none", alive |-> FALSE, udp |-> FALSE, progress |-> {},
          invoking |-> {}, queue |-> <<>>, from |-> 0, len |-> 0, big |-> FALSE,
          taken |-> 0, sent |-> 0, refused |-> FALSE]
NewPin(udp) == [NoPin EXCEPT !.place = "map", !.alive = TRUE, !.udp = udp]

Mapped(i) == pin[i].place = "map"
Alive(i)  == Mapped(i) /\ pin[i].alive

Init ==
  /\ Port!PortInit
  /\ listeners = {}
  /\ pin = [i \in Idents |-> NoPin]
  /\ pinList = <<>>
  /\ closer = [step |-> "idle", ident |-> NoIdent]
  /\ during = [a \in Actors |-> None]
  /\ half = [a \in Actors |-> None]
  /\ up = "on"

\* An actor that may call the gate: a user, or client code in a callback.
CanCall(a) ==
  /\ half[a] = None
  /\ \/ a \in Users /\ up = "on"
     \/ during[a] # None

\* A worker that is to run v_on_... for what the port has to report.
CanAnswer(w) == during[w] = None /\ half[w] = None /\ up # "off"

\* An operation is asked of the port; off() of the port stops the thread that
\* begins operations before it waits for callbacks (AioSock, OffStart).
Ask(k, i) ==
  IF up = "port" THEN UNCHANGED <<open, asked, calls>> ELSE Port!Ask(<<i, k>>, i)

\* The second half of a call; `fresh' is history: the pin is still the same.
Later(name, i, k) == <<[name |-> name, ident |-> i, kind |-> k, fresh |-> TRUE]>>

\* lock_pin: the callback is marked, and the mutex is dropped.
Invoking(p, k) == [p EXCEPT !.invoking = @ \cup {k}]

-----------------------------------------------------------------------------
(* Chunks.                                                                 *)

\* A chunk with its _begin and _end; `grams' are the lengths in the headers of
\* the datagrams from _begin on.
Page(end, grams) == [begin |-> 0, end |-> end, grams |-> grams]

Room(q) == IF q = <<>> THEN 0 ELSE Chunk - q[Len(q)].end

Topped(q, len, grams) ==
  IF len = 0 THEN q
  ELSE [q EXCEPT ![Len(q)].end = @ + len, ![Len(q)].grams = @ \o grams]

\* A stream fills the last chunk and then as many as it needs.
StoredBytes(q, len) ==
  LET head == IF len < Room(q) THEN len ELSE Room(q)
      rest == len - head
      pages == (rest + Chunk - 1) \div Chunk
  IN  Topped(q, head, <<>>) \o
      [n \in 1 .. pages |-> Page(IF n < pages THEN Chunk ELSE rest - Chunk * (pages - 1), <<>>)]

\* A datagram goes with its header on the last chunk, or on a new one.
StoredGram(q, len) ==
  IF q # <<>> /\ Room(q) >= len + Header
  THEN Topped(q, len + Header, <<len>>)
  ELSE Append(q, Page(len + Header, <<len>>))

\* The "UDP protection" of send_bulk.
TooLong(udp, len) == udp /\ len > Chunk + Header

\* The buffers that are stored: those before the first one that is refused.
Accepted(udp, bulk) ==
  IF \E n \in DOMAIN bulk : TooLong(udp, bulk[n])
  THEN SubSeq(bulk, 1, (CHOOSE n \in DOMAIN bulk :
          TooLong(udp, bulk[n]) /\ \A m \in 1 .. n - 1 : ~TooLong(udp, bulk[m])) - 1)
  ELSE bulk

StoredOn(udp, q, len) == IF udp THEN StoredGram(q, len) ELSE StoredBytes(q, len)

\* The chunks when so many buffers of the call are stored.
Chunks(udp, q, bulk) ==
  LET chunks[n \in 0 .. Len(bulk)] ==
        IF n = 0 THEN q ELSE StoredOn(udp, chunks[n - 1], bulk[n])
  IN  chunks

Stored(p, bulk) ==
  [p EXCEPT !.queue = Chunks(p.udp, @, bulk)[Len(bulk)],
            !.taken = @ + Sum(bulk)]

\* The first chunk is given to the port: all of it, or its first datagram,
\* whose header is skipped.
Sending(p) ==
  LET top == Head(p.queue)
      at  == IF p.udp THEN top.begin + Header ELSE top.begin
  IN  [p EXCEPT !.progress = @ \cup {"send"}, !.from = at,
                !.queue[1].begin = at,
                !.queue[1].grams = IF p.udp THEN Tail(@) ELSE @,
                !.len = IF p.udp THEN Head(top.grams) ELSE top.end - at,
                !.refused = FALSE]

\* Mutant: a stream advances by what was asked for, too.
SentAsAsked(p, n) ==
  LET by  == p.len
      top == Head(p.queue)
  IN  [p EXCEPT !.queue = IF top.begin + by = top.end THEN Tail(@)
                          ELSE [@ EXCEPT ![1].begin = top.begin + by],
                !.sent = @ + n]

\* The port has sent n of what it was given; a rest of a datagram is ignored.
Sent(p, n) ==
  LET by  == IF p.udp THEN p.len ELSE n
      top == Head(p.queue)
  IN  [p EXCEPT !.queue = IF top.begin + by = top.end THEN Tail(@)
                          ELSE [@ EXCEPT ![1].begin = top.begin + by],
                !.sent = @ + by]

-----------------------------------------------------------------------------
(* The interface.                                                          *)

\* Nothing of the gate refers to the ident any more; the port gives out those
\* that are unused there.
Listen(a, i) ==
  /\ CanCall(a) /\ i \in Ears
  /\ Port!Create(i)
  /\ listeners' = listeners \cup {i}
  /\ UNCHANGED <<pin, pinList, closer, during, half, up>>

\* Once a listener is started the port posts accepts by itself.
PostAccept(i) ==
  /\ i \in listeners /\ up # "port"
  /\ Port!Ask(<<i, "accept">>, i)
  /\ UNCHANGED gateVars

\* Mutant: the listener is forgotten and its socket left open.
DeafOnly(a, i) ==
  /\ CanCall(a) /\ i \in listeners
  /\ listeners' = listeners \ {i}
  /\ UNCHANGED <<open, asked, calls, pin, pinList, closer, during, half, up>>

Deaf(a, i) ==
  /\ CanCall(a) /\ i \in listeners
  /\ Port!Close(i)
  /\ listeners' = listeners \ {i}
  /\ UNCHANGED <<pin, pinList, closer, during, half, up>>

\* The socket is created before the mutex is taken, but nobody knows it yet.
Connect(a, i) ==
  /\ CanCall(a)
  /\ Port!Unused(i) /\ i \notin Ears
  /\ open' = open \cup {i}
  /\ asked' = IF up = "port" THEN asked ELSE [asked EXCEPT ![<<i, "connect">>] = i]
  /\ pin' = [pin EXCEPT ![i] = [NewPin(FALSE) EXCEPT !.progress = {"connect"}]]
  /\ UNCHANGED <<calls, listeners, pinList, closer, during, half, up>>

\* on_bind is called on the thread of the caller, who is a user.
Bind(a, i) ==
  /\ CanCall(a) /\ a \in Users /\ during[a] = None /\ Binds /\ i \notin Ears
  /\ Port!Create(i)
  /\ pin' = [pin EXCEPT ![i] = Invoking(NewPin(TRUE), "bind")]
  /\ during' = [during EXCEPT ![a] = <<i, "bind">>]
  /\ UNCHANGED <<listeners, pinList, closer, half, up>>

\* A datagram failed: _begin is past its header, where send_bulk would look for
\* one until the pin is closed.
HeaderSkipped(p) ==
  /\ p.udp /\ "send" \notin p.progress
  /\ p.queue # <<>> /\ Head(p.queue).begin = p.from
  /\ p.from > 0

\* send and send_bulk: what fits is stored, and sent if nothing is being sent.
\* A refused buffer ends the call at once, with the buffers before it stored.
SendBulk(a, i, bulk) ==
  LET accepted == Accepted(pin[i].udp, bulk)
      stored == [Stored(pin[i], accepted) EXCEPT !.refused = accepted # bulk]
      start  == accepted = bulk /\ "send" \notin pin[i].progress
  IN
  /\ CanCall(a) /\ Mapped(i)
  /\ stored.taken <= MaxBytes /\ ~HeaderSkipped(pin[i])
  /\ IF start
     THEN Ask("send", i) /\ pin' = [pin EXCEPT ![i] = Sending(stored)]
     ELSE UNCHANGED <<open, asked, calls>> /\ pin' = [pin EXCEPT ![i] = stored]
  /\ UNCHANGED <<listeners, pinList, closer, during, half, up>>

\* The receive of a pin: with a chunk of its own, or with the small _leader.
Receiving(p, big) == [p EXCEPT !.progress = @ \cup {"recv"}, !.big = big]

RecvNow(i, big) ==
  IF Mapped(i) /\ "recv" \notin pin[i].progress
  THEN Ask("recv", i) /\ pin' = [pin EXCEPT ![i] = Receiving(@, big)]
  ELSE UNCHANGED <<open, asked, calls, pin>>

Recv(a, i, big) ==
  /\ CanCall(a) /\ Mapped(i)
  /\ RecvNow(i, big)
  /\ UNCHANGED <<listeners, pinList, closer, during, half, up>>

\* close finds the pin, and unlocks before it closes it.
Close(a, i) ==
  /\ CanCall(a) /\ Mapped(i)
  /\ half' = [half EXCEPT ![a] = Later("close", i, "none")]
  /\ UNCHANGED <<open, asked, calls, listeners, pin, pinList, closer, during, up>>

\* Mutant: a callback of the pin does not matter.
InitiateCloseAtOnce(a) ==
  LET i == half[a][1].ident IN
  /\ half[a] # None /\ half[a][1].name = "close"
  /\ IF ~Mapped(i) THEN UNCHANGED <<pin, pinList>>
     ELSE pin' = [pin EXCEPT ![i].place = "list"] /\ pinList' = Append(pinList, i)
  /\ half' = [half EXCEPT ![a] = None]
  /\ UNCHANGED <<open, asked, calls, listeners, closer, during, up>>

\* A pin that a callback uses is marked dead; any other goes to the closer.
\* A pin that is gone is marked through the end iterator of the map, which
\* reaches no pin.
InitiateClose(a) ==
  LET i == half[a][1].ident IN
  /\ half[a] # None /\ half[a][1].name = "close"
  /\ IF ~Mapped(i) THEN UNCHANGED <<pin, pinList>>
     ELSE IF pin[i].invoking # {}
     THEN pin' = [pin EXCEPT ![i].alive = FALSE] /\ UNCHANGED pinList
     ELSE pin' = [pin EXCEPT ![i].place = "list"] /\ pinList' = Append(pinList, i)
  /\ half' = [half EXCEPT ![a] = None]
  /\ UNCHANGED <<open, asked, calls, listeners, closer, during, up>>

-----------------------------------------------------------------------------
(* What the port calls.                                                    *)

\* v_on_error, for an operation that failed: the pin is closed.
OnError(w, i, k) ==
  /\ CanAnswer(w)
  /\ Port!Answer(w, <<i, k>>)
  /\ IF k # "accept" /\ Alive(i)
     THEN /\ pin' = [pin EXCEPT ![i].progress = @ \ {k}]
          /\ half' = [half EXCEPT ![w] = Later("close", i, k)]
     ELSE UNCHANGED <<pin, half>>
  /\ UNCHANGED <<listeners, pinList, closer, during, up>>

\* The callback of the client begins.
CallBack(w, i, k, p) ==
  /\ pin' = [pin EXCEPT ![i] = Invoking(p, k)]
  /\ during' = [during EXCEPT ![w] = <<i, k>>]

\* v_on_accept: a new pin, and on_accept; the listener may have gone, or the
\* peer, and then the socket is closed.
OnAccept(w, i, j) ==
  /\ CanAnswer(w)
  /\ IF i \in listeners
     THEN \/ /\ Port!AnswerAccept(w, <<i, "accept">>, j) /\ j \notin Ears
             /\ CallBack(w, j, "accept", NewPin(FALSE))
          \/ Port!Answer(w, <<i, "accept">>) /\ UNCHANGED <<pin, during>>
     ELSE Port!Answer(w, <<i, "accept">>) /\ UNCHANGED <<pin, during>>
  /\ UNCHANGED <<listeners, pinList, closer, half, up>>

\* The callbacks of a pin that is gone or dead are not for the client.
Ignored(w, i, k) ==
  /\ CanAnswer(w) /\ k # "accept" /\ ~Alive(i)
  /\ Port!Answer(w, <<i, k>>)
  /\ UNCHANGED gateVars

OnConnect(w, i) ==
  /\ CanAnswer(w) /\ Alive(i)
  /\ Port!Answer(w, <<i, "connect">>)
  /\ \/ CallBack(w, i, "connect", pin[i]) /\ UNCHANGED half
     \/ /\ pin' = [pin EXCEPT ![i].progress = @ \ {"connect"}]
        /\ half' = [half EXCEPT ![w] = Later("close", i, "connect")]
        /\ UNCHANGED during
  /\ UNCHANGED <<listeners, pinList, closer, up>>

\* v_on_send: the rest is sent in the same section; on_send when there is none.
OnSend(w, i, n) ==
  LET p == Sent(pin[i], n) IN
  /\ CanAnswer(w) /\ Alive(i)
  /\ asked[<<i, "send">>] = i /\ n \in 1 .. pin[i].len
  /\ IF p.queue # <<>>
     THEN /\ calls[w] = NoIdent /\ calls' = [calls EXCEPT ![w] = i]
          /\ asked' = [asked EXCEPT ![<<i, "send">>] = IF up = "port" THEN NoIdent ELSE i]
          /\ pin' = [pin EXCEPT ![i] = Sending(p)]
          /\ UNCHANGED <<open, during>>
     ELSE Port!Answer(w, <<i, "send">>) /\ CallBack(w, i, "send", p)
  /\ UNCHANGED <<listeners, pinList, closer, half, up>>

\* v_on_receive: nothing received on a stream is the end of it.
OnRecv(w, i) ==
  /\ CanAnswer(w) /\ Alive(i)
  /\ Port!Answer(w, <<i, "recv">>)
  /\ \/ CallBack(w, i, "recv", pin[i]) /\ UNCHANGED half
     \/ ~pin[i].udp /\ half' = [half EXCEPT ![w] = Later("close", i, "recv")]
                    /\ UNCHANGED <<pin, during>>
  /\ UNCHANGED <<listeners, pinList, closer, up>>

\* Mutant: all of the mask is cleared.
ReleasedAll(p, k) == [p EXCEPT !.invoking = @ \ {k}, !.progress = {}]

\* unlock_pin, for a pin that is in the map: the masks are cleared.
Released(p, k) ==
  [p EXCEPT !.invoking = @ \ {k}, !.progress = IF k = "accept" THEN @ ELSE @ \ {k}]

\* Mutant: it is left to close when an operation is still under way.
LastOfDeadAndQuiet(p) == p.invoking = {} /\ ~p.alive /\ p.progress = {}

\* The last callback of a dead pin closes it.
LastOfDead(p) == p.invoking = {} /\ ~p.alive

\* Mutant: the data stored during on_send is left to the next call.
MoreToSendLater(p, k) == FALSE

\* Data stored during on_send, which nobody else sends.
MoreToSend(p, k) == k = "send" /\ p.alive /\ p.queue # <<>>

\* The client's callback returns, and the rest of bind or v_on_...: on_send may
\* have left more to send; on_recv may ask for the next receive.
EndCallback(a) ==
  LET i == during[a][1]
      k == during[a][2]
      p == Released(pin[i], k)
  IN
  /\ during[a] # None /\ half[a] = None
  /\ during' = [during EXCEPT ![a] = None]
  /\ IF ~Mapped(i) THEN UNCHANGED <<open, asked, calls, pin, half>>
     ELSE
     /\ IF MoreToSend(p, k)
        THEN Ask("send", i) /\ pin' = [pin EXCEPT ![i] = Sending(p)]
        ELSE UNCHANGED <<open, asked, calls>> /\ pin' = [pin EXCEPT ![i] = p]
     /\ IF LastOfDead(p) THEN half' = [half EXCEPT ![a] = Later("close", i, k)]
        ELSE \/ UNCHANGED half
             \/ k = "recv" /\ half' = [half EXCEPT ![a] = Later("recv", i, k)]
  /\ UNCHANGED <<listeners, pinList, closer, up>>

\* recv, which v_on_receive calls after it unlocked.
RecvAgain(w, big) ==
  /\ half[w] # None /\ half[w][1].name = "recv"
  /\ RecvNow(half[w][1].ident, big)
  /\ half' = [half EXCEPT ![w] = None]
  /\ UNCHANGED <<listeners, pinList, closer, during, up>>

\* v_on_... returns to the port.
Return(w) ==
  /\ during[w] = None /\ half[w] = None
  /\ Port!Return(w)
  /\ UNCHANGED gateVars

-----------------------------------------------------------------------------
(* The closer (v_do_job, final_close) and the owner.                       *)

Take ==
  /\ closer.step = "idle" /\ pinList # <<>> /\ up = "on"
  /\ closer' = [step |-> "on_close", ident |-> Head(pinList)]
  /\ pin' = [pin EXCEPT ![Head(pinList)].place = "final"]
  /\ pinList' = Tail(pinList)
  /\ UNCHANGED <<open, asked, calls, listeners, during, half, up>>

\* on_close returns and the socket is closed: the ident may be used again.
ClosePort ==
  LET i == closer.ident IN
  /\ closer.step = "on_close"
  /\ Port!Close(i)
  /\ closer' = [closer EXCEPT !.step = "destroy"]
  /\ pin' = [pin EXCEPT ![i] = NoPin]
  /\ half' = [a \in Actors |-> IF half[a] # None /\ half[a][1].ident = i
                               THEN <<[half[a][1] EXCEPT !.fresh = FALSE]>>
                               ELSE half[a]]
  /\ UNCHANGED <<listeners, pinList, during, up>>

\* The buffers are given back and the client's object is destroyed.
Destroy ==
  /\ closer.step = "destroy"
  /\ closer' = [step |-> "idle", ident |-> NoIdent]
  /\ UNCHANGED <<open, asked, calls, listeners, pin, pinList, during, half, up>>

\* The owner calls off() when the users have stopped.
OffStart ==
  /\ Stoppable /\ up = "on"
  /\ \A a \in Users : during[a] = None /\ half[a] = None
  /\ up' = "stopping"
  /\ UNCHANGED <<open, asked, calls, listeners, pin, pinList, closer, during, half>>

\* Mutant: off() waits for the list to be worked off.
OffThreadPatient ==
  /\ up = "stopping" /\ closer.step = "idle" /\ pinList = <<>>
  /\ up' = "port"
  /\ UNCHANGED <<open, asked, calls, listeners, pin, pinList, closer, during, half>>

\* _pin_thread is stopped, in the midst of its list, and the port is to follow.
OffThread ==
  /\ up = "stopping" /\ closer.step = "idle"
  /\ up' = "port"
  /\ UNCHANGED <<open, asked, calls, listeners, pin, pinList, closer, during, half>>

OffPort ==
  /\ up = "port"
  /\ Port!Down
  /\ up' = "clear"
  /\ UNCHANGED <<listeners, pin, pinList, closer, during, half>>

\* Every pin is destroyed, without on_close.
OffClear ==
  /\ up = "clear"
  /\ pin' = [i \in Idents |-> NoPin] /\ pinList' = <<>>
  /\ up' = "off"
  /\ UNCHANGED <<open, asked, calls, listeners, closer, during, half>>

-----------------------------------------------------------------------------
Call(a) ==
  \E i \in Idents :
    \/ Listen(a, i) \/ Deaf(a, i) \/ Connect(a, i) \/ Bind(a, i) \/ Close(a, i)
    \/ \E bulk \in Bulks : SendBulk(a, i, bulk)
    \/ \E big \in BOOLEAN : Recv(a, i, big)

Answered(w) ==
  \E i \in Idents :
    \/ \E k \in Kinds : OnError(w, i, k) \/ Ignored(w, i, k)
    \/ \E j \in Idents : OnAccept(w, i, j)
    \/ \E n \in 1 .. Chunk : OnSend(w, i, n)
    \/ OnConnect(w, i) \/ OnRecv(w, i)

Again(w) == \E big \in BOOLEAN : RecvAgain(w, big)

CloseSteps == Take \/ ClosePort \/ Destroy
OffSteps == OffThread \/ OffPort \/ OffClear

Next ==
  \/ \E a \in Actors : Call(a) \/ InitiateClose(a) \/ EndCallback(a)
  \/ \E w \in Workers : Answered(w) \/ Again(w) \/ Return(w)
  \/ \E i \in Idents : PostAccept(i)
  \/ CloseSteps \/ OffStart \/ OffSteps

Spec == Init /\ [][Next]_vars

\* Threads run, callbacks return, though their code may call the gate again and
\* again before; off() goes on; nothing is asked of users, of peers and of accepts.
Fairness ==
  /\ \A a \in Actors : WF_vars(InitiateClose(a)) /\ SF_vars(EndCallback(a))
  /\ \A w \in Workers : WF_vars(Again(w)) /\ WF_vars(Return(w))
  /\ WF_vars(CloseSteps) /\ WF_vars(OffSteps)

LiveSpec == Spec /\ Fairness

-----------------------------------------------------------------------------
(* Properties.                                                             *)

\* While a callback of a pin runs the pin stays in the map, marked with it, so
\* that on_close is its last callback and its object is not destroyed under
\* it; and no two callbacks of one kind run at once for a pin (the promise of
\* aiogatefactory.h about on_recv, the assertion of lock_pin).
CallbacksMarked ==
  /\ \A a \in Actors : during[a] # None =>
       Mapped(during[a][1]) /\ during[a][2] \in pin[during[a][1]].invoking
  /\ \A i \in Idents : \A k \in pin[i].invoking :
       Cardinality({a \in Actors : during[a] = <<i, k>>}) = 1

ClosingSoon(i) ==
  \E a \in Actors : half[a] # None /\ half[a][1].name = "close" /\ half[a][1].ident = i

\* A dead pin is always somebody's to close: a callback runs that will find it
\* dead, or a thread is on its way into initiate_close.
DeadIsClosed ==
  \A i \in Idents :
    Mapped(i) /\ ~pin[i].alive =>
      pin[i].invoking # {} \/ ClosingSoon(i)

\* Whoever is last closes a dead pin: not before every callback of it is over
\* (unlock_pin, initiate_close), and never nobody.
ClosedByLast == CallbacksMarked /\ DeadIsClosed

\* What the port was asked to do for a pin is in the pin's mask until it is
\* answered: no second send or receive is started beside it, with the buffer.
ProgressKnown ==
  \A i \in Idents : \A k \in {"send", "recv", "connect"} :
    asked[<<i, k>>] = i /\ Mapped(i) => k \in pin[i].progress

\* The bytes of a chunk stay until the port has sent them: through close, until
\* the socket is closed, the first chunk is as it was given.
BuffersKept ==
  \A i \in Idents :
    asked[<<i, "send">>] = i =>
      /\ pin[i].queue # <<>>
      /\ Head(pin[i].queue).begin = pin[i].from
      /\ pin[i].from + pin[i].len <= Head(pin[i].queue).end

\* The datagram the port was given, whose header is behind _begin.
InFlight(p) ==
  IF p.udp /\ p.queue # <<>> /\ Head(p.queue).begin = p.from THEN p.len ELSE 0

\* What the chunks hold from _begin on, without headers.
Values(udp, q) ==
  [n \in DOMAIN q |-> IF udp THEN Sum(q[n].grams) ELSE q[n].end - q[n].begin]
Held(udp, q) == Sum(Values(udp, q))

\* Data that was accepted and not yet reported sent is in the chunks: nothing
\* is dropped or stored twice, wherever the chunks begin and end.
BytesAddUp ==
  \A i \in Idents : pin[i].taken - pin[i].sent = InFlight(pin[i]) + Held(pin[i].udp, pin[i].queue)

\* Data stays whole and in place from send_bulk to the end of v_on_send.
DataKept == BytesAddUp /\ BuffersKept

\* What a living pin has stored is being sent, unless a thread is about to
\* close the pin, or a call of send_bulk was refused with part of it stored.
StoredIsSent ==
  \A i \in Idents :
    Alive(i) /\ pin[i].queue # <<>> /\ ~pin[i].refused =>
      "send" \in pin[i].progress \/ ClosingSoon(i)

\* Every open socket belongs to a listener or to a pin that will be closed.
SocketsOwned ==
  up \in {"on", "stopping", "port"} =>
    open = listeners \cup {i \in Idents : pin[i].place # "none"}

\* A callback of the port that is about to close its pin, or to receive again,
\* does not reach another pin that was given the ident meanwhile.
CloseReachesOwn ==
  \A w \in Workers :
    half[w] # None /\ half[w][1].ident = calls[w] /\ Mapped(calls[w]) => half[w][1].fresh

\* A pin that is dead, or on the list, is closed.
DeadEnds ==
  \A i \in Idents :
    (up = "on" /\ (pin[i].place \in {"list", "final"} \/ (Mapped(i) /\ ~pin[i].alive)))
      ~> (pin[i].place = "none" \/ up # "on")

\* off() ends, and leaves no pin.
OffEnds == (up # "on") ~> (up = "off" /\ \A i \in Idents : pin[i].place = "none")
=============================================================================
