----------------------------- MODULE MsgRequests ----------------------------
(***************************************************************************)
(* The user's connection of a communicator (msg_user.cpp and stop() of     *)
(* msgimpl.cpp in aiomsg): synchronous and asynchronous requests against   *)
(* their replies and timeouts, incoming messages, and the end of it all.   *)
(*                                                                         *)
(* Actors: users that call send() and send_async(); the pool's threads of  *)
(* the connection, ident 0 for replies to asynchronous requests, 1 for     *)
(* their timeouts, 255 and up for incoming messages; the communicator's    *)
(* thread, which pushes messages here and deletes the connection; the      *)
(* timer; a user that calls stop().  Each critical section is one action.  *)
(*                                                                         *)
(* Abstracted: the rest of the communicator and the network, which may     *)
(* refuse a message, lose it, or bring one reply, true or an error, at any *)
(* later time (MsgConnection); post(), which keeps nothing here; copies of *)
(* messages and who destroys them; capacities of the queue and the pool.   *)
(***************************************************************************)
EXTENDS Naturals, Sequences, FiniteSets

CONSTANTS Users, Events, None,
          Sync, Async,    \* requests that may be made, by kind
          Incoming,       \* messages that may arrive
          Extra,          \* _additional_threads
          MaxMade         \* bound: requests made and messages arrived

ASSUME RequestsAssumption ==
  Sync \cap Async = {} /\ None \notin Sync \cup Async \cup Incoming \cup Events
ASSUME ExtraAssumption == {Extra, MaxMade} \subseteq Nat

Requests == Sync \cup Async
Queued   == 255 .. 255 + Extra
Threads  == {0, 1} \cup Queued

VARIABLES
  on, life,       \* _on; whether the connection has been deleted
  stop,           \* where the caller of stop() is
  call,           \* what each user is doing
  signaled,       \* events that are set
  waits, ready,   \* _map: the event of a request; which have their reply
  result,         \* what became of a synchronous request
  trip,           \* where the message or its reply is
  amap, alist,    \* _async_map and _async_list
  expired,        \* asynchronous requests whose time has come
  accepted,       \* history: requests that send_async gave a marker for
  called,         \* history: the callbacks of each request
  queue,          \* the message queue of incoming messages
  thread,         \* the pool's threads
  bell            \* threads whose wake-up event is set

syncVars  == <<call, signaled, waits, ready, result>>
asyncVars == <<amap, alist, expired, accepted, called>>
poolVars  == <<thread, bell>>
lifeVars  == <<on, life, stop>>
vars == <<lifeVars, syncVars, trip, asyncVars, queue, poolVars>>

Free    == [at |-> "out", req |-> None, event |-> None]
Resting == [at |-> "asleep", has |-> None]

Init ==
  /\ on = TRUE /\ life = "live" /\ stop = "none"
  /\ call = [u \in Users |-> Free]
  /\ signaled = {}
  /\ waits = [r \in Requests |-> None] /\ ready = {}
  /\ result = [r \in Requests |-> "none"]
  /\ trip = [r \in Requests \cup Incoming |-> "none"]
  /\ amap = {} /\ alist = <<>> /\ expired = {} /\ accepted = {}
  /\ called = [r \in Requests |-> <<>>]
  /\ queue = <<>>
  /\ thread = [t \in Threads |-> Resting]
  /\ bell = {255}      \* v_on() wakes it

(* Requests made and messages arrived: MaxMade is a bound.                 *)
Made ==
  {r \in Requests \cup Incoming : trip[r] # "none"} \cup {r \in Requests : result[r] # "none"}
    \cup ({call[u].req : u \in Users} \ {None})

Live     == life = "live"
WaitFree == stop # "revoke"       \* v_off() holds _mtx_wait while it revokes
Blocked  == stop \in {"blocked", "told"}

-----------------------------------------------------------------------------
(* borrow_thread wakes the thread of an ident; borrow_from_range the first *)
(* sleeping one before a gap or the end of the range.                      *)
Awake(t)   == thread[t].at # "asleep"
Borrow(t)  == bell' = bell \cup {t}
CanHelp    == \E t \in Queued : ~Awake(t)
Helper     == CHOOSE t \in Queued : ~Awake(t) /\ \A s \in 255 .. t - 1 : Awake(s)
HelperOnly == bell' = IF CanHelp THEN bell \cup {Helper} ELSE bell    \* mutant: nobody else
Help == IF Extra > 0 /\ CanHelp THEN Borrow(Helper) ELSE Borrow(255)

-----------------------------------------------------------------------------
(* send(): an event from the pool, reset because its last user may have    *)
(* left it set; a wait in the map; the message to the communicator.        *)
Inside(u, at) == call[u].at = at /\ Live
Goes(u, at)   == call' = [call EXCEPT ![u].at = at]
Returns(u)    == call' = [call EXCEPT ![u] = Free]
Loaned        == {call[u].event : u \in Users}
(* Until stop() has forgotten the connection.                              *)
MayCall(u, r) ==
  /\ call[u].at = "out" /\ Live /\ stop # "told"
  /\ r \notin Made /\ Cardinality(Made) < MaxMade

\* Mutant: the event is used as it comes.
SendAsIs(u) ==
  \E r \in Sync, e \in Events \ Loaned :
    /\ MayCall(u, r) /\ WaitFree
    /\ call' = [call EXCEPT ![u] = [at |-> "push", req |-> r, event |-> e]]
    /\ waits' = [waits EXCEPT ![r] = e]
    /\ UNCHANGED <<lifeVars, signaled, ready, result, trip, asyncVars, queue, poolVars>>

Send(u) ==
  \E r \in Sync, e \in Events \ Loaned :
    /\ MayCall(u, r) /\ WaitFree
    /\ call' = [call EXCEPT ![u] = [at |-> "push", req |-> r, event |-> e]]
    /\ signaled' = signaled \ {e}
    /\ waits' = [waits EXCEPT ![r] = e]
    /\ UNCHANGED <<lifeVars, ready, result, trip, asyncVars, queue, poolVars>>

(* No event is free in time.                                               *)
SendNoEvent(u) ==
  \E r \in Sync :
    /\ MayCall(u, r) /\ Events \subseteq Loaned
    /\ result' = [result EXCEPT ![r] = "refused"]
    /\ UNCHANGED <<lifeVars, call, signaled, waits, ready, trip, asyncVars, queue, poolVars>>

Pushes(u) ==
  /\ Inside(u, "push")
  /\ trip' = [trip EXCEPT ![call[u].req] = "out"]
  /\ Goes(u, "wait")
  /\ UNCHANGED <<lifeVars, signaled, waits, ready, result, asyncVars, queue, poolVars>>

Erased(r) ==
  /\ waits' = [waits EXCEPT ![r] = None]
  /\ ready' = ready \ {r}
EndsWith(u, what) ==
  /\ result' = [result EXCEPT ![call[u].req] = what]
  /\ Erased(call[u].req)
  /\ Returns(u)

PushRefused(u) ==
  /\ Inside(u, "push") /\ WaitFree
  /\ EndsWith(u, "refused")
  /\ UNCHANGED <<lifeVars, signaled, trip, asyncVars, queue, poolVars>>

(* The event resets itself for the wait that it ends.                      *)
Woken(u) ==
  /\ Inside(u, "wait") /\ call[u].event \in signaled
  /\ signaled' = signaled \ {call[u].event}
  /\ Goes(u, "woken")
  /\ UNCHANGED <<lifeVars, waits, ready, result, trip, asyncVars, queue, poolVars>>
TimesOut(u) ==
  /\ Inside(u, "wait")
  /\ Goes(u, "expired")
  /\ UNCHANGED <<lifeVars, signaled, waits, ready, result, trip, asyncVars, queue, poolVars>>

(* The reply is taken, none or not; a reply that came after the time was   *)
(* out is dropped with the wait, and leaks.                                *)
Collects(u) ==
  /\ Inside(u, "woken") /\ WaitFree
  /\ EndsWith(u, IF call[u].req \in ready THEN "reply" ELSE "null")
  /\ UNCHANGED <<lifeVars, signaled, trip, asyncVars, queue, poolVars>>
GivesUp(u) ==
  /\ Inside(u, "expired") /\ WaitFree
  /\ EndsWith(u, "timeout")
  /\ UNCHANGED <<lifeVars, signaled, trip, asyncVars, queue, poolVars>>

-----------------------------------------------------------------------------
(* send_async(): into the map, then to the communicator.  When that        *)
(* refuses, the entry stays in the map although the call has failed.       *)
SendAsync(u) ==
  \E r \in Async :
    /\ MayCall(u, r)
    /\ amap' = amap \cup {r}
    /\ call' = [call EXCEPT ![u] = [Free EXCEPT !.at = "post", !.req = r]]
    /\ UNCHANGED <<lifeVars, signaled, waits, ready, result, trip, alist, expired, accepted,
                   called, queue, poolVars>>
Posts(u) ==
  /\ Inside(u, "post")
  /\ trip' = [trip EXCEPT ![call[u].req] = "out"]
  /\ accepted' = accepted \cup {call[u].req}
  /\ Returns(u)
  /\ UNCHANGED <<lifeVars, signaled, waits, ready, result, amap, alist, expired, called,
                 queue, poolVars>>
PostRefused(u) ==
  /\ Inside(u, "post")
  /\ trip' = [trip EXCEPT ![call[u].req] = "over"]
  /\ Returns(u)
  /\ UNCHANGED <<lifeVars, signaled, waits, ready, result, asyncVars, queue, poolVars>>

-----------------------------------------------------------------------------
(* The communicator's thread: push_msg, under _mtx_conn.                   *)

(* The world answers a request; the answer may find its wait gone.         *)
PushReply(r) ==
  /\ r \in Sync /\ trip[r] = "out" /\ Live /\ WaitFree
  /\ trip' = [trip EXCEPT ![r] = "over"]
  /\ IF waits[r] = None THEN UNCHANGED <<ready, signaled>>
     ELSE ready' = ready \cup {r} /\ signaled' = signaled \cup {waits[r]}
  /\ UNCHANGED <<lifeVars, call, waits, result, asyncVars, queue, poolVars>>

\* Mutant: the entry is copied to the list.
PushAsyncTwice(r) ==
  /\ r \in Async /\ trip[r] = "out" /\ Live
  /\ trip' = [trip EXCEPT ![r] = "over"]
  /\ IF r \in amap
     THEN /\ alist' = Append(alist, r) /\ Borrow(0)
     ELSE Borrow(1) /\ UNCHANGED alist
  /\ UNCHANGED <<lifeVars, syncVars, amap, expired, accepted, called, queue, thread>>

\* Mutant: the thread of the timeouts is woken.
PushAsyncToTimeouts(r) ==
  /\ r \in Async /\ trip[r] = "out" /\ Live
  /\ trip' = [trip EXCEPT ![r] = "over"]
  /\ IF r \in amap THEN amap' = amap \ {r} /\ alist' = Append(alist, r)
     ELSE UNCHANGED <<amap, alist>>
  /\ Borrow(1)
  /\ UNCHANGED <<lifeVars, syncVars, expired, accepted, called, queue, thread>>

(* The entry moves from the map to the list, and thread 0 is woken; a late *)
(* reply is destroyed, and wakes thread 1.                                 *)
PushAsync(r) ==
  /\ r \in Async /\ trip[r] = "out" /\ Live
  /\ trip' = [trip EXCEPT ![r] = "over"]
  /\ IF r \in amap
     THEN amap' = amap \ {r} /\ alist' = Append(alist, r) /\ Borrow(0)
     ELSE Borrow(1) /\ UNCHANGED <<amap, alist>>
  /\ UNCHANGED <<lifeVars, syncVars, expired, accepted, called, queue, thread>>

(* An incoming message is queued and a thread woken.                       *)
PushIncoming(m) ==
  /\ m \in Incoming /\ trip[m] = "none" /\ Live
  /\ Cardinality(Made) < MaxMade
  /\ trip' = [trip EXCEPT ![m] = "over"]
  /\ IF Blocked THEN UNCHANGED <<queue, bell>>
     ELSE queue' = Append(queue, m) /\ Help
  /\ UNCHANGED <<lifeVars, syncVars, asyncVars, thread>>

(* ping_notify, from the timer, of a connection that is not blocked.       *)
Ping ==
  /\ Live /\ ~Blocked
  /\ amap \cap expired # {}
  /\ Borrow(1)
  /\ UNCHANGED <<lifeVars, syncVars, trip, asyncVars, queue, thread>>
Expire(r) ==
  /\ r \in amap \ expired
  /\ expired' = expired \cup {r}
  /\ UNCHANGED <<lifeVars, syncVars, trip, amap, alist, accepted, called, queue, poolVars>>

-----------------------------------------------------------------------------
(* A thread of the pool: woken, it asks v_has_job until there is no job,   *)
(* and only then goes back to sleep (which borrow_from_range looks at).    *)
HasJob(t) ==
  /\ on
  /\ CASE t = 0 -> alist # <<>>
       [] t = 1 -> amap \cap expired # {}
       [] OTHER -> ~Blocked /\ queue # <<>>
Runs(t, at, has) == thread' = [thread EXCEPT ![t] = [at |-> at, has |-> has]]
In(t, at)        == thread[t].at = at /\ Live

Wakes(t) ==
  /\ In(t, "asleep") /\ t \in bell
  /\ bell' = bell \ {t}
  /\ Runs(t, "ask", None)
  /\ UNCHANGED <<lifeVars, syncVars, trip, asyncVars, queue>>
Asks(t) ==
  /\ In(t, "ask")
  /\ Runs(t, IF HasJob(t) THEN "job" ELSE IF t \in Queued THEN "rest" ELSE "asleep", None)
  /\ UNCHANGED <<lifeVars, syncVars, trip, asyncVars, queue, bell>>
Sleeps(t) ==
  /\ thread[t].at = "rest"
  /\ Runs(t, "asleep", None)
  /\ UNCHANGED <<lifeVars, syncVars, trip, asyncVars, queue, bell>>

(* Thread 0: the first reply of the list is called back.                   *)
PopAsync ==
  /\ In(0, "job") /\ alist # <<>>
  /\ alist' = Tail(alist)
  /\ called' = [called EXCEPT ![Head(alist)] = Append(@, "reply")]
  /\ Runs(0, "call", Head(alist))
  /\ UNCHANGED <<lifeVars, syncVars, trip, amap, expired, accepted, queue, bell>>

(* Thread 1: every expired request, one after the other.                   *)
PopExpired(r) ==
  /\ In(1, "job") /\ r \in amap \cap expired
  /\ amap' = amap \ {r}
  /\ called' = [called EXCEPT ![r] = Append(@, "timeout")]
  /\ Runs(1, "call", r)
  /\ UNCHANGED <<lifeVars, syncVars, trip, alist, expired, accepted, queue, bell>>

(* Threads 255 and up: a message is popped; if there are more, another     *)
(* thread is woken; the callback is made.                                  *)
PopIncoming(t) ==
  /\ t \in Queued /\ In(t, "job") /\ queue # <<>>
  /\ queue' = Tail(queue)
  /\ Runs(t, "popped", Head(queue))
  /\ UNCHANGED <<lifeVars, syncVars, trip, asyncVars, bell>>
CallsIn(t) ==
  /\ In(t, "popped")
  /\ IF Extra > 0 /\ queue # <<>> THEN Help ELSE UNCHANGED bell
  /\ Runs(t, "call", thread[t].has)
  /\ UNCHANGED <<lifeVars, syncVars, trip, asyncVars, queue>>

(* What it was told of is gone: another thread took it, or a reply came.   *)
NothingLeft(t) ==
  /\ In(t, "job")
  /\ CASE t = 0 -> alist = <<>> [] t = 1 -> amap \cap expired = {} [] OTHER -> queue = <<>>
  /\ Runs(t, "ask", None)
  /\ UNCHANGED <<lifeVars, syncVars, trip, asyncVars, queue, bell>>

(* The callback is over, and the reply to a request is on its way.         *)
CallEnds(t) ==
  /\ In(t, "call")
  /\ Runs(t, IF t = 1 THEN "job" ELSE "ask", None)
  /\ UNCHANGED <<lifeVars, syncVars, trip, asyncVars, queue, bell>>

-----------------------------------------------------------------------------
(* stop(): v_off wakes every wait with no reply, and, with _mtx_wait still *)
(* held, revokes the connection from the pool and turns it off; then       *)
(* shutdown_connection blocks the queue, revokes again and orders the      *)
(* communicator's thread to delete the connection.                         *)
Waiting == {r \in Requests : waits[r] # None}
StopWaits ==
  /\ stop = "none"
  /\ stop' = "revoke"
  /\ ready' = {}
  /\ signaled' = signaled \cup {waits[r] : r \in Waiting}
  /\ UNCHANGED <<on, life, call, waits, result, trip, asyncVars, queue, poolVars>>
StopRevokes ==
  /\ stop = "revoke"
  /\ stop' = "off"
  /\ on' = FALSE /\ bell' = {}
  /\ UNCHANGED <<life, syncVars, trip, asyncVars, queue, thread>>
StopBlocks ==
  /\ stop = "off"
  /\ stop' = "blocked"
  /\ UNCHANGED <<on, life, syncVars, trip, asyncVars, queue, poolVars>>
StopTells ==
  /\ stop = "blocked"
  /\ stop' = "told" /\ bell' = {}
  /\ UNCHANGED <<on, life, syncVars, trip, asyncVars, queue, thread>>

(* _close_connection: the destructor wakes the waits and clears all.       *)
CommDelete ==
  /\ stop = "told" /\ Live
  /\ life' = "deleted"
  /\ signaled' = signaled \cup {waits[r] : r \in Waiting}
  /\ waits' = [r \in Requests |-> None] /\ ready' = {}
  /\ amap' = {} /\ alist' = <<>> /\ queue' = <<>>
  /\ UNCHANGED <<on, stop, call, result, trip, expired, accepted, called, poolVars>>

-----------------------------------------------------------------------------
UserCalls(u) == Send(u) \/ SendNoEvent(u) \/ SendAsync(u)
UserStep(u) ==
  \/ Pushes(u) \/ PushRefused(u) \/ Woken(u) \/ TimesOut(u) \/ Collects(u) \/ GivesUp(u)
  \/ Posts(u) \/ PostRefused(u)
ThreadStep(t) ==
  Wakes(t) \/ Asks(t) \/ Sleeps(t) \/ PopIncoming(t) \/ CallsIn(t) \/ NothingLeft(t) \/ CallEnds(t)
StopStep == StopRevokes \/ StopBlocks \/ StopTells \/ CommDelete
Due ==
  \/ \E u \in Users : UserStep(u)
  \/ \E t \in Threads : ThreadStep(t)
  \/ PopAsync \/ Ping \/ \E r \in Async : PopExpired(r) \/ Expire(r)

Next ==
  \/ Due \/ StopWaits \/ StopStep
  \/ \E u \in Users : UserCalls(u)
  \/ \E r \in Requests : PushReply(r) \/ PushAsync(r)
  \/ \E m \in Incoming : PushIncoming(m)

Spec == Init /\ [][Next]_vars

(* Threads, callers and the timer keep running, the client's callbacks     *)
(* return, and timeouts are finite; nobody owes a call, a reply or a stop. *)
(* One condition does for all but stop(): it is the only one that the      *)
(* others can keep waiting, by pings of a connection that is off.          *)
FairSpec == Spec /\ WF_vars(Due) /\ WF_vars(StopStep)

-----------------------------------------------------------------------------
(* send() returns true without a reply (msg_user.cpp:268-280) only because *)
(* the connection was turned off: an event that was left set by its last   *)
(* user never ends the wait of the next one.                               *)
NullReplyMeansOff == \A r \in Sync : result[r] = "null" => stop # "none"

(* An asynchronous request is called back once, with its reply or for its  *)
(* timeout, whatever happens at the same time: while it is in the map or   *)
(* in the list, and in one of them only, it has not been.                  *)
AsyncOnce ==
  \A r \in Async :
    Len(called[r]) + (IF r \in amap THEN 1 ELSE 0)
      + Cardinality({k \in DOMAIN alist : alist[k] = r}) <= 1

(* What send_async accepted is called back in the end, unless the          *)
(* connection is turned off.                                               *)
AsyncAnswered ==
  \A r \in Async : r \in accepted ~> called[r] # <<>> \/ stop # "none"

(* An incoming message is taken, though borrow_from_range passes over      *)
(* threads that have just found nothing to do.                             *)
IncomingTaken == queue # <<>> ~> queue = <<>> \/ stop # "none"
=============================================================================
