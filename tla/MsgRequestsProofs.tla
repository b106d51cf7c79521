-------------------------- MODULE MsgRequestsProofs -------------------------
(***************************************************************************)
(* Proofs about MsgRequests for every number of users, events, requests    *)
(* and messages, and whatever the bound MaxMade.                           *)
(***************************************************************************)
EXTENDS MsgRequests, ListProofs

(* Where a user is while it has an event and a wait in the map.            *)
Held == {"push", "wait", "woken", "expired"}
Holds(u) == call[u].at \in Held

Listed == Elements(alist)

-----------------------------------------------------------------------------
(* The invariants.                                                         *)

Calls == [at : Held \cup {"out", "post"}, req : Requests \cup {None}, event : Events \cup {None}]

UserTypes ==
  /\ call \in [Users -> Calls]
  /\ \A u \in Users : Holds(u) => call[u].req \in Sync /\ call[u].event \in Events
  /\ \A u \in Users : call[u].at = "post" => call[u].req \in Async
  /\ signaled \subseteq Events
  /\ waits \in [Requests -> Events \cup {None}]
  /\ ready \subseteq Requests
  /\ result \in [Requests -> {"none", "refused", "reply", "null", "timeout"}]
  /\ trip \in [Requests \cup Incoming -> {"none", "out", "over"}]

AsyncTypes ==
  /\ amap \subseteq Async
  /\ alist \in Seq(Async)
  /\ called \in [Requests -> Seq({"reply", "timeout"})]

StopTypes ==
  /\ stop \in {"none", "revoke", "off", "blocked", "told"}
  /\ life \in {"live", "deleted"}

(* Before stop(): a user that holds an event has its wait in the map, and  *)
(* nobody else has that request or that event; no wait is in the map but   *)
(* those; and an event that is set, or that has been waited for, was set   *)
(* for the reply of the request that holds it now.                         *)
WaitsHeld ==
  \A u \in Users : Holds(u) => waits[call[u].req] = call[u].event
NoOtherWaits ==
  \A r \in Requests : waits[r] # None => \E u \in Users : Holds(u) /\ call[u].req = r
HeldByOne ==
  \A u, v \in Users :
    Holds(u) /\ Holds(v) /\ (call[u].req = call[v].req \/ call[u].event = call[v].event) => u = v
SetForReply ==
  \A u \in Users :
    Holds(u) /\ (call[u].at = "woken" \/ call[u].event \in signaled) => call[u].req \in ready
NoNull == \A r \in Sync : result[r] # "null"

SyncInv ==
  stop = "none" => Live /\ WaitsHeld /\ NoOtherWaits /\ HeldByOne /\ SetForReply /\ NoNull

(* An asynchronous request is in one place, and was made.                  *)
InOnePlace ==
  \A r \in Async :
    /\ r \in amap => r \notin Listed /\ called[r] = <<>>
    /\ r \in Listed => called[r] = <<>>
    /\ Len(called[r]) <= 1
ListedOnce == OnceEach(alist)
PlacedWereMade ==
  \A r \in Async :
    r \in amap \/ r \in Listed \/ called[r] # <<>> =>
      trip[r] # "none" \/ \E u \in Users : call[u].at = "post" /\ call[u].req = r

AsyncInv == InOnePlace /\ ListedOnce /\ PlacedWereMade

RequestsInv == UserTypes /\ AsyncTypes /\ StopTypes /\ SyncInv /\ AsyncInv

-----------------------------------------------------------------------------
(* Steps that users, the waits and the asynchronous requests do not see.   *)

LEMMA Frame ==
  ASSUME RequestsInv, UNCHANGED <<lifeVars, syncVars, trip, asyncVars>>
  PROVE  RequestsInv'
<1>1. UserTypes'
  BY DEF RequestsInv, UserTypes, Holds, syncVars
<1>2. AsyncTypes' /\ StopTypes'
  BY DEF RequestsInv, AsyncTypes, StopTypes, asyncVars, lifeVars
<1>3. SyncInv'
  BY DEF RequestsInv, SyncInv, WaitsHeld, NoOtherWaits, HeldByOne, SetForReply, NoNull, Holds,
         Live, syncVars, lifeVars
<1>4. AsyncInv'
  BY DEF RequestsInv, AsyncInv, InOnePlace, ListedOnce, PlacedWereMade, Listed, syncVars, asyncVars
<1>. QED
  BY <1>1, <1>2, <1>3, <1>4 DEF RequestsInv

LEMMA RequestsInit == Init => RequestsInv
<1>. SUFFICES ASSUME Init PROVE RequestsInv
  OBVIOUS
<1>1. UserTypes
  BY RequestsAssumption DEF Init, UserTypes, Calls, Free, Holds, Held, Requests
<1>2. AsyncTypes /\ StopTypes
  BY DEF Init, AsyncTypes, StopTypes
<1>3. SyncInv
  BY DEF Init, SyncInv, WaitsHeld, NoOtherWaits, HeldByOne, SetForReply, NoNull, Holds, Held,
         Live, Free, Requests
<1>4. AsyncInv
  BY DEF Init, AsyncInv, InOnePlace, ListedOnce, PlacedWereMade, Listed, Elements, OnceEach,
     Requests
<1>. QED
  BY <1>1, <1>2, <1>3, <1>4 DEF RequestsInv

-----------------------------------------------------------------------------
(* A user's synchronous request.                                           *)

\* What a new request cannot be, and its event.
LEMMA Fresh ==
  ASSUME RequestsInv, NEW u \in Users, NEW r \in Requests, MayCall(u, r)
  PROVE  /\ ~Holds(u) /\ call[u].at # "post"
         /\ trip[r] = "none" /\ result[r] = "none"
         /\ \A v \in Users : call[v].req # r
         /\ r \notin amap /\ r \notin Listed
<1>1. ~Holds(u) /\ call[u].at # "post"
  BY DEF MayCall, Holds, Held
<1>2. /\ trip[r] = "none" /\ result[r] = "none"
      /\ \A v \in Users : call[v].req # r
  BY RequestsAssumption DEF MayCall, Made, Requests
<1>3. \A k \in DOMAIN alist : alist[k] \in Async
  BY DEF RequestsInv, AsyncTypes
<1>4. ~(r \in Async /\ (r \in amap \/ r \in Listed))
  BY <1>2, RequestsAssumption DEF RequestsInv, AsyncInv, PlacedWereMade, Requests
<1>. QED
  BY <1>1, <1>2, <1>3, <1>4 DEF RequestsInv, AsyncTypes, Listed, Elements

LEMMA SendStep ==
  ASSUME RequestsInv, NEW u \in Users, Send(u)
  PROVE  RequestsInv'
<1>0. PICK r \in Sync, e \in Events \ Loaned :
        /\ MayCall(u, r)
        /\ call' = [call EXCEPT ![u] = [at |-> "push", req |-> r, event |-> e]]
        /\ signaled' = signaled \ {e}
        /\ waits' = [waits EXCEPT ![r] = e]
        /\ UNCHANGED <<lifeVars, ready, result, trip, asyncVars>>
  BY DEF Send
<1>1. /\ ~Holds(u) /\ call[u].at # "post"
      /\ \A v \in Users : call[v].req # r /\ call[v].event # e
  BY <1>0, Fresh DEF Requests, Loaned
<1>2. UserTypes'
  BY <1>0, RequestsAssumption DEF RequestsInv, UserTypes, Calls, Holds, Held, Requests
<1>3. AsyncTypes' /\ StopTypes'
  BY <1>0 DEF RequestsInv, AsyncTypes, StopTypes, asyncVars, lifeVars
<1>4. SyncInv'
  <2>. SUFFICES ASSUME stop' = "none" PROVE SyncInv'
    BY DEF SyncInv
  <2>0. stop = "none" /\ UserTypes /\ Live /\ WaitsHeld /\ NoOtherWaits /\ HeldByOne /\ SetForReply
          /\ NoNull
    BY <1>0 DEF RequestsInv, SyncInv, lifeVars
  <2>1. /\ call'[u] = [at |-> "push", req |-> r, event |-> e]
        /\ \A v \in Users \ {u} : call'[v] = call[v]
        /\ waits'[r] = e
        /\ \A q \in Requests \ {r} : waits'[q] = waits[q]
    BY <1>0, <2>0 DEF UserTypes, Requests
  <2>2. Live' /\ NoNull'
    BY <1>0, <2>0 DEF Live, NoNull, lifeVars
  <2>3. WaitsHeld'
    BY <1>1, <2>0, <2>1 DEF WaitsHeld, UserTypes, Holds, Requests
  <2>4. NoOtherWaits'
    BY <1>1, <2>0, <2>1 DEF NoOtherWaits, Holds, Held
  <2>5. HeldByOne'
    BY <1>1, <2>0, <2>1 DEF HeldByOne, Holds
  <2>6. SetForReply'
    BY <1>0, <1>1, <2>0, <2>1 DEF SetForReply, Holds
  <2>. QED
    BY <2>2, <2>3, <2>4, <2>5, <2>6 DEF SyncInv
<1>5. AsyncInv'
  BY <1>0, <1>1 DEF RequestsInv, UserTypes, AsyncInv, InOnePlace, ListedOnce, PlacedWereMade,
     Listed, asyncVars
<1>. QED
  BY <1>2, <1>3, <1>4, <1>5 DEF RequestsInv

LEMMA SendNoEventStep ==
  ASSUME RequestsInv, NEW u \in Users, SendNoEvent(u)
  PROVE  RequestsInv'
<1>0. PICK r \in Sync : result' = [result EXCEPT ![r] = "refused"]
  BY DEF SendNoEvent
<1>1. UNCHANGED <<lifeVars, call, signaled, waits, ready, trip, asyncVars>>
  BY DEF SendNoEvent
<1>2. UserTypes'
  BY <1>0, <1>1 DEF RequestsInv, UserTypes, Holds, Requests
<1>3. AsyncTypes' /\ StopTypes'
  BY <1>1 DEF RequestsInv, AsyncTypes, StopTypes, asyncVars, lifeVars
<1>4. NoNull => NoNull'
  BY <1>0, <1>1 DEF RequestsInv, UserTypes, NoNull, Requests
<1>5. SyncInv'
  BY <1>1, <1>4 DEF RequestsInv, SyncInv, WaitsHeld, NoOtherWaits, HeldByOne, SetForReply,
                    Holds, Live, lifeVars
<1>6. AsyncInv'
  BY <1>1 DEF RequestsInv, AsyncInv, InOnePlace, ListedOnce, PlacedWereMade, Listed, asyncVars
<1>. QED
  BY <1>2, <1>3, <1>5, <1>6 DEF RequestsInv

(* Steps that move a user on within send().                                *)
LEMMA GoesStep ==
  ASSUME RequestsInv, NEW u \in Users, Pushes(u) \/ Woken(u) \/ TimesOut(u)
  PROVE  RequestsInv'
<1>. DEFINE r == call[u].req
            e == call[u].event
<1>0. PICK at \in {"wait", "woken", "expired"} :
        /\ call' = [call EXCEPT ![u].at = at]
        /\ at = "woken" => e \in signaled
  BY DEF Pushes, Woken, TimesOut, Goes
<1>1. /\ UNCHANGED <<lifeVars, waits, ready, result, asyncVars>>
      /\ Holds(u) /\ signaled' \subseteq signaled
  BY DEF Pushes, Woken, TimesOut, Inside, Holds, Held
<1>2. UserTypes /\ r \in Sync /\ e \in Events /\ call[u] \in Calls
  BY <1>1 DEF RequestsInv, UserTypes
<1>3. /\ trip' \in [Requests \cup Incoming -> {"none", "out", "over"}]
      /\ \A q \in Requests : trip[q] # "none" => trip'[q] # "none"
  BY <1>2 DEF UserTypes, Pushes, Woken, TimesOut, Requests
<1>4. /\ call'[u].at = at /\ call'[u].req = r /\ call'[u].event = e /\ call'[u] \in Calls
      /\ \A v \in Users \ {u} : call'[v] = call[v]
      /\ call' \in [Users -> Calls]
  <2>1. call'[u] = [call[u] EXCEPT !.at = at] /\ \A v \in Users \ {u} : call'[v] = call[v]
    BY <1>0, <1>2 DEF UserTypes
  <2>2. DOMAIN call' = Users
    BY <1>0, <1>2 DEF UserTypes
  <2>3. /\ [call[u] EXCEPT !.at = at] \in Calls
        /\ [call[u] EXCEPT !.at = at].at = at
        /\ [call[u] EXCEPT !.at = at].req = r
        /\ [call[u] EXCEPT !.at = at].event = e
    BY <1>2 DEF Calls, Held
  <2>4. call' \in [Users -> Calls]
    BY <1>0, <1>2, <2>1, <2>3 DEF UserTypes
  <2>. QED
    BY <2>1, <2>3, <2>4
<1>5. \A v \in Users : /\ Holds(v)' <=> Holds(v)
                       /\ call'[v].req = call[v].req /\ call'[v].event = call[v].event
                       /\ call'[v].at = "post" <=> call[v].at = "post"
  BY <1>1, <1>4 DEF Holds, Held
<1>6. UserTypes'
  BY <1>1, <1>2, <1>3, <1>4, <1>5 DEF UserTypes
<1>7. AsyncTypes' /\ StopTypes'
  BY <1>1 DEF RequestsInv, AsyncTypes, StopTypes, asyncVars, lifeVars
<1>8. SyncInv'
  <2>. SUFFICES ASSUME stop' = "none" PROVE SyncInv'
    BY DEF SyncInv
  <2>0. stop = "none" /\ Live /\ WaitsHeld /\ NoOtherWaits /\ HeldByOne /\ SetForReply /\ NoNull
    BY <1>1 DEF RequestsInv, SyncInv, lifeVars
  <2>1. Live' /\ NoNull' /\ WaitsHeld' /\ NoOtherWaits' /\ HeldByOne'
    BY <1>1, <1>5, <2>0 DEF Live, NoNull, WaitsHeld, NoOtherWaits, HeldByOne, lifeVars
  <2>2. SetForReply'
    BY <1>0, <1>1, <1>4, <1>5, <2>0 DEF SetForReply
  <2>. QED
    BY <2>1, <2>2 DEF SyncInv
<1>9. AsyncInv'
  <2>1. InOnePlace' /\ ListedOnce'
    BY <1>1 DEF RequestsInv, AsyncInv, InOnePlace, ListedOnce, Listed, asyncVars
  <2>2. PlacedWereMade'
    BY <1>1, <1>3, <1>5 DEF RequestsInv, AsyncInv, PlacedWereMade, Listed, asyncVars, Requests
  <2>. QED
    BY <2>1, <2>2 DEF AsyncInv
<1>. QED
  BY <1>6, <1>7, <1>8, <1>9 DEF RequestsInv

(* Steps that end send(): the wait is taken out of the map.                *)
LEMMA EndStep ==
  ASSUME RequestsInv, NEW u \in Users, PushRefused(u) \/ Collects(u) \/ GivesUp(u)
  PROVE  RequestsInv'
<1>. DEFINE r == call[u].req
<1>0. PICK what \in {"refused", "reply", "null", "timeout"} :
        /\ EndsWith(u, what)
        /\ what = "null" => call[u].at = "woken" /\ r \notin ready
  BY DEF PushRefused, Collects, GivesUp, Inside
<1>1. UNCHANGED <<lifeVars, signaled, trip, asyncVars>> /\ Holds(u)
  BY DEF PushRefused, Collects, GivesUp, Inside, Holds, Held
<1>2. UserTypes /\ r \in Sync /\ r \in Requests
  BY <1>1 DEF RequestsInv, UserTypes, Requests
<1>3. /\ call'[u] = Free /\ \A v \in Users \ {u} : call'[v] = call[v]
      /\ result'[r] = what /\ \A q \in Requests \ {r} : result'[q] = result[q]
      /\ waits'[r] = None /\ \A q \in Requests \ {r} : waits'[q] = waits[q]
      /\ ready' = ready \ {r}
  BY <1>0, <1>2 DEF UserTypes, EndsWith, Returns, Erased
<1>4. ~Holds(u)' /\ call'[u].at # "post" /\ \A v \in Users \ {u} : Holds(v)' <=> Holds(v)
  BY <1>3 DEF Holds, Held, Free
<1>5. UserTypes'
  <2>1. call' \in [Users -> Calls]
    BY <1>0, <1>2 DEF UserTypes, EndsWith, Returns, Calls, Free
  <2>2. result' \in [Requests -> {"none", "refused", "reply", "null", "timeout"}]
    BY <1>0, <1>2 DEF UserTypes, EndsWith
  <2>3. waits' \in [Requests -> Events \cup {None}] /\ ready' \subseteq Requests
    BY <1>0, <1>2 DEF UserTypes, EndsWith, Erased
  <2>. QED
    BY <1>1, <1>2, <1>3, <1>4, <2>1, <2>2, <2>3 DEF UserTypes
<1>6. AsyncTypes' /\ StopTypes'
  BY <1>1 DEF RequestsInv, AsyncTypes, StopTypes, asyncVars, lifeVars
<1>7. SyncInv'
  <2>. SUFFICES ASSUME stop' = "none" PROVE SyncInv'
    BY DEF SyncInv
  <2>0. stop = "none" /\ Live /\ WaitsHeld /\ NoOtherWaits /\ HeldByOne /\ SetForReply /\ NoNull
    BY <1>1 DEF RequestsInv, SyncInv, lifeVars
  <2>1. Live'
    BY <1>1, <2>0 DEF Live, lifeVars
  <2>2. NoNull'
    BY <1>0, <1>1, <1>2, <1>3, <2>0 DEF NoNull, SetForReply, Requests
  <2>3. WaitsHeld'
    BY <1>1, <1>2, <1>3, <1>4, <2>0 DEF WaitsHeld, HeldByOne, UserTypes, Requests
  <2>4. NoOtherWaits'
    BY <1>3, <1>4, <2>0 DEF NoOtherWaits
  <2>5. HeldByOne'
    BY <1>3, <1>4, <2>0 DEF HeldByOne
  <2>6. SetForReply'
    BY <1>1, <1>3, <1>4, <2>0 DEF SetForReply, HeldByOne
  <2>. QED
    BY <2>1, <2>2, <2>3, <2>4, <2>5, <2>6 DEF SyncInv
<1>8. AsyncInv'
  <2>1. InOnePlace' /\ ListedOnce'
    BY <1>1 DEF RequestsInv, AsyncInv, InOnePlace, ListedOnce, Listed, asyncVars
  <2>2. PlacedWereMade'
    BY <1>1, <1>3, <1>4 DEF RequestsInv, AsyncInv, PlacedWereMade, Listed, asyncVars, Holds, Held
  <2>. QED
    BY <2>1, <2>2 DEF AsyncInv
<1>. QED
  BY <1>5, <1>6, <1>7, <1>8 DEF RequestsInv

-----------------------------------------------------------------------------
(* Asynchronous requests.                                                  *)

(* A step of a user that has no wait leaves the synchronous part alone.    *)
LEMMA SyncFrame ==
  ASSUME RequestsInv, UNCHANGED <<lifeVars, signaled, waits, ready, result>>,
         \A v \in Users : call'[v] = call[v] \/ (~Holds(v) /\ ~Holds(v)')
  PROVE  SyncInv'
BY DEF RequestsInv, SyncInv, WaitsHeld, NoOtherWaits, HeldByOne, SetForReply, NoNull, Live, Holds,
       lifeVars

LEMMA SendAsyncStep ==
  ASSUME RequestsInv, NEW u \in Users, SendAsync(u)
  PROVE  RequestsInv'
<1>0. PICK r \in Async :
        /\ MayCall(u, r)
        /\ amap' = amap \cup {r}
        /\ call' = [call EXCEPT ![u] = [Free EXCEPT !.at = "post", !.req = r]]
  BY DEF SendAsync
<1>1. /\ UNCHANGED <<lifeVars, signaled, waits, ready, result, trip, alist, called>>
      /\ r \in Requests
  BY DEF SendAsync, Requests
<1>2. /\ ~Holds(u) /\ trip[r] = "none" /\ r \notin Listed /\ r \notin amap
      /\ \A v \in Users : call[v].req # r
  BY <1>0, <1>1, Fresh
<1>3. /\ call'[u] = [at |-> "post", req |-> r, event |-> None]
      /\ \A v \in Users \ {u} : call'[v] = call[v]
      /\ ~Holds(u)'
  BY <1>0 DEF RequestsInv, UserTypes, Free, Holds, Held
<1>4. UserTypes'
  <2>1. call' \in [Users -> Calls]
    BY <1>0, <1>1 DEF RequestsInv, UserTypes, Calls, Free
  <2>. QED
    BY <1>1, <1>3, <2>1 DEF RequestsInv, UserTypes, Holds
<1>5. AsyncTypes' /\ StopTypes'
  BY <1>0, <1>1 DEF RequestsInv, AsyncTypes, StopTypes, lifeVars
<1>6. SyncInv'
  <2>1. \A v \in Users : call'[v] = call[v] \/ (~Holds(v) /\ ~Holds(v)')
    BY <1>2, <1>3
  <2>. QED
    BY <1>1, <2>1, SyncFrame
<1>7. AsyncInv'
  <2>1. called[r] = <<>>
    BY <1>2 DEF RequestsInv, AsyncInv, PlacedWereMade
  <2>2. InOnePlace' /\ ListedOnce'
    BY <1>0, <1>1, <1>2, <2>1 DEF RequestsInv, AsyncInv, InOnePlace, ListedOnce, Listed
  <2>3. PlacedWereMade'
    BY <1>0, <1>1, <1>2, <1>3 DEF RequestsInv, AsyncInv, PlacedWereMade, Listed, MayCall
  <2>. QED
    BY <2>2, <2>3 DEF AsyncInv
<1>. QED
  BY <1>4, <1>5, <1>6, <1>7 DEF RequestsInv

LEMMA PostStep ==
  ASSUME RequestsInv, NEW u \in Users, Posts(u) \/ PostRefused(u)
  PROVE  RequestsInv'
<1>. DEFINE r == call[u].req
<1>0. PICK end \in {"out", "over"} : trip' = [trip EXCEPT ![r] = end]
  BY DEF Posts, PostRefused
<1>1. /\ UNCHANGED <<lifeVars, signaled, waits, ready, result, amap, alist, called>>
      /\ call[u].at = "post" /\ r \in Async /\ r \in Requests /\ ~Holds(u)
      /\ call' = [call EXCEPT ![u] = Free]
  BY DEF Posts, PostRefused, asyncVars, Inside, Returns, RequestsInv, UserTypes, Requests, Holds,
         Held
<1>2. /\ call'[u] = Free /\ ~Holds(u)' /\ call'[u].at # "post"
      /\ \A v \in Users \ {u} : call'[v] = call[v]
  BY <1>1 DEF RequestsInv, UserTypes, Free, Holds, Held
<1>3. /\ trip' \in [Requests \cup Incoming -> {"none", "out", "over"}]
      /\ trip'[r] = end
      /\ \A q \in Requests \ {r} : trip'[q] = trip[q]
  BY <1>0, <1>1 DEF RequestsInv, UserTypes
<1>4. UserTypes'
  <2>1. call' \in [Users -> Calls]
    BY <1>1 DEF RequestsInv, UserTypes, Calls, Free
  <2>. QED
    BY <1>1, <1>2, <1>3, <2>1 DEF RequestsInv, UserTypes, Holds
<1>5. AsyncTypes' /\ StopTypes'
  BY <1>1 DEF RequestsInv, AsyncTypes, StopTypes, lifeVars
<1>6. SyncInv'
  <2>1. \A v \in Users : call'[v] = call[v] \/ (~Holds(v) /\ ~Holds(v)')
    BY <1>1, <1>2
  <2>. QED
    BY <1>1, <2>1, SyncFrame
<1>7. AsyncInv'
  <2>1. InOnePlace' /\ ListedOnce'
    BY <1>1 DEF RequestsInv, AsyncInv, InOnePlace, ListedOnce, Listed
  <2>2. PlacedWereMade'
    BY <1>1, <1>2, <1>3 DEF RequestsInv, AsyncInv, PlacedWereMade, Listed, Requests
  <2>. QED
    BY <2>1, <2>2 DEF AsyncInv
<1>. QED
  BY <1>4, <1>5, <1>6, <1>7 DEF RequestsInv

-----------------------------------------------------------------------------
(* What the communicator pushes.                                           *)

LEMMA ReplyStep ==
  ASSUME RequestsInv, NEW r \in Requests, PushReply(r)
  PROVE  RequestsInv'
<1>1. /\ UNCHANGED <<lifeVars, call, waits, result, asyncVars>>
      /\ r \in Sync
      /\ trip' = [trip EXCEPT ![r] = "over"]
  BY DEF PushReply
<1>2. \/ waits[r] = None /\ UNCHANGED <<ready, signaled>>
      \/ /\ waits[r] \in Events
         /\ ready' = ready \cup {r} /\ signaled' = signaled \cup {waits[r]}
  BY DEF PushReply, RequestsInv, UserTypes
<1>3. /\ trip' \in [Requests \cup Incoming -> {"none", "out", "over"}]
      /\ \A q \in Requests : trip[q] # "none" => trip'[q] # "none"
  BY <1>1 DEF RequestsInv, UserTypes
<1>4. UserTypes'
  BY <1>1, <1>2, <1>3 DEF RequestsInv, UserTypes, Holds
<1>5. AsyncTypes' /\ StopTypes'
  BY <1>1 DEF RequestsInv, AsyncTypes, StopTypes, asyncVars, lifeVars
<1>6. SyncInv'
  <2>. SUFFICES ASSUME stop' = "none" PROVE SyncInv'
    BY DEF SyncInv
  <2>0. stop = "none" /\ Live /\ WaitsHeld /\ NoOtherWaits /\ HeldByOne /\ SetForReply /\ NoNull
          /\ UserTypes
    BY <1>1 DEF RequestsInv, SyncInv, lifeVars
  <2>1. Live' /\ NoNull' /\ WaitsHeld' /\ NoOtherWaits' /\ HeldByOne'
    BY <1>1, <2>0 DEF Live, NoNull, WaitsHeld, NoOtherWaits, HeldByOne, Holds, lifeVars
  <2>2. SetForReply'
    <3>1. CASE waits[r] = None /\ UNCHANGED <<ready, signaled>>
      BY <1>1, <2>0, <3>1 DEF SetForReply, Holds
    <3>2. CASE waits[r] \in Events /\ ready' = ready \cup {r} /\ signaled' = signaled \cup {waits[r]}
      <4>1. waits[r] # None
        BY <3>2, RequestsAssumption
      <4>2. PICK v \in Users : Holds(v) /\ call[v].req = r /\ call[v].event = waits[r]
        BY <2>0, <4>1 DEF NoOtherWaits, WaitsHeld
      <4>3. \A w \in Users : Holds(w) /\ call[w].event = waits[r] => call[w].req = r
        BY <2>0, <4>2 DEF HeldByOne
      <4>. QED
        BY <1>1, <2>0, <3>2, <4>3 DEF SetForReply, Holds
    <3>. QED
      BY <1>2, <3>1, <3>2
  <2>. QED
    BY <2>1, <2>2 DEF SyncInv
<1>7. AsyncInv'
  <2>1. InOnePlace' /\ ListedOnce'
    BY <1>1 DEF RequestsInv, AsyncInv, InOnePlace, ListedOnce, Listed, asyncVars
  <2>2. PlacedWereMade'
    BY <1>1, <1>3 DEF RequestsInv, AsyncInv, PlacedWereMade, Listed, asyncVars, Requests
  <2>. QED
    BY <2>1, <2>2 DEF AsyncInv
<1>. QED
  BY <1>4, <1>5, <1>6, <1>7 DEF RequestsInv

LEMMA AsyncReplyStep ==
  ASSUME RequestsInv, NEW r \in Requests, PushAsync(r)
  PROVE  RequestsInv'
<1>1. /\ UNCHANGED <<lifeVars, syncVars, called>>
      /\ r \in Async
      /\ trip' = [trip EXCEPT ![r] = "over"]
  BY DEF PushAsync
<1>2. \/ UNCHANGED <<amap, alist>>
      \/ r \in amap /\ amap' = amap \ {r} /\ alist' = Append(alist, r)
  BY DEF PushAsync
<1>3. /\ trip' \in [Requests \cup Incoming -> {"none", "out", "over"}]
      /\ trip'[r] = "over"
      /\ \A q \in Requests : trip[q] # "none" => trip'[q] # "none"
  BY <1>1 DEF RequestsInv, UserTypes
<1>4. UserTypes'
  BY <1>1, <1>3 DEF RequestsInv, UserTypes, Holds, syncVars
<1>5. SyncInv'
  BY <1>1, SyncFrame DEF syncVars
<1>6. CASE UNCHANGED <<amap, alist>>
  <2>1. AsyncTypes' /\ StopTypes'
    BY <1>1, <1>6 DEF RequestsInv, AsyncTypes, StopTypes, lifeVars
  <2>2. InOnePlace' /\ ListedOnce'
    BY <1>1, <1>6 DEF RequestsInv, AsyncInv, InOnePlace, ListedOnce, Listed
  <2>3. PlacedWereMade'
    BY <1>1, <1>3, <1>6
    DEF RequestsInv, AsyncInv, PlacedWereMade, Listed, syncVars, Requests
  <2>. QED
    BY <1>4, <1>5, <2>1, <2>2, <2>3 DEF RequestsInv, AsyncInv
<1>7. CASE r \in amap /\ amap' = amap \ {r} /\ alist' = Append(alist, r)
  <2>1. AsyncTypes /\ InOnePlace /\ ListedOnce /\ PlacedWereMade
    BY DEF RequestsInv, AsyncInv
  <2>2. r \notin Listed /\ called[r] = <<>>
    BY <1>1, <1>7, <2>1 DEF InOnePlace
  <2>3. alist' \in Seq(Async) /\ Listed' = Listed \cup {r} /\ ListedOnce'
    BY <1>1, <1>7, <2>1, <2>2, ListGrows DEF AsyncTypes, Listed, ListedOnce
  <2>4. AsyncTypes' /\ StopTypes'
    BY <1>1, <1>7, <2>3 DEF RequestsInv, AsyncTypes, StopTypes, lifeVars
  <2>5. InOnePlace'
    BY <1>1, <1>7, <2>1, <2>2, <2>3 DEF InOnePlace
  <2>6. PlacedWereMade'
    BY <1>1, <1>3, <1>7, <2>1, <2>3 DEF PlacedWereMade, syncVars, Requests
  <2>. QED
    BY <1>4, <1>5, <2>3, <2>4, <2>5, <2>6 DEF RequestsInv, AsyncInv
<1>. QED
  BY <1>2, <1>6, <1>7

LEMMA IncomingStep ==
  ASSUME RequestsInv, NEW m \in Incoming, PushIncoming(m)
  PROVE  RequestsInv'
<1>1. UNCHANGED <<lifeVars, syncVars, asyncVars>> /\ trip' = [trip EXCEPT ![m] = "over"]
  BY DEF PushIncoming
<1>2. /\ trip' \in [Requests \cup Incoming -> {"none", "out", "over"}]
      /\ \A q \in Requests : trip[q] # "none" => trip'[q] # "none"
  BY <1>1 DEF RequestsInv, UserTypes
<1>3. UserTypes'
  BY <1>1, <1>2 DEF RequestsInv, UserTypes, Holds, syncVars
<1>4. AsyncTypes' /\ StopTypes'
  BY <1>1 DEF RequestsInv, AsyncTypes, StopTypes, asyncVars, lifeVars
<1>5. SyncInv'
  BY <1>1, SyncFrame DEF syncVars
<1>6. AsyncInv'
  <2>1. InOnePlace' /\ ListedOnce'
    BY <1>1 DEF RequestsInv, AsyncInv, InOnePlace, ListedOnce, Listed, asyncVars
  <2>2. PlacedWereMade'
    BY <1>1, <1>2 DEF RequestsInv, AsyncInv, PlacedWereMade, Listed, asyncVars, syncVars, Requests
  <2>. QED
    BY <2>1, <2>2 DEF AsyncInv
<1>. QED
  BY <1>3, <1>4, <1>5, <1>6 DEF RequestsInv

-----------------------------------------------------------------------------
(* The callbacks for asynchronous requests.                                *)

\* A request that was in one place, and not called back, is now.
LEMMA CalledOnce ==
  ASSUME RequestsInv, NEW r \in Async, NEW what \in {"reply", "timeout"}, called[r] = <<>>,
         called' = [called EXCEPT ![r] = Append(@, what)]
  PROVE  /\ called' \in [Requests -> Seq({"reply", "timeout"})]
         /\ Len(called'[r]) = 1
         /\ \A q \in Requests \ {r} : called'[q] = called[q]
<1>1. called'[r] = Append(<<>>, what) /\ \A q \in Requests \ {r} : called'[q] = called[q]
  BY DEF RequestsInv, AsyncTypes, Requests
<1>2. Append(<<>>, what) \in Seq({"reply", "timeout"}) /\ Len(Append(<<>>, what)) = 1
  OBVIOUS
<1>. QED
  BY <1>1, <1>2 DEF RequestsInv, AsyncTypes, Requests

LEMMA PopAsyncStep ==
  ASSUME RequestsInv, PopAsync
  PROVE  RequestsInv'
<1>. DEFINE r == Head(alist)
<1>1. /\ UNCHANGED <<lifeVars, syncVars, trip, amap>>
      /\ alist # <<>> /\ alist' = Tail(alist)
      /\ called' = [called EXCEPT ![r] = Append(@, "reply")]
  BY DEF PopAsync
<1>2. /\ AsyncTypes /\ InOnePlace /\ ListedOnce /\ PlacedWereMade
      /\ alist \in Seq(Async)
  BY DEF RequestsInv, AsyncInv, AsyncTypes, ListedOnce
<1>3. /\ alist' \in Seq(Async) /\ r \in Async
      /\ r \in Listed /\ Listed' = Listed \ {r} /\ ListedOnce'
  BY <1>1, <1>2, ListShrinks DEF Listed, ListedOnce
<1>4. called[r] = <<>> /\ r \notin amap
  BY <1>2, <1>3 DEF InOnePlace
<1>5. /\ called' \in [Requests -> Seq({"reply", "timeout"})] /\ Len(called'[r]) = 1
      /\ \A q \in Requests \ {r} : called'[q] = called[q]
  BY <1>1, <1>3, <1>4, CalledOnce
<1>6. UserTypes'
  BY <1>1 DEF RequestsInv, UserTypes, Holds, syncVars
<1>7. AsyncTypes' /\ StopTypes'
  BY <1>1, <1>2, <1>3, <1>5 DEF RequestsInv, AsyncTypes, StopTypes, lifeVars
<1>8. SyncInv'
  BY <1>1, SyncFrame DEF syncVars
<1>9. InOnePlace'
  BY <1>1, <1>2, <1>3, <1>4, <1>5 DEF InOnePlace, Requests
<1>10. PlacedWereMade'
  BY <1>1, <1>2, <1>3, <1>5 DEF PlacedWereMade, syncVars, Requests
<1>. QED
  BY <1>3, <1>6, <1>7, <1>8, <1>9, <1>10 DEF RequestsInv, AsyncInv

LEMMA PopExpiredStep ==
  ASSUME RequestsInv, NEW r \in Async, PopExpired(r)
  PROVE  RequestsInv'
<1>1. /\ UNCHANGED <<lifeVars, syncVars, trip, alist>>
      /\ r \in amap /\ amap' = amap \ {r}
      /\ called' = [called EXCEPT ![r] = Append(@, "timeout")]
  BY DEF PopExpired
<1>2. AsyncTypes /\ InOnePlace /\ ListedOnce /\ PlacedWereMade
  BY DEF RequestsInv, AsyncInv
<1>3. called[r] = <<>> /\ r \notin Listed
  BY <1>1, <1>2 DEF InOnePlace
<1>4. /\ called' \in [Requests -> Seq({"reply", "timeout"})] /\ Len(called'[r]) = 1
      /\ \A q \in Requests \ {r} : called'[q] = called[q]
  BY <1>1, <1>3, CalledOnce
<1>5. UserTypes'
  BY <1>1 DEF RequestsInv, UserTypes, Holds, syncVars
<1>6. AsyncTypes' /\ StopTypes'
  BY <1>1, <1>2, <1>4 DEF RequestsInv, AsyncTypes, StopTypes, lifeVars
<1>7. SyncInv'
  BY <1>1, SyncFrame DEF syncVars
<1>8. InOnePlace' /\ ListedOnce'
  BY <1>1, <1>2, <1>3, <1>4 DEF InOnePlace, ListedOnce, Listed, Requests
<1>9. PlacedWereMade'
  BY <1>1, <1>2, <1>4 DEF PlacedWereMade, Listed, syncVars, Requests
<1>. QED
  BY <1>5, <1>6, <1>7, <1>8, <1>9 DEF RequestsInv, AsyncInv

-----------------------------------------------------------------------------
(* stop() and the end: what holds before stop() is not claimed any more.   *)

LEMMA StopsStep ==
  ASSUME RequestsInv, StopWaits \/ StopStep
  PROVE  RequestsInv'
<1>1. /\ UNCHANGED <<call, result, trip, called>>
      /\ stop' \in {"revoke", "off", "blocked", "told"} /\ life' \in {"live", "deleted"}
      /\ (amap' = amap /\ alist' = alist) \/ (amap' = {} /\ alist' = <<>>)
      /\ ready' = ready \/ ready' = {}
      /\ signaled' = signaled \/ signaled' = signaled \cup {waits[r] : r \in Waiting}
      /\ waits' = waits \/ waits' = [r \in Requests |-> None]
  BY DEF StopWaits, StopStep, StopRevokes, StopBlocks, StopTells, CommDelete, RequestsInv,
         StopTypes, syncVars, asyncVars
<1>2. {waits[r] : r \in Waiting} \subseteq Events
  BY DEF Waiting, RequestsInv, UserTypes
<1>3. UserTypes'
  <2>1. waits' \in [Requests -> Events \cup {None}] /\ signaled' \subseteq Events
          /\ ready' \subseteq Requests
    BY <1>1, <1>2 DEF RequestsInv, UserTypes
  <2>. QED
    BY <1>1, <2>1 DEF RequestsInv, UserTypes, Holds
<1>4. AsyncTypes' /\ StopTypes' /\ SyncInv'
  <2>1. <<>> \in Seq(Async)
    OBVIOUS
  <2>2. alist' \in Seq(Async) /\ amap' \subseteq Async
    BY <1>1, <2>1 DEF RequestsInv, AsyncTypes
  <2>. QED
    BY <1>1, <2>2 DEF RequestsInv, AsyncTypes, StopTypes, SyncInv
<1>5. AsyncInv'
  <2>1. CASE amap' = amap /\ alist' = alist
    BY <1>1, <2>1 DEF RequestsInv, AsyncInv, InOnePlace, ListedOnce, PlacedWereMade, Listed
  <2>2. CASE amap' = {} /\ alist' = <<>>
    <3>1. Listed' = {} /\ ListedOnce'
      BY <2>2 DEF Listed, ListedOnce, Elements, OnceEach
    <3>2. InOnePlace' /\ PlacedWereMade'
      BY <1>1, <2>2, <3>1 DEF RequestsInv, AsyncInv, InOnePlace, PlacedWereMade
    <3>. QED
      BY <3>1, <3>2 DEF AsyncInv
  <2>. QED
    BY <1>1, <2>1, <2>2
<1>. QED
  BY <1>3, <1>4, <1>5 DEF RequestsInv

-----------------------------------------------------------------------------
(* The theorems.                                                           *)

LEMMA RequestsStep == RequestsInv /\ [Next]_vars => RequestsInv'
<1>. SUFFICES ASSUME RequestsInv, [Next]_vars PROVE RequestsInv'
  OBVIOUS
<1>1. CASE UNCHANGED vars
  BY <1>1, Frame DEF vars
<1>2. ASSUME NEW u \in Users, UserCalls(u) \/ UserStep(u)
      PROVE  RequestsInv'
  BY <1>2, SendStep, SendNoEventStep, SendAsyncStep, GoesStep, EndStep, PostStep
  DEF UserCalls, UserStep
<1>3. ASSUME NEW t \in Threads, ThreadStep(t)
      PROVE  RequestsInv'
  BY <1>3, Frame
  DEF ThreadStep, Wakes, Asks, Sleeps, PopIncoming, CallsIn, NothingLeft, CallEnds
<1>4. ASSUME NEW r \in Async, PopExpired(r) \/ Expire(r)
      PROVE  RequestsInv'
  <2>1. CASE Expire(r)
    <3>1. UNCHANGED <<lifeVars, syncVars, trip, amap, alist, called>>
      BY <2>1 DEF Expire
    <3>2. UserTypes' /\ AsyncTypes' /\ StopTypes'
      BY <3>1 DEF RequestsInv, UserTypes, AsyncTypes, StopTypes, Holds, syncVars, lifeVars
    <3>3. SyncInv'
      BY <3>1, SyncFrame DEF syncVars
    <3>4. AsyncInv'
      BY <3>1 DEF RequestsInv, AsyncInv, InOnePlace, ListedOnce, PlacedWereMade, Listed, syncVars
    <3>. QED
      BY <3>2, <3>3, <3>4 DEF RequestsInv
  <2>. QED
    BY <1>4, <2>1, PopExpiredStep
<1>5. CASE PopAsync \/ Ping
  BY <1>5, PopAsyncStep, Frame DEF Ping
<1>6. CASE StopWaits \/ StopStep
  BY <1>6, StopsStep
<1>7. ASSUME NEW r \in Requests, PushReply(r) \/ PushAsync(r)
      PROVE  RequestsInv'
  BY <1>7, ReplyStep, AsyncReplyStep
<1>8. ASSUME NEW m \in Incoming, PushIncoming(m)
      PROVE  RequestsInv'
  BY <1>8, IncomingStep
<1>. QED
  BY <1>1, <1>2, <1>3, <1>4, <1>5, <1>6, <1>7, <1>8 DEF Next, Due

LEMMA RequestsAlways == Spec => []RequestsInv
BY RequestsInit, RequestsStep, PTL DEF Spec

(* However many users share however few events: send() returns true with   *)
(* no reply (msg_user.cpp:268-280) only when the connection is turned off. *)
THEOREM RequestsNullMeansOff == Spec => []NullReplyMeansOff
<1>1. RequestsInv => NullReplyMeansOff
  BY DEF RequestsInv, SyncInv, NoNull, NullReplyMeansOff
<1>. QED
  BY <1>1, RequestsAlways, PTL

(* However replies and timeouts race (msg_user.cpp:164-188, 440-487): no   *)
(* asynchronous request is called back twice.                              *)
THEOREM RequestsAsyncOnce == Spec => []AsyncOnce
<1>1. ASSUME RequestsInv, NEW r \in Async
      PROVE  Len(called[r]) + (IF r \in amap THEN 1 ELSE 0)
               + Cardinality({k \in DOMAIN alist : alist[k] = r}) <= 1
  <2>. DEFINE places == {k \in DOMAIN alist : alist[k] = r}
  <2>0. InOnePlace /\ ListedOnce /\ Len(called[r]) \in Nat
    BY <1>1 DEF RequestsInv, AsyncInv, AsyncTypes, Requests
  <2>1. r \in amap \/ r \in Listed => Len(called[r]) = 0
    BY <2>0 DEF InOnePlace
  <2>2. \/ Cardinality(places) = 0
        \/ Cardinality(places) = 1 /\ r \in Listed
    <3>1. CASE places = {}
      BY <3>1, FS_EmptySet
    <3>2. CASE places # {}
      <4>1. PICK k \in DOMAIN alist : alist[k] = r
        BY <3>2
      <4>2. places = {k}
        BY <2>0, <4>1 DEF ListedOnce, OnceEach
      <4>. QED
        BY <4>1, <4>2, FS_Singleton DEF Listed, Elements
    <3>. QED
      BY <3>1, <3>2
  <2>. HIDE DEF places
  <2>3. Len(called[r]) + (IF r \in amap THEN 1 ELSE 0) + Cardinality(places) <= 1
    <3>1. (r \in amap => r \notin Listed) /\ Len(called[r]) <= 1
      BY <2>0 DEF InOnePlace
    <3>2. CASE r \in amap
      BY <2>1, <2>2, <3>1, <3>2
    <3>3. CASE r \notin amap
      BY <2>0, <2>1, <2>2, <3>1, <3>3
    <3>. QED
      BY <3>2, <3>3
  <2>. QED
    BY <2>3 DEF places
<1>2. RequestsInv => AsyncOnce
  BY <1>1 DEF AsyncOnce
<1>. QED
  BY <1>2, RequestsAlways, PTL
=============================================================================
