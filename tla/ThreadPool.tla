----------------------------- MODULE ThreadPool -----------------------------
(***************************************************************************)
(* The thread pool (threadpool/threadpool.cpp), with the object pool that  *)
(* keeps its threads (base/template.hpp, pool<thread_creator>) and the     *)
(* loop each thread runs (threadpool/thread.cpp).                          *)
(*                                                                         *)
(* Actors: the worker threads; the housekeeper, which is a thread of the   *)
(* same class whose employer is the pool itself; callers outside the pool; *)
(* worker threads that call the pool from inside a client's v_do_job; and  *)
(* the owner, who destroys the pool.  A critical section that neither      *)
(* blocks nor calls out is one action, enabled while its mutex is free; a  *)
(* mutex that is held across a blocking call has a variable.               *)
(*                                                                         *)
(* A client is an opaque employer with `work[c]' jobs queued: v_has_job    *)
(* answers whether there is one, v_do_job takes one.  A caller queues a    *)
(* job before it borrows, as aiosock and aiomsg do.                        *)
(*                                                                         *)
(* Abstracted: the one-second limit of loan_object (LoanWaitsForReturn     *)
(* says what the wait is for), failure to create a thread or to allocate.  *)
(***************************************************************************)
EXTENDS Integers, Sequences, FiniteSets

CONSTANTS Threads,     \* thread objects the pool may create
          Capacity,    \* _capacity, also the size of the object pool
          Clients,     \* terimber_thread_employer objects
          LastIdent,   \* thread idents are 0 .. LastIdent
          Callers,     \* threads outside the pool that call it
          House,       \* the housekeeper thread, and the job it is given
          None,        \* no thread, no job, a free mutex
          MaxWork,     \* bound: jobs queued for a client
          Alerts,      \* threads with a finite time to stay on alert
          Nested,      \* may v_do_job call the pool?
          Reborrow,    \* may a revoked client borrow again?
          Stoppable,   \* may the owner destroy the pool?
          Prompt       \* does every client callback end before a returned
                       \* thread has rested for deactivate_time_msec?

Owner == "owner"       \* the thread that destroys the pool

ASSUME CapacityAssumption ==
  /\ Capacity \in Nat \ {0}
  /\ IsFiniteSet(Threads) /\ Cardinality(Threads) >= Capacity
ASSUME NamesAssumption ==
  /\ None \notin Threads \cup Callers \cup {House}
  /\ Owner \notin {None, House}
  /\ House \notin Threads \cup Callers
  /\ Threads \cap Callers = {}
ASSUME BoundsAssumption == LastIdent \in Nat /\ MaxWork \in Nat \ {0} /\ IsFiniteSet(Clients)
ASSUME SwitchesAssumption == {Nested, Reborrow, Stoppable, Prompt} \subseteq BOOLEAN

Idents  == 0 .. LastIdent
Keys    == Clients \X Idents            \* the keys of _clients_map
Workers == Threads \cup {House}
Borrowers == Callers \cup Threads

VARIABLES
  on,          \* _on
  inUse,       \* _thread_in_use
  info,        \* _clients_map: the thread of each client and ident, or None
  wasted,      \* client_thread_info::_wasted_calls
  dispose,     \* _dispose_queue: the threads to give back
  clientsMtx,  \* who holds _clients_mtx across a blocking call
  readers,     \* pool::_locker: loans granted
  free,        \* pool::_free_objects, the most recent first
  busy,        \* pool::_busy_objects
  poolMtx,     \* who holds pool::_mtx across a blocking call
  state,       \* thread::_state
  job,         \* thread::_job_task
  awake,       \* thread::_ev_wakeup (auto reset)
  pc,          \* where the thread is in start_thread
  task,        \* execute()'s copy of the job
  held,        \* the object the housekeeper or the owner is working on
  call,        \* where a borrower is in its call
  req,         \* the borrower's arguments
  offAt,       \* where the owner is in off()
  work,        \* the client's own queue of jobs
  revoked      \* history: revoke_client(c) returned, no borrow since

mapVars    == <<inUse, info, wasted, dispose>>
poolVars   == <<readers, free, busy>>
threadVars == <<state, job, awake, pc, task>>
callVars   == <<call, req>>
clientVars == <<work, revoked>>
vars == <<on, mapVars, clientsMtx, poolVars, poolMtx, threadVars, held, callVars, offAt,
          clientVars>>

\* Everything but the threads' own variables.
outside == <<on, mapVars, clientsMtx, poolVars, poolMtx, held, callVars, offAt, clientVars>>

Elements(s) == {s[n] : n \in DOMAIN s}
Distinct(s) == \A m, n \in DOMAIN s : s[m] = s[n] => m = n

Created == busy \cup Elements(free)

Places == {"closed", "loop", "asleep", "exec", "ask", "toAsk", "noWork", "hasWork",
           "toDo", "working", "finishing", "giveBack", "leave", "sweep", "join", "ended"}

CallPlaces == {"idle", "borrow", "range", "scan", "wake", "enter", "take", "activate"}

OffPlaces == {"up", "stopHouse", "joinHouse", "cleanUp", "drain", "giveBack", "leave",
              "closing", "join", "down"}

\* A call for a thread of a client with an ident in the range from .. to, and
\* the thread found.
Request(c, i, j) == [client |-> c, from |-> i, to |-> j, thread |-> None]
NoRequest == Request(None, 0, 0)

Init ==
  /\ on = TRUE
  /\ inUse = 0
  /\ info = [k \in Keys |-> None]
  /\ wasted = [k \in Keys |-> 0]
  /\ dispose = <<>>
  /\ clientsMtx = None /\ poolMtx = None
  /\ readers = 0 /\ free = <<>> /\ busy = {}
  /\ state = [x \in Workers |-> IF x = House THEN "RUNNING" ELSE "CLOSE"]
  /\ job = [x \in Workers |-> IF x = House THEN House ELSE None]
  /\ awake = [x \in Workers |-> x = House]
  /\ pc = [x \in Workers |-> IF x = House THEN "loop" ELSE "closed"]
  /\ task = [x \in Workers |-> None]
  /\ held = [x \in {House, Owner} |-> None]
  /\ call = [b \in Borrowers |-> "idle"]
  /\ req = [b \in Borrowers |-> NoRequest]
  /\ offAt = "up"
  /\ work = [c \in Clients |-> 0]
  /\ revoked = [c \in Clients |-> FALSE]

-----------------------------------------------------------------------------
(* thread.cpp: the loop of a thread, sleep() and execute().                *)

At(x, place)   == pc[x] = place
Goto(x, place) == pc' = [pc EXCEPT ![x] = place]

\* sleep(): change_state(THREAD_SLEEPING) fails only when stopping.
FallAsleep(x) ==
  /\ At(x, "loop")
  /\ IF state[x] = "RUNNING"
       THEN state' = [state EXCEPT ![x] = "SLEEPING"] /\ Goto(x, "asleep")
       ELSE UNCHANGED state /\ Goto(x, "ended")
  /\ UNCHANGED <<outside, job, awake, task>>

\* sleep(): the wait on _ev_wakeup ends, by the signal or because
\* stay_on_alert_time (the housekeeper's ten seconds) is over; then
\* change_state(THREAD_RUNNING), which fails only when stopping.
Resume(x) ==
  /\ At(x, "asleep")
  /\ IF state[x] = "SLEEPING"
       THEN state' = [state EXCEPT ![x] = "RUNNING"] /\ Goto(x, "exec")
       ELSE UNCHANGED state /\ Goto(x, "ended")
  /\ UNCHANGED <<outside, job, task>>

Woken(x) ==
  /\ awake[x]
  /\ awake' = [awake EXCEPT ![x] = FALSE]
  /\ Resume(x)

AlertOver(x) ==
  /\ ~awake[x]
  /\ x \in Alerts /\ job[x] # None
  /\ Resume(x)
  /\ UNCHANGED awake

\* execute(): copies the job, if there is one and the thread is not stopping.
Execute(x) ==
  /\ At(x, "exec")
  /\ IF state[x] = "RUNNING" /\ job[x] # None
       THEN task' = [task EXCEPT ![x] = job[x]] /\ Goto(x, "ask")
       ELSE UNCHANGED task /\ Goto(x, "loop")
  /\ UNCHANGED <<outside, state, job, awake>>

\* execute() returns, and its copy of the job is gone.
Finish(x, place) == Goto(x, place) /\ task' = [task EXCEPT ![x] = None]

Alive(x) == state[x] \in {"SLEEPING", "RUNNING"}

\* cancel_job() followed by the first half of stop().
CancelAndStopSilently(x) ==            \* mutant: the thread is not woken
  /\ Alive(x)
  /\ job' = [job EXCEPT ![x] = None]
  /\ state' = [state EXCEPT ![x] = "STOPPING"]
  /\ UNCHANGED awake

CancelAndStop(x) ==
  /\ Alive(x)
  /\ job' = [job EXCEPT ![x] = None]
  /\ state' = [state EXCEPT ![x] = "STOPPING"]
  /\ awake' = [awake EXCEPT ![x] = TRUE]

\* The second half of stop(): the thread has ended.
Joined(x) ==
  /\ At(x, "ended")
  /\ state' = [state EXCEPT ![x] = "CLOSE"]
  /\ Goto(x, "closed")

-----------------------------------------------------------------------------
(* threadpool.cpp: v_has_job and v_do_job of a client's thread.            *)

MapFree == clientsMtx = None
Valid(k) == info[k] # None              \* _validate_client

\* v_has_job, first critical section; its copy of the info is task.
Ask(t) ==
  /\ At(t, "ask") /\ MapFree
  /\ IF on /\ Valid(task[t])
       THEN wasted' = [wasted EXCEPT ![task[t]] = 0] /\ Goto(t, "toAsk") /\ UNCHANGED task
       ELSE UNCHANGED wasted /\ Finish(t, "loop")
  /\ UNCHANGED <<on, inUse, info, dispose, clientsMtx, poolVars, poolMtx, state, job, awake,
                 held, callVars, offAt, clientVars>>

\* The client's v_has_job.
ClientHasJob(t) ==
  /\ At(t, "toAsk")
  /\ Goto(t, IF work[task[t][1]] > 0 THEN "hasWork" ELSE "noWork")
  /\ UNCHANGED <<outside, state, job, awake, task>>

\* v_has_job, second critical section: a second wasted call disposes of the
\* thread.
Waste(t) ==
  LET k == task[t] IN
  /\ At(t, "noWork") /\ MapFree
  /\ \/ /\ Valid(k) /\ wasted[k] = 1
        /\ dispose' = Append(dispose, info[k])
        /\ info' = [info EXCEPT ![k] = None]
        /\ UNCHANGED wasted
     \/ /\ Valid(k) /\ wasted[k] # 1
        /\ wasted' = [wasted EXCEPT ![k] = @ + 1]
        /\ UNCHANGED <<info, dispose>>
     \/ /\ ~Valid(k)
        /\ UNCHANGED <<info, wasted, dispose>>
  /\ Finish(t, "loop")
  /\ UNCHANGED <<on, inUse, clientsMtx, poolVars, poolMtx, state, job, awake, held, callVars,
                 offAt, clientVars>>

\* v_do_job, the critical section.
Prepare(t) ==
  /\ At(t, "hasWork") /\ t # House /\ MapFree
  /\ IF on /\ Valid(task[t])
       THEN Goto(t, "toDo") /\ UNCHANGED task
       ELSE Finish(t, "exec")
  /\ UNCHANGED <<outside, state, job, awake>>

\* The client's v_do_job begins: it takes a job, if another thread has not.
ClientDoJob(t) ==
  LET c == task[t][1] IN
  /\ At(t, "toDo")
  /\ work' = [work EXCEPT ![c] = IF @ > 0 THEN @ - 1 ELSE @]
  /\ Goto(t, "working")
  /\ UNCHANGED <<on, mapVars, clientsMtx, poolVars, poolMtx, state, job, awake, task, held,
                 callVars, offAt, revoked>>

\* The client's v_do_job returns.
ClientDone(t) ==
  /\ pc[t] \in {"working", "finishing"}
  /\ call[t] = "idle"
  /\ Finish(t, "exec")
  /\ UNCHANGED <<outside, state, job, awake>>

-----------------------------------------------------------------------------
(* The housekeeper: v_has_job and v_do_job with user_data = 0.             *)

\* v_has_job: work when the queue is not empty, else a sweep of the pool.
HouseAsk ==
  /\ At(House, "ask") /\ MapFree
  /\ IF ~on
       THEN Finish(House, "loop")
       ELSE Goto(House, IF dispose # <<>> THEN "hasWork" ELSE "sweep") /\ UNCHANGED task
  /\ UNCHANGED <<outside, state, job, awake>>

HouseTakeUncounted ==                  \* mutant: _thread_in_use stays
  /\ At(House, "hasWork") /\ MapFree
  /\ IF on /\ dispose # <<>>
       THEN /\ held' = [held EXCEPT ![House] = Head(dispose)]
            /\ dispose' = Tail(dispose)
            /\ Goto(House, "giveBack")
            /\ UNCHANGED task
       ELSE UNCHANGED <<held, dispose>> /\ Finish(House, "exec")
  /\ UNCHANGED <<on, inUse, info, wasted, clientsMtx, poolVars, poolMtx, state, job, awake,
                 callVars, offAt, clientVars>>

\* v_do_job: takes the first thread off the queue.
HouseTake ==
  /\ At(House, "hasWork") /\ MapFree
  /\ IF on /\ dispose # <<>>
       THEN /\ held' = [held EXCEPT ![House] = Head(dispose)]
            /\ dispose' = Tail(dispose)
            /\ inUse' = inUse - 1
            /\ Goto(House, "giveBack")
            /\ UNCHANGED task
       ELSE UNCHANGED <<held, dispose, inUse>> /\ Finish(House, "exec")
  /\ UNCHANGED <<on, info, wasted, clientsMtx, poolVars, poolMtx, state, job, awake, callVars,
                 offAt, clientVars>>

\* cancel_job(), which does nothing to a thread that is not alive.
Cancel(t) ==
  IF Alive(t)
    THEN job' = [job EXCEPT ![t] = None] /\ awake' = [awake EXCEPT ![t] = TRUE]
    ELSE UNCHANGED <<job, awake>>

\* pool::return_object up to the release of its mutex.
TakeBack(t) ==
  /\ poolMtx = None
  /\ busy' = busy \ {t}
  /\ free' = <<t>> \o free
  /\ Cancel(t)

HouseGiveBack ==
  /\ At(House, "giveBack")
  /\ TakeBack(held[House])
  /\ Goto(House, "leave")
  /\ UNCHANGED <<on, mapVars, clientsMtx, readers, poolMtx, state, task, held, callVars, offAt,
                 clientVars>>

\* pool::return_object: _locker.leave().
HouseLeave ==
  /\ At(House, "leave")
  /\ readers' = readers - 1
  /\ held' = [held EXCEPT ![House] = None]
  /\ Finish(House, "exec")
  /\ UNCHANGED <<on, mapVars, clientsMtx, free, busy, poolMtx, state, job, awake, callVars, offAt,
                 clientVars>>

\* pool::deactivate takes the pool's mutex and keeps it while it closes the
\* free threads that rested long enough, whichever these are.  A thread that
\* was returned in the middle of its job has by then come to the loop, unless
\* a callback of its client lasts.
Sweeping == At(House, "sweep") /\ poolMtx \in {None, House}
Rested(t) == pc[t] \in {"loop", "asleep", "exec"}
                      \cup (IF Prompt THEN {} ELSE {"toAsk", "working", "finishing"})

HouseClose ==
  /\ Sweeping
  /\ \E n \in DOMAIN free :
       /\ Rested(free[n])
       /\ CancelAndStop(free[n])
       /\ held' = [held EXCEPT ![House] = free[n]]
  /\ poolMtx' = House
  /\ Goto(House, "join")
  /\ UNCHANGED <<on, mapVars, clientsMtx, poolVars, task, callVars, offAt, clientVars>>

HouseSwept ==
  /\ Sweeping
  /\ poolMtx' = None
  /\ Finish(House, "loop")
  /\ UNCHANGED <<on, mapVars, clientsMtx, poolVars, state, job, awake, held, callVars, offAt,
                 clientVars>>

\* stop() waits, with the pool's mutex held, for the thread's job to end.
HouseJoin ==
  LET t == held[House] IN
  /\ At(House, "join")
  /\ At(t, "ended")
  /\ state' = [state EXCEPT ![t] = "CLOSE"]
  /\ held' = [held EXCEPT ![House] = None]
  /\ pc' = [pc EXCEPT ![t] = "closed", ![House] = "sweep"]
  /\ UNCHANGED <<on, mapVars, clientsMtx, poolVars, poolMtx, job, awake, task, callVars, offAt,
                 clientVars>>

-----------------------------------------------------------------------------
(* borrow_thread and borrow_from_range.                                    *)

CallAt(b, place) == call[b] = place
CallGoto(b, place) == call' = [call EXCEPT ![b] = place]

\* The client's code queues a job and calls; borrow_thread is for one ident.
Call(b, c) ==
  /\ work[c] < MaxWork
  /\ work' = [work EXCEPT ![c] = @ + 1]
  /\ Reborrow \/ ~revoked[c]
  /\ revoked' = [revoked EXCEPT ![c] = FALSE]
  /\ CallAt(b, "idle")
  /\ \/ /\ CallGoto(b, "borrow")
        /\ \E i \in Idents : req' = [req EXCEPT ![b] = Request(c, i, i)]
     \/ /\ CallGoto(b, "range")
        /\ \E i, j \in Idents : i < j /\ req' = [req EXCEPT ![b] = Request(c, i, j)]
  /\ UNCHANGED <<on, mapVars, clientsMtx, poolVars, poolMtx, state, job, awake, task, held, offAt>>

OutsideCall(b) ==
  /\ offAt = "up"
  /\ \E c \in Clients : Call(b, c)
  /\ UNCHANGED pc

\* "user can call function even inside v_do_real_job": once per job.
NestedCall(t) ==
  /\ Nested
  /\ At(t, "working")
  /\ Call(t, task[t][1])
  /\ Goto(t, "finishing")

Key(b) == <<req[b].client, req[b].from>>

\* The job's thread is known: it is woken after _clients_mtx is released.
WakeLater(b) ==
  /\ wasted' = [wasted EXCEPT ![Key(b)] = 0]
  /\ req' = [req EXCEPT ![b].thread = info[Key(b)]]
  /\ CallGoto(b, "wake")

\* The caller is back, with true or false.
Return(b) == CallGoto(b, "idle") /\ req' = [req EXCEPT ![b] = NoRequest]

BorrowUnlimited(b) ==                  \* mutant: the capacity is not looked at
  /\ CallAt(b, "borrow") /\ MapFree
  /\ \/ /\ Valid(Key(b))
        /\ WakeLater(b)
        /\ UNCHANGED clientsMtx
     \/ /\ ~Valid(Key(b))
        /\ CallGoto(b, "enter")
        /\ clientsMtx' = b
        /\ UNCHANGED <<req, wasted>>
  /\ UNCHANGED <<on, inUse, info, dispose, poolVars, poolMtx, threadVars, held, offAt, clientVars>>

BorrowNew(b) ==                        \* mutant: the map is not looked at
  /\ CallAt(b, "borrow") /\ MapFree
  /\ IF on /\ inUse # Capacity
       THEN CallGoto(b, "enter") /\ clientsMtx' = b /\ UNCHANGED req
       ELSE Return(b) /\ UNCHANGED clientsMtx
  /\ UNCHANGED <<on, mapVars, poolVars, poolMtx, threadVars, held, offAt, clientVars>>

Borrow(b) ==
  /\ CallAt(b, "borrow") /\ MapFree
  /\ \/ /\ ~on \/ (~Valid(Key(b)) /\ inUse = Capacity)
        /\ Return(b)
        /\ UNCHANGED <<wasted, clientsMtx>>
     \/ /\ on /\ Valid(Key(b))
        /\ WakeLater(b)
        /\ UNCHANGED clientsMtx
     \/ /\ on /\ ~Valid(Key(b)) /\ inUse # Capacity
        /\ CallGoto(b, "enter")
        /\ clientsMtx' = b
        /\ UNCHANGED <<req, wasted>>
  /\ UNCHANGED <<on, inUse, info, dispose, poolVars, poolMtx, threadVars, held, offAt, clientVars>>

\* borrow_from_range takes the mutex and looks at the threads from `from' on.
BorrowRange(b) ==
  /\ CallAt(b, "range") /\ MapFree
  /\ IF on
       THEN clientsMtx' = b /\ CallGoto(b, "scan") /\ UNCHANGED req
       ELSE Return(b) /\ UNCHANGED clientsMtx
  /\ UNCHANGED <<on, mapVars, poolVars, poolMtx, threadVars, held, offAt, clientVars>>

\* One turn of its loop: a sleeping thread is woken, any other is passed
\* over; at a hole, or past the last thread, a new one is wanted.
Scan(b) ==
  LET inRange == req[b].from <= req[b].to
      known   == inRange /\ Valid(Key(b)) IN
  /\ CallAt(b, "scan")
  /\ \/ /\ known /\ state[info[Key(b)]] = "SLEEPING"
        /\ WakeLater(b)
        /\ clientsMtx' = None
     \/ /\ known /\ state[info[Key(b)]] # "SLEEPING"
        /\ req' = [req EXCEPT ![b].from = @ + 1]
        /\ UNCHANGED <<call, wasted, clientsMtx>>
     \/ /\ ~known /\ (~inRange \/ inUse = Capacity)
        /\ Return(b)
        /\ clientsMtx' = None
        /\ UNCHANGED wasted
     \/ /\ ~known /\ inRange /\ inUse # Capacity
        /\ CallGoto(b, "enter")
        /\ UNCHANGED <<req, wasted, clientsMtx>>
  /\ UNCHANGED <<on, inUse, info, dispose, poolVars, poolMtx, threadVars, held, offAt, clientVars>>

WakeUpSleeper(b) ==                    \* mutant: only a sleeping thread is woken
  /\ CallAt(b, "wake")
  /\ awake' = [awake EXCEPT ![req[b].thread] = @ \/ state[req[b].thread] = "SLEEPING"]
  /\ Return(b)
  /\ UNCHANGED <<on, mapVars, clientsMtx, poolVars, poolMtx, state, job, pc, task, held, offAt,
                 clientVars>>

\* thread::wakeup, without any lock of the pool.
WakeUp(b) ==
  /\ CallAt(b, "wake")
  /\ awake' = [awake EXCEPT ![req[b].thread] = TRUE]
  /\ Return(b)
  /\ UNCHANGED <<on, mapVars, clientsMtx, poolVars, poolMtx, state, job, pc, task, held, offAt,
                 clientVars>>

\* pool::loan_object: _locker.enter waits for room, _clients_mtx held.
Enter(b) ==
  /\ CallAt(b, "enter")
  /\ readers < Capacity
  /\ readers' = readers + 1
  /\ CallGoto(b, "take")
  /\ UNCHANGED <<on, mapVars, clientsMtx, free, busy, poolMtx, threadVars, held, req, offAt,
                 clientVars>>

\* start() returns when the new thread runs.
Start(t) ==
  /\ state' = [state EXCEPT ![t] = "RUNNING"]
  /\ Goto(t, "loop")

TakeShared(b) ==                       \* mutant: the loaned thread stays free
  /\ CallAt(b, "take") /\ poolMtx = None
  /\ \E t \in IF free # <<>> THEN {Head(free)} ELSE Threads \ Created :
       /\ busy' = busy \cup {t}
       /\ req' = [req EXCEPT ![b].thread = t]
       /\ IF free = <<>> THEN Start(t) ELSE UNCHANGED <<state, pc>>
  /\ CallGoto(b, "activate")
  /\ UNCHANGED <<on, mapVars, clientsMtx, readers, free, poolMtx, job, awake, task, held, offAt,
                 clientVars>>

\* pool::loan_object: the most recent free thread, or a new one.
Take(b) ==
  /\ CallAt(b, "take") /\ poolMtx = None
  /\ \/ /\ free # <<>>
        /\ busy' = busy \cup {Head(free)}
        /\ free' = Tail(free)
        /\ req' = [req EXCEPT ![b].thread = Head(free)]
        /\ UNCHANGED <<state, pc>>
     \/ /\ free = <<>>
        /\ \E t \in Threads \ Created :
             /\ busy' = busy \cup {t}
             /\ req' = [req EXCEPT ![b].thread = t]
             /\ Start(t)
        /\ UNCHANGED free
  /\ CallGoto(b, "activate")
  /\ UNCHANGED <<on, mapVars, clientsMtx, readers, poolMtx, job, awake, task, held, offAt,
                 clientVars>>

\* thread_creator::activate starts a closed thread and assigns the job; the
\* thread is entered in the map and _clients_mtx released.
Activate(b) ==
  LET t == req[b].thread IN
  /\ CallAt(b, "activate")
  /\ IF state[t] = "CLOSE" THEN Start(t) ELSE UNCHANGED <<state, pc>>
  /\ job' = [job EXCEPT ![t] = Key(b)]
  /\ awake' = [awake EXCEPT ![t] = TRUE]
  /\ info' = [info EXCEPT ![Key(b)] = t]
  /\ wasted' = [wasted EXCEPT ![Key(b)] = 0]
  /\ inUse' = inUse + 1
  /\ clientsMtx' = None
  /\ Return(b)
  /\ UNCHANGED <<on, dispose, poolVars, poolMtx, task, held, offAt, clientVars>>

-----------------------------------------------------------------------------
(* revoke_client.                                                          *)

\* _clean_up_clients: the threads of the keys K go to the end of the queue
\* in the order of their keys, which is some order of the clients and the
\* increasing order of the idents of each.
CleanUp(K) ==
  /\ \E order \in [1 .. Cardinality(K) -> K] :
       /\ \A m, n \in DOMAIN order :
            m < n => order[m] # order[n]
                     /\ (order[m][1] = order[n][1] => order[m][2] < order[n][2])
       /\ dispose' = dispose \o [n \in DOMAIN order |-> info[order[n]]]
  /\ info' = [k \in Keys |-> IF k \in K THEN None ELSE info[k]]

KeysOf(C) == {k \in Keys : k[1] \in C /\ info[k] # None}

RevokeQuietly(b, c) ==                 \* mutant: the housekeeper is not woken
  /\ offAt = "up"
  /\ KeysOf({c}) # {}
  /\ CallAt(b, "idle") /\ MapFree
  /\ Reborrow \/ \A d \in Borrowers : ~CallAt(d, "idle") => req[d].client # c
  /\ CleanUp(KeysOf({c}))
  /\ revoked' = [revoked EXCEPT ![c] = TRUE]
  /\ UNCHANGED <<on, inUse, wasted, clientsMtx, poolVars, poolMtx, threadVars, held, callVars,
                 offAt, work>>

\* A client without threads is left out: revoking it only wakes the
\* housekeeper, as its ten seconds do.
Revoke(b, c) ==
  /\ offAt = "up"
  /\ KeysOf({c}) # {}
  /\ CallAt(b, "idle") /\ MapFree
  /\ Reborrow \/ \A d \in Borrowers : ~CallAt(d, "idle") => req[d].client # c
  /\ CleanUp(KeysOf({c}))
  /\ awake' = [awake EXCEPT ![House] = TRUE]
  /\ revoked' = [revoked EXCEPT ![c] = TRUE]
  /\ UNCHANGED <<on, inUse, wasted, clientsMtx, poolVars, poolMtx, state, job, pc, task, held,
                 callVars, offAt, work>>

-----------------------------------------------------------------------------
(* off(), from the destructor: nobody outside the pool calls it any more.  *)

OffAt(place)   == offAt = place
OffGoto(place) == offAt' = place

Off ==
  /\ Stoppable
  /\ OffAt("up") /\ MapFree
  /\ \A b \in Callers : CallAt(b, "idle")
  /\ on' = FALSE
  /\ OffGoto("stopHouse")
  /\ UNCHANGED <<mapVars, clientsMtx, poolVars, poolMtx, threadVars, held, callVars, clientVars>>

OffStopHouse ==
  /\ OffAt("stopHouse")
  /\ CancelAndStop(House)
  /\ OffGoto("joinHouse")
  /\ UNCHANGED <<on, mapVars, clientsMtx, poolVars, poolMtx, pc, task, held, callVars, clientVars>>

OffJoinHouse ==
  /\ OffAt("joinHouse")
  /\ Joined(House)
  /\ OffGoto("cleanUp")
  /\ UNCHANGED <<on, mapVars, clientsMtx, poolVars, poolMtx, job, awake, task, held, callVars,
                 clientVars>>

OffCleanUp ==
  /\ OffAt("cleanUp") /\ MapFree
  /\ CleanUp(KeysOf(Clients))
  /\ OffGoto("drain")
  /\ UNCHANGED <<on, inUse, wasted, clientsMtx, poolVars, poolMtx, threadVars, held, callVars,
                 clientVars>>

\* The queue is drained into the pool; _thread_in_use is not counted down.
OffDrain ==
  /\ OffAt("drain") /\ MapFree /\ dispose # <<>>
  /\ held' = [held EXCEPT ![Owner] = Head(dispose)]
  /\ dispose' = Tail(dispose)
  /\ OffGoto("giveBack")
  /\ UNCHANGED <<on, inUse, info, wasted, clientsMtx, poolVars, poolMtx, threadVars, callVars,
                 clientVars>>

OffGiveBack ==
  /\ OffAt("giveBack")
  /\ TakeBack(held[Owner])
  /\ OffGoto("leave")
  /\ UNCHANGED <<on, mapVars, clientsMtx, readers, poolMtx, state, pc, task, held, callVars,
                 clientVars>>

OffLeave ==
  /\ OffAt("leave")
  /\ readers' = readers - 1
  /\ held' = [held EXCEPT ![Owner] = None]
  /\ OffGoto("drain")
  /\ UNCHANGED <<on, mapVars, clientsMtx, free, busy, poolMtx, threadVars, callVars, clientVars>>

\* pool::clear: the writer's lock, then the mutex, kept until the end.
OffClear ==
  /\ OffAt("drain") /\ MapFree /\ dispose = <<>>
  /\ readers = 0 /\ poolMtx = None
  /\ poolMtx' = Owner
  /\ OffGoto("closing")
  /\ UNCHANGED <<on, mapVars, clientsMtx, poolVars, threadVars, held, callVars, clientVars>>

\* thread_creator::destroy stops the threads one by one.
OffClose ==
  /\ OffAt("closing")
  /\ \E t \in Created :
       /\ CancelAndStop(t)
       /\ held' = [held EXCEPT ![Owner] = t]
  /\ OffGoto("join")
  /\ UNCHANGED <<on, mapVars, clientsMtx, poolVars, poolMtx, pc, task, callVars, clientVars>>

OffJoin ==
  /\ OffAt("join")
  /\ Joined(held[Owner])
  /\ held' = [held EXCEPT ![Owner] = None]
  /\ OffGoto("closing")
  /\ UNCHANGED <<on, mapVars, clientsMtx, poolVars, poolMtx, job, awake, task, callVars, clientVars>>

OffDown ==
  /\ OffAt("closing")
  /\ \A t \in Created : state[t] = "CLOSE"
  /\ poolMtx' = None
  /\ busy' = {} /\ free' = <<>>
  /\ OffGoto("down")
  /\ UNCHANGED <<on, mapVars, clientsMtx, readers, threadVars, held, callVars, clientVars>>

-----------------------------------------------------------------------------
LoopStep(x) == FallAsleep(x) \/ Woken(x) \/ Execute(x)

ClientStep(t) ==
  \/ Ask(t) \/ ClientHasJob(t) \/ Waste(t)
  \/ Prepare(t) \/ ClientDoJob(t) \/ ClientDone(t)

HouseStep ==
  \/ HouseAsk \/ HouseTake \/ HouseGiveBack \/ HouseLeave
  \/ HouseClose \/ HouseJoin \/ HouseSwept

CallStep(b) ==
  \/ Borrow(b) \/ BorrowRange(b) \/ Scan(b) \/ WakeUp(b)
  \/ Enter(b) \/ Take(b) \/ Activate(b)

OffStep ==
  \/ OffStopHouse \/ OffJoinHouse \/ OffCleanUp \/ OffDrain \/ OffGiveBack \/ OffLeave
  \/ OffClear \/ OffClose \/ OffJoin \/ OffDown

\* The pool is gone.
Gone == OffAt("down") /\ UNCHANGED vars

Next ==
  \/ \E x \in Workers : LoopStep(x) \/ AlertOver(x)
  \/ \E t \in Threads : ClientStep(t) \/ NestedCall(t)
  \/ HouseStep
  \/ \E b \in Callers : OutsideCall(b)
  \/ \E b \in Borrowers : CallStep(b)
  \/ \E b \in Callers, c \in Clients : Revoke(b, c)
  \/ Off \/ OffStep
  \/ Gone

Spec == Init /\ [][Next]_vars

(***************************************************************************)
(* Every thread that can run runs, a client's v_do_job ends, and a call    *)
(* once begun goes on.  A mutex is not kept from a thread that waits for   *)
(* it while others take it in turn (SF).  No alert need ever be over:      *)
(* nothing may depend on a thread waking up by itself.                     *)
(***************************************************************************)
Fairness ==
  /\ \A x \in Workers : WF_vars(LoopStep(x))
  /\ \A t \in Threads : SF_vars(ClientStep(t))
  /\ SF_vars(HouseStep)
  /\ \A b \in Borrowers : SF_vars(CallStep(b))
  /\ SF_vars(OffStep)

FairSpec == Spec /\ Fairness

-----------------------------------------------------------------------------
(* Properties.                                                             *)

MapTypeOK ==
  /\ on \in BOOLEAN
  /\ inUse \in 0 .. Capacity
  /\ info \in [Keys -> Threads \cup {None}]
  /\ wasted \in [Keys -> 0 .. 1]
  /\ dispose \in Seq(Threads)
  /\ clientsMtx \in Borrowers \cup {None}

PoolTypeOK ==
  /\ readers \in 0 .. Capacity
  /\ free \in Seq(Threads)
  /\ busy \subseteq Threads
  /\ poolMtx \in {None, House, Owner}
  /\ held \in [{House, Owner} -> Threads \cup {None}]

ThreadTypeOK ==
  /\ state \in [Workers -> {"CLOSE", "SLEEPING", "RUNNING", "STOPPING"}]
  /\ job \in [Workers -> Keys \cup {House, None}]
  /\ awake \in [Workers -> BOOLEAN]
  /\ pc \in [Workers -> Places]
  /\ task \in [Workers -> Keys \cup {House, None}]

CallTypeOK ==
  /\ call \in [Borrowers -> CallPlaces]
  /\ req \in [Borrowers -> [client : Clients \cup {None}, from : 0 .. LastIdent + 1, to : Idents,
                           thread : Threads \cup {None}]]
  /\ offAt \in OffPlaces

\* Every variable keeps its type; _thread_in_use and the loans the gate has
\* granted stay within the capacity.
TypeOK == MapTypeOK /\ PoolTypeOK /\ ThreadTypeOK /\ CallTypeOK

\* While the pool is up, _thread_in_use is the number of threads the map and
\* the queue hold.
UseCounted ==
  OffAt("up") => inUse = Cardinality({k \in Keys : info[k] # None}) + Len(dispose)

Queued == Elements(dispose)
Mapped == {info[k] : k \in {l \in Keys : info[l] # None}}
InTransit == {t \in Threads : \/ At(House, "giveBack") /\ held[House] = t
                              \/ OffAt("giveBack") /\ held[Owner] = t
                              \/ \E b \in Borrowers : CallAt(b, "activate") /\ req[b].thread = t}

\* A loaned thread is in exactly one place: one entry of the map, one of the
\* queue, or the hands of whoever moves it between these and the pool.  No
\* thread is given to two clients, none is lost.
OnePlaceEach ==
  /\ busy = Mapped \cup Queued \cup InTransit
  /\ Mapped \cap Queued = {} /\ Mapped \cap InTransit = {} /\ Queued \cap InTransit = {}
  /\ \A k, l \in Keys : info[k] = info[l] /\ info[k] # None => k = l
  /\ Distinct(dispose) /\ Distinct(free)
  /\ busy \cap Elements(free) = {}

\* loan_object's wait at the gate, with _clients_mtx held, is only ever for
\* the one thread the housekeeper is returning at that moment: below the
\* capacity of the pool a loan needs no other thread to give something up.
LoanWaitsForReturn ==
  \A b \in Borrowers :
    CallAt(b, "enter") /\ readers >= Capacity => pc[House] \in {"giveBack", "leave"}

\* While no revoked client borrows again, no two threads run the callbacks of
\* one client for the same ident, not even with a job copied long ago.
OneThreadPerIdent ==
  \A t, u \in Threads : task[t] # None /\ task[t] = task[u] => t = u

\* A borrow that finds or gets a thread is answered: afterwards the client is
\* asked for a job, whatever its thread was doing when it was woken.
BorrowAsks ==
  \A b \in Borrowers, c \in Clients :
    (call[b] \in {"wake", "activate"} /\ req[b].client = c)
      ~> (revoked[c] \/ ~on \/ \E t \in Threads : At(t, "toAsk") /\ task[t][1] = c)

\* A thread that revoke_client queued is eventually free again, without
\* waiting for the housekeeper's ten seconds.
RevokedThreadsReturn ==
  \A t \in Threads : (t \in Queued) ~> (t \in Elements(free))

\* off() comes to its end: every thread is stopped, whatever it was doing.
OffCompletes == OffAt("stopHouse") ~> OffAt("down")

\* threadpoolfactory.h on revoke_client: "we need to stop calling client
\* functions immediately", only calls "already in progress should be
\* completed": no call begins after revoke_client returned.
NoCallAfterRevoke ==
  [][\A t \in Threads :
       pc[t] \in {"toAsk", "toDo"} /\ pc'[t] # pc[t] => ~revoked[task[t][1]]]_vars

\* threadpoolfactory.h on deactivate_time_msec: "after that all unused threads
\* returned to the pool will be closed": the housekeeper's wait ends.  It does
\* not hold, and no run checks it: README, section 6.
ClosingEnds == At(House, "join") ~> ~At(House, "join")

=============================================================================
