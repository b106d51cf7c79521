# terimber: TLA+ models and proofs

TLA+ specifications of the terimber C++ library (`src/ver3.0/src`, called `S/`
below), TLC configurations that check them on small instances, and TLAPS proofs
about them.

- [1. The system](#1-the-system) - components, state, operations, what is hard
- [2. Modules](#2-modules) - what each module models and how it maps to the code
- [3. Runs](#3-runs) - what is checked, with which bounds, and what it shows
- [4. Fairness](#4-fairness)
- [5. Proofs](#5-proofs)
- [6. Disagreements between the code and its documentation](#6-disagreements)
- [7. What is not modelled](#7-what-is-not-modelled)
- [8. Plan](#8-plan)

Run everything inside this directory: `tlc -workers 2 -config X.cfg MCModule`,
`tlapm ModuleProofs.tla`. `PROJECT.json` lists the runs, the mutants that show
that every property can fail, the source lines of every definition, the hazards
and the theorems.

## 1. The system

terimber is a class library in layers; each layer calls the one below through a
factory and an abstract class, and is called back through an abstract class the
user implements.

```
 cache, winlintest           applications
 aiomsg                      messages, connections, requests and replies
 aiogate                     a message-less gate: pins over sockets
 aiosock, aiofile            asynchronous sockets and files
 threadpool (+ timer)        worker threads for employers
 aiocomport                  completion port, emulated on Unix
 base                        keylocker, events, pool<>, containers
 memdb, alg, xml, db*, fuzzy, tokenizer, smart, crypt, tools    separate libraries
```

### Components with interacting actors

**keylocker** (`S/base/keymaker.cpp`). State: `_opened`, `_readers`, four
events, a spinlock. Operations `enter`, `leave`, `lock`, `unlock`, the first two
for readers, of whom there may be `_maxReaders`. Used by `pool<>` (a loan is a
reader) and by the maps of aiomsg. Hard: waits happen outside the spinlock, one
auto-reset signal stands for many waiters, finite timeouts race with signals.
Correct when a writer is alone, the count never passes the capacity, a shut door
is opened again, nobody is forgotten.

**threadpool** (`S/threadpool/threadpool.cpp`, `thread.cpp`,
`S/base/template.hpp`). State: `_on`, `_thread_in_use`, `_clients_map` from
client and ident to thread and count of wasted calls, `_dispose_queue`; the
object pool's free and busy lists and its gate; each thread's state, job and
wake-up event. Operations: `borrow_thread`, `borrow_from_range`,
`revoke_client`, `on`, `off`; the threads call `v_has_job` and `v_do_job` of
the pool, which calls those of the client. The housekeeper is one more thread,
whose employer is the pool: it gives disposed threads back and closes those that
rested too long. Hard: three mutexes, none held across a client's callback, two
of them held across waits; calls into the pool from inside callbacks; threads
disposed of in the middle of a job. Correct when no loaned thread is lost or
given to two clients, the counters agree, wake-ups are not lost, and no actor
waits for ever for another.

**aiosock** (`S/aiosock/aiosock.cpp`). State under one `_mtx`: a generator of
idents, sockets, listeners, the lists of incoming and outgoing blocks, the
delayed closes, the block pool, the completion port. Operations: `create`,
`bind`, `listen`, `accept`, `connect`, `send`, `receive`, `close`; its threads
are borrowed from the threadpool, wait on the port and call back. Hard: the
mutex is dropped around every callback; `close` races completions, timeouts and
callbacks of the same ident, and idents are used again. Correct when each block
is answered once, an ident is reused only after its last callback, and the
pending accepts of a listener are kept up.

**aiogate** (`S/aiogate/aiogate.cpp`). State: the pins with their masks
(connected, sending, receiving, in use, closing) and lists of buffers, and a list
of pins to close. Operations are the user's calls and the callbacks of aiosock;
`lock_pin`/`unlock_pin` bracket both, `initiate_close` and `final_close` decide
who closes. Correct when `on_close` comes once and last, buffers are sent in
order and no pin outlives it.

**aiomsg** (`S/aiomsg`). `msg_que` (three priorities, 1024 messages each, one
borrowed thread), `msg_conn`/`msg_sock` (handshake, one message in flight),
`msg_comm` (owner of connections and users, closes connections on its own
thread), `msg_user` (synchronous and asynchronous requests, replies, timeouts).
Hard: deletion of connections while callbacks run, replies against timeouts,
raw pointers outside locks. Correct when each request is answered exactly once,
messages of a connection keep their order, and a deleted connection is not used.

**timer** (`S/threadpool/timer.cpp`): `activate`, `deactivate`, `fire` and a
countdown run by its own thread.

**aiofile**, **aiocomport**: the pattern of aiosock for files; a completion port
made of `select` and signals.

### Components without interaction

**memdb** (tables, indexes, row statuses under changes that may fail half way),
**alg** (d-ary heap, Prim's algorithm), the containers of **base**, **xml**,
**db, dbmysql, dbodbc, dborcl**, **fuzzy**, **tokenizer**, **smart**, **crypt**,
**tools**, **daemon**, **cache**, and the test programs of **winlintest**.

The hazards of the code, each at its line, are in `PROJECT.json`, those
that no property covers with a note saying why. Two more, in components that are
not modelled: `timer.cpp:89` compares its unsigned countdown before it decrements
it, and fires one interval late; `memtable.cpp:387` leaves a half-filled row in
the table, in no index, when a value cannot be copied.

## 2. Modules

| module | models | kind |
| --- | --- | --- |
| `RWGate` | what a keylocker promises its callers | abstract specification |
| `KeyLocker` | `base/keymaker.cpp`, all four operations | component |
| `KeyLockerProofs` | invariants of `KeyLocker`, refinement of `RWGate` | proofs |
| `ThreadPool` | `threadpool.cpp`, `thread.cpp`, `pool<>` of `template.hpp` | component |
| `ThreadPoolProofs` | invariants of `ThreadPool` | proofs |
| `Lists` | lists of the program as sequences: their elements, what is kept of one, sums | helper |
| `ListProofs` | what appending, taking and keeping do to a list; induction over its places, sums | lemmas |
| `CompletionPort` | `aiocomport.cpp`, as operators on the value of one port | helper of `AioSock` |
| `AioSock` | `aiosock.cpp`, the branch for Unix, over `CompletionPort` | component |
| `AioSockProofs` | what each call of the port does to the set of what it knows; invariants of `AioSock`, refinement of `SocketPort` | proofs |
| `SocketPort` | what aiosock promises its clients, and what they do with it | abstract specification |
| `AioGate` | `aiogate.cpp`, over `SocketPort` | component, composed with the abstract sockets |
| `AioGateProofs` | invariants of `AioGate` | proofs |
| `MsgQueue` | `msg_que.h`, as operators on the value of one queue | helper of `MsgConnection` |
| `MsgConnection` | `msg_comm.cpp`, `msg_conn.cpp`, `msg_sock.cpp`: several nodes and the links between them | component |
| `MsgConnectionProofs` | invariants of `MsgConnection` | proofs |
| `MsgConnectionOrder` | the order of posts in `MsgConnection` | proofs |
| `MsgRequests` | `msg_user.cpp`, `aiomsg::stop` | component |
| `MsgRequestsProofs` | invariants of `MsgRequests` | proofs |
| `MCKeyLocker`, `MCThreadPool`, `MCAioSock`, `MCAioGate`, `MCMsgConnection`, `MCMsgRequests` | names, inputs and symmetry for TLC | instances |

### KeyLocker

One action per critical section under the spinlock `_lock`, one per wait on an
event. `pc[t]` is the place of a thread in its call.

| code | action |
| --- | --- |
| `enter` | `CallEnter`, `EnterTry` (the section), `WakeOpen`, `WakeEnter`, `EnterExpired`, `ReaderTimeout` |
| `leave` | `Leave` |
| `lock` | `CallLock`, `LockTry`, `WakeLock`, `WakeClose`, `ResetClose`, `LockExpired`, `LockTimeout`, `CloseTimeout`, `GiveUp` |
| `unlock` | `Unlock` |

An event is its `_signaled` flag: a successful wait clears it if it resets by
itself. `ResetClose` is apart from `WakeClose` because the code resets the event
after the wait, outside the spinlock; `GiveUp` is apart from `CloseTimeout`
because the spinlock is taken only after the wait has failed. Threads of
`Impatient` pass a finite timeout, and time is the choice it gives them. The
members of `_opened` and `_readers` are the variables of that name.

`RWGate` has two sets only: readers inside and the writer that owns the gate.
`KeyLocker` implements it with `inside <- Inside`, `owners <- Owners`.

### ThreadPool

A critical section that neither blocks nor calls out is one action, enabled
while its mutex is free. `_clients_mtx` and the pool's `_mtx` are also held
across waits (a loan at the gate, the stopping of a thread), so they have
variables, `clientsMtx` and `poolMtx`, set only there.

| code | state or action |
| --- | --- |
| `_clients_map`, `_wasted_calls`, `_dispose_queue`, `_thread_in_use`, `_on` | `info`, `wasted`, `dispose`, `inUse`, `on` |
| `pool::_locker`, `_free_objects`, `_busy_objects` | `readers`, `free`, `busy` |
| `thread::_state`, `_job_task`, `_ev_wakeup` | `state`, `job`, `awake` |
| `start_thread`, `sleep`, `execute` | `FallAsleep`, `Woken`/`AlertOver`, `Execute` |
| `v_has_job` for a client | `Ask`, `ClientHasJob`, `Waste` |
| `v_do_job` for a client | `Prepare`, `ClientDoJob`, `ClientDone` |
| `v_has_job`, `v_do_job` of the housekeeper | `HouseAsk`, `HouseTake`, `HouseGiveBack`, `HouseLeave`, and the sweep `HouseClose`, `HouseJoin`, `HouseSwept` |
| `borrow_thread` | `Borrow`, then `WakeUp`, or `Enter`, `Take`, `Activate` |
| `borrow_from_range` | `BorrowRange`, `Scan` for every turn of its loop, then the same |
| `revoke_client` | `Revoke` |
| `off` | `Off` and the ten steps of `OffStep` |

`task[t]` is the copy of the job (and of the client's info) that `execute`,
`v_has_job` and `v_do_job` make and use after the lock is released: most of what
can go wrong here comes from it. The client is opaque; it has `work[c]` jobs
queued and its callers queue one before they borrow, as aiosock and aiomsg do.
`req[b]` holds a borrower's arguments and the thread it found. `revoked` is
history, for one property.

The keylocker inside `pool<>` appears in `ThreadPool` by what `RWGate` promises:
a loan waits for room and counts itself (`Enter`), a return counts down
(`HouseLeave`, `OffLeave`), `clear` waits for an empty gate (`OffClear`). The
`pool<>` never passes the gate a timeout except in `loan_object`, and takes the
writer's lock only in `clear`, when no loan is made any more, so the writer's
disagreements of section 6 do not reach it.

`Prompt` restricts `HouseClose` to threads that are not in a client's callback,
that is, to callbacks shorter than `deactivate_time_msec`; section 6 says what
happens without it.

### AioSock and CompletionPort

Every function of `aiocomport` is one critical section under `_port_mtx`, so the
port is a value `[associated, waiting, done]` and each call an operator on it:
`Associate` (`CreateIoCompletionPort`), `StartWaiting` and `StartDone`
(`initiate_action`: the system call would block, or it succeeds at once),
`Finished` (`func_sock_signal`), `Dequeued`, `Posted`, `CancelAll`, `CancelOne`
(`CancelIo`, whose second loop never runs). `AioSock` holds the value in `port`.
What a call leaves of a list is `Kept` of `Lists`, which names the places that
stay; `MCAioSock` compares it with `SelectSeq` (`KeptAssumption`), which the
prover cannot expand.

A critical section under `_mtx` of `aiosock` is one action. The mutex is dropped
for callbacks, and in the middle of `close` and `listen`; those are the places
where actions meet.

| code | state or action |
| --- | --- |
| `_socket_generator`, `_socket_map`, `_delay_key_map`, `_listeners_map` | `issued`, `open`, `delay`, `listeners` and `accepts` |
| `aiosock_socket::_callback_invoking`, `_incoming_list` | `invoking`, `incoming` |
| `_initial_list`, `_outgoing_list`, the blocks | `initial`, `outgoing`, `block` |
| `create`; `connect`, `send`, `receive` | `Create`; `Request` |
| `listen`, `close` | `Listen` and `ListenEnd`, `Close` and `CloseEnd` |
| the initiation thread, `v_has_job` and `v_do_job` of ident 1 | `InitAsk`, `Start` or `NothingToStart` |
| `process_accept_blocks` | `PostAccept` or `NoAcceptToPost` |
| `process_timeouted_blocks` | `TimeOut`, `TimedOut` after the callback, or `NothingTimesOut` |
| `wait_for_io_completion`, `complete_block` | `PortTake`, `Complete` |
| a working thread, idents 3 and up | `WorkerAsk`, `WorkerCall` and `WorkerDone` after the callback, or `WorkerNothing` |
| `off` | `OffStart`, `OffPostQuit`, `OffClosePort`, `OffClear` |

Callbacks call the interface as users do: the actors of `Create`, `Request`,
`Listen` and `Close` are users and the threads in a callback. What the kernel and
the clock do is left open: `Signal` finishes any waiting operations of a socket,
`Tick` lets the time of a pending operation come and pass (`due` is the instant
at which `now` equals `_expired`, because two tests differ there). `own` and
`fresh` are history: whether the socket of an operation was ever closed, and
whether its block was ever given back.

Two things are modelled as the code has them and look like slips: `close` clears
the list of pending blocks before the loop that should return them, so they are
`Lost`; and that loop runs over an iterator that was erased, whose list is taken
to be the empty one it was. Threads of the pool wake by themselves here; that a
loan wakes one is what `ThreadPool` shows (`BorrowAsks`).

`marks` says two things of an open socket: that it listens, for the system (its
`bind` was done, so a second `listen` fails), and, as history, that it was given
its ident in the middle of a `close` of the ident's former holder (`crossed`):
a delayed close may let the ident go before its second half. Of such a socket
`AcceptsCounted` says nothing, and section 6 says what becomes of it; of every
other it says that the race does not touch it. The model has one life from `on` to `off`; the sockets are up in the initial state,
and the owner switches them off only when no user is calling.

`AioSock` implements `SocketPort` (`ImplementsPort`): a block is an operation, a
thread that calls back is a thread, and `Waiting(b)` says that an operation was
asked for, its socket was not closed and nobody has begun to answer it. So the
client sees that an operation is answered at most once and never after `close`
returned, that an ident with a callback under way is not given out again, and
that `close` drops what was asked.

### AioGate

The gate is a client of `SocketPort`, whose actions it extends: each of its
actions is an action of the port together with what the gate does under its
mutex. Operations of the port are pairs of an ident and a kind.

| code | state or action |
| --- | --- |
| `_pin_map`, `_listener_map`, `_pin_list` | `pin[i].place`, `listeners`, `pinList` |
| `pin_info`: `_mask_progress`, `_mask_invoking`, `_still_alive`, the buffers | `progress`, `invoking`, `alive`, `queue` |
| `listen`, `deaf`, `connect`, `bind` | `Listen`, `Deaf`, `Connect`, `Bind` |
| `send`, `send_bulk`; `recv`; `close` | `SendBulk`; `Recv`; `Close` and `InitiateClose` |
| `v_on_...`, until the client's callback | `OnAccept`, `OnConnect`, `OnSend`, `OnRecv`, `OnError`, or `Ignored` |
| `unlock_pin` and the end of `v_on_...` | `EndCallback`, `RecvAgain`, then `Return` |
| the closing thread: `v_has_job`, `v_do_job`, `final_close` | `Take`, `ClosePort`, `Destroy` |
| `off` | `OffStart`, `OffThread`, `OffPort`, `OffClear` |

A chunk is its `_begin`, its `_end` and, for datagrams, the lengths in their
headers; `SendBulk` fills chunks as the loop of `send_bulk` does. `during[a]` is
the callback an actor is in, `half[a]` what it still has to do after a mutex was
dropped. `taken`, `sent`, `refused` and `fresh` are history: bytes accepted and
reported sent, a call that was refused with a part of it stored, and whether the
pin is still the one the actor was called for.

### MsgQueue and MsgConnection

Several communicators, connected by links (TCP connections). `conn[<<n, l>>]` is
the connection object of node `n` for link `l`; its thread of the pool is a field
of it, and the bell is that thread's wake-up. The communicator's thread, the one
working thread of its aiosock (`_aio_port(0, ...)`: no additional ones) and an
administrator are `comm`, `aio` and `admin`.

| code | action |
| --- | --- |
| `msg_communicator::v_do_job` | `CommClose`, `CommDeliver`, `CommRoute`, `CommRefuse`, or `CommConnect` and then `CommAdd` or `CommDuplicate`, `CommPush` |
| `v_has_job`, `v_do_job` of a connection | `ThreadAsk`; `ThreadSend` or `ThreadRefused` |
| `v_on_accept`, `v_on_connect`, `v_on_error` | `Accept`, `OnConnect`, `OnError` |
| `v_on_send` | `OnSend`, `SentWakes` |
| `v_on_receive` and `process_incoming_message` | `Answered` and `Greeted`; `Readdress`, `Answers`, `Replies`, or `DeletesItself`; `Forwards`, `Pinged`, `Throws`; then `Done` |
| `shutdown_connection` | `AdminShut`, `AioShut`, `ThreadShut`, two steps each: block, then revoke and order the close |
| `notify`, `remove_connection_config`, `post` | `Ping`, `Remove`, `MakePost` |

Nothing protects a connection from being deleted while an actor is inside it.
What such an actor does next is undefined, so it takes no further step; its guards
say `Live`, and `Astray` names the state. Invariants that hold only before that
would say little, so they are stated for live connections whatever else has
happened. The message for the node itself goes to its user's connection, which is
`MsgRequests`' part.

### MsgRequests

One user's connection with everything around it open: users that call, the
threads of ident 0 (replies), 1 (timeouts) and 255 and up (incoming messages),
the communicator that pushes and deletes, the timer, and `stop`.

| code | state or action |
| --- | --- |
| `_map`, `msg_wait_reply` | `waits`, `ready`, and `signaled` for the events |
| `_async_map`, `_async_list` | `amap`, `alist` |
| `send` | `Send` or `SendNoEvent`, `Pushes` or `PushRefused`, `Woken` or `TimesOut`, `Collects` or `GivesUp` |
| `send_async` | `SendAsync`, `Posts` or `PostRefused` |
| `push_msg` | `PushReply`, `PushAsync`, `PushIncoming` |
| `v_has_job`, `v_do_job` | `Wakes`, `Asks`, `Sleeps`; `PopAsync`, `PopExpired`, `PopIncoming`, `CallsIn`, `CallEnds`, `NothingLeft` |
| `wakeup`, `borrow_from_range` | `Help`: the first sleeping thread of the range, else the event of the first |
| `aiomsg::stop`, `v_off`, `shutdown_connection`, the destructor | `StopWaits`, `StopRevokes`, `StopBlocks`, `StopTells`, `CommDelete` |

The network is open: a request may be refused, lost, or answered at any later
time, also after it has timed out. `result`, `accepted` and `called` are history.

## 3. Runs

Sizes are of distinct states.

| run | instance | shows |
| --- | --- | --- |
| `KeyLockerPatient` | 3 readers, one of them impatient, 3 patient writers, capacity 2; 33 000 | a writer is alone (`Exclusion`); who shuts the door gets in (`CloserGetsIn`); no writer is left asleep before an open door (`NoForgottenWriter`); `RWGate` is implemented (`GateSpec`) |
| `KeyLockerTimeouts` | 3 readers, 2 writers, two of each impatient | a shut door has exactly one closer (`DoorHasOneCloser`) and is opened again (`DoorReopens`), whatever times out |
| `ThreadPoolIdents` | 2 threads, 2 idents, 1 caller, calls from callbacks, destruction; 474 000 up to symmetry | the counter of threads in use agrees with map and queue (`UseCounted`); a thread serves one ident (`OneThreadPerIdent`) |
| `ThreadPoolLive` | 1 thread, 2 idents, calls from callbacks that also borrow again, destruction; 62 000 | no thread is lost or in two places (`OnePlaceEach`); a loan waits only for a return that is under way (`LoanWaitsForReturn`); a borrowed thread asks its client (`BorrowAsks`); revoked threads come back (`RevokedThreadsReturn`); `off` ends (`OffCompletes`) |
| `ThreadPoolRevoke` | 1 thread, 1 client, 1 caller; a violation | a callback begins after `revoke_client` has returned (`NoCallAfterRevoke` is false) |
| `AioSockTwo` | 1 user, 2 workers, 2 blocks, 2 idents, the first may listen, no timeouts; 186 000 up to symmetry | running callbacks are counted and an ident is free only without them (`CallbacksCounted`, `IdentKept`); a listener keeps its entry and the count of its accepts, across closes in two halves (`AcceptsCounted`); a completion finds its block still its own (`CompletionsFresh`); `SocketPort` is implemented (`ImplementsPort`) |
| `AioSockLive` | 1 user, 2 workers, 1 block, 1 ident, a listener, timeouts, `off`; 63 000 | an operation is at one station, and known to the port while it is pending (`OperationsTracked`); what completed is answered (`CompletedAnswered`); `off` ends (`OffCompletes`) |
| `AioGate` | 1 user, 2 workers, 1 ident, datagrams and bytes in chunks of 4 with a header of 1, at most 5 bytes; 570 000 up to symmetry | a pin that closes is destroyed by its last callback, and only then (`ClosedByLast`); an operation that the sockets have is in the mask of its pin (`ProgressKnown`); bytes add up and the chunk being sent stays as it is (`DataKept`); what a living pin has stored is being sent (`StoredIsSent`); a callback closes its own pin (`CloseReachesOwn`) |
| `AioGateLive` | 1 user, 1 worker, 2 idents, one a listener, `off`; 43 000 | every open socket is a listener's or a pin's (`SocketsOwned`); a pin that died is destroyed (`DeadEnds`); `off` ends (`OffEnds`) |
| `MsgConnection` | 2 nodes configured for each other, a post each way, 2 links, 1 ping; 566 000 up to symmetry | one message in flight per connection (`OneInFlight`); a connection always waits for the next message (`StillListens`); map and actors hold live connections only (`MapHoldsLive`); the accepting side hears the handshake first (`GreetingFirst`) |
| `MsgConnectionLive` | 2 posts one way, 2 links, one of which breaks, an administrator; 223 000 | messages arrive in order and once, across connections, where one side connects (`DeliveredInOrder`, `OneSided`); a connection that is shut down is deleted (`ShutdownEnds`); what is queued leaves (`QueuedLeaves`) |
| `MsgRequests` | 2 users, 1 event, 2 synchronous requests, 1 asynchronous, 2 incoming messages, at most 2 of them made, 1 additional thread, `stop`; 200 000 | `send` returns true without a reply only when the connection goes off (`NullReplyMeansOff`); an asynchronous request is answered once at most (`AsyncOnce`) and in the end, if it was accepted (`AsyncAnswered`); an incoming message is taken (`IncomingTaken`) |

Why these bounds. In a keylocker two readers fill the gate and a third waits for
room; two writers contend, and a third makes the chain of one signal for many
writers more than one link long. In the pool two threads are the least with one
working and one on its way back, and equal the capacity, so that loans are
refused and wait; `MaxWork` = 1 makes a client's queue empty and full in turn
(one job and two callers already give a wasted call and a missed one); two idents
give `borrow_from_range` a thread to pass over and a hole to fill. `ThreadPoolLive`
has one thread, because with two of them disposed by `Waste` the housekeeper
needs its ten seconds (section 6). `SYMMETRY` is used in safety runs only.
Deadlock is checked except where the system may stop: when it was switched off
(`AioSockLive`, `AioGateLive`, `MsgRequests`), and when all posts were made or an
actor is inside a deleted connection (`MsgConnection`, `MsgConnectionLive`).

In the sockets two working threads are needed for two callbacks of one socket at
once, which is what the counters of running callbacks are for; two idents give a
socket that is closed and another that gets its ident or accepts; two blocks let
one operation be reported, timed out or called back while the other waits, and a
block be given back and used again. With one block `AioSockLive` has a block in
every place when `off()` comes; more of them only add to the queues. `MaxDone` is
the number of completions that wait for the port thread, 1 or 2, and `AcceptPool`
is 1, so that an accept too many or too few shows at once. Sockets with one of the
idents `Ears` may listen: the first is closed, given out again and listens again,
while the second is an accepted or connected socket.

In the gate one ident is enough for a pin, its closing, and the next pin that gets
the ident while a callback of the first is still on its way; two workers make two
callbacks of one pin run at once. A chunk of 4 bytes with a header of 1 holds one
datagram of 2 and no second, and `SmallBulks` overfills it, so that a call spans
chunks, a chunk is sent in parts and a datagram opens a new one. In `AioGateLive`
the listener's socket and an accepted one fill the two idents.

In the connections two nodes and two links are the least for both to connect to
each other at once, where the second handshake finds the address taken, and for a
new connection after a broken one; two posts show an order. The two runs split
what goes wrong: crossing connections with pings, and a link that breaks with an
administrator. `MaxPings` is 1, `Capacity` 2. In the requests one event for two
users makes an event left signaled meet its next user, `MaxMade` = 2 lets any two
of five things happen against each other, and one additional thread makes the
range that `borrow_from_range` searches.

## 4. Fairness

`KeyLocker`: weak fairness for every step of a call in progress, and for `Leave`
and `Unlock`, because `keylockerReader` and `keylockerWriter` release in their
destructors. A thread need not call, and no timeout need expire.

`ThreadPool`: weak fairness for the loop of each thread, whose steps need no
mutex. Strong fairness for the steps that take a mutex - a client's callbacks
through `v_has_job` and `v_do_job`, the housekeeper, a call, `off` - because
other threads may take the mutex again and again in between; the system's
mutexes do not starve a waiter for ever. `ClientDone` is among them: the liveness
properties are for clients whose `v_do_job` returns. No fairness for `AlertOver`:
nothing is allowed to depend on a wait that ends by itself, in particular not on
the housekeeper's ten seconds.

`AioSock`: weak fairness for the steps of each thread and for the second half of
a call; strong fairness for the end of a callback, which can be put off by the
calls it makes: callbacks return. Nothing is asked of users, of the kernel (an
operation may wait for ever) or of the clock.

`AioGate`: weak fairness for what a thread of the gate or of the port has begun
(`InitiateClose`, `RecvAgain`, `Return`, the closing thread, `off`) and strong
fairness for `EndCallback`: the client's callbacks return, whatever they call.

`MsgConnection`: one weak fairness condition for the steps of all threads
together. Posts, links and pings are finite, so no thread can take steps for ever,
and it says that each goes on until it has nothing to do. Nothing is asked of
users, administrators, the clock or the network.

`MsgRequests`: the same for the steps of users inside calls, of threads and of the
timer together (timeouts are finite, callbacks return), and one for `stop` once it
has begun. No call, reply or `stop` need ever come.

## 5. Proofs

TLC shows the properties of section 3 on small instances; the theorems show them
for every value of the constants: any number of threads, readers, clients, idents,
blocks, users, nodes, links, requests, and any capacity or bound. Every invariant
below was checked by TLC on the instances of section 3 before it was proved. A
proof has one lemma for each action; actions that touch the same state share a
lemma about what they leave alone.

`KeyLockerProofs`

- `KeyLockerCounts`: types, `ReadersCounted`, `DoorHasOneCloser`, whatever times
  out. The conjunction is inductive: the count needs to know that only a reader
  inside leaves, and the closer that the door it found open had no closer.
- `KeyLockerExcludes`, `KeyLockerImplementsGate`: mutual exclusion and the
  refinement of `RWGate`, assuming `PatientWriters` (no writer passes a finite
  timeout); without it they are false (section 6). The invariant adds that a
  signaled `_evCanClose` means that the closer waits or has just been woken and
  that no reader is inside.

`ThreadPoolProofs`

- `PoolTypes`, `PoolUseCounted`, `PoolOnePlaceEach`, `PoolLoanWaitsForReturn`.
  None of them is inductive. `PoolInv` adds who holds `_clients_mtx` (`Mutex`),
  what a borrower knows of its key while it holds it (`Requests`: the key has no
  thread and the capacity is not reached), the phases of `off()` (`Phases`: the
  housekeeper is gone before the map is emptied, the queue and the busy list are
  empty before threads are destroyed), and two equations that tie the counters of
  both mutexes together: `Loans` (a counted loan is a busy thread, or one being
  taken, or one just given back) and `Uses` (a busy thread is in use, or on its
  way in or out). `Hands` says that the two actors that may have a thread in hand
  do not have the same one. Each action keeps `PoolInv`; actions that touch
  neither map nor pool share the lemma `Frame`, those of a search `CallFrame`,
  moves from the map to the queue `Disposed`, returns `GivenBack`.
- `PoolOneThreadPerIdent`, where no revoked client borrows again (`~Reborrow`,
  which is what the property is about; false otherwise). `SoleInv` says of a
  thread that still has a job, or a copy of one, that it is entered for it in the
  map, or that the client was revoked, or that the pool is off: then a thread that
  gets the job meets no other. A revoked client has no call under way
  (`RevokedSilent`). The proof needs one fact nobody wrote down: `Waste` never
  disposes of a thread, because the question before it has reset
  `_wasted_calls` (section 6); if it did, a thread would leave the map with its
  client's job in hand.

`AioSockProofs`, with `ListProofs`

- `SocketCallbacksCounted`, `SocketIdentKept`, `SocketOperationsTracked`, from
  `SocketInv`, whatever is created, closed, timed out or switched off. Its parts:
  each live block is in exactly one list or one callback, and in a list only while
  its socket is open (`ListInv`); the running callbacks of an ident are counted by
  `_callback_invoking` while the socket is open and by the delayed close after
  that, and an ident is taken while either is (`CountInv`); a pending operation is
  known to the port or in the hand of the port's thread (`KnownInv`); the phases
  of `off()` (`OffInv`). An operation is never in two places because its block
  is in no other list; this is what makes a count change by exactly one.
- `SocketAcceptsCounted`. A socket whose ident is in the middle of a close is
  `crossed`, an ident that is neither open nor in the middle of a close has no
  count left, and of every other socket the count is the number of its accepts
  under way, its listener is in the map while there are any, and if it listens it
  is in the map or its `listen` is about to enter it (`AcceptsInv`). The first of
  these is what keeps the second half of `close` from the others.
- `SocketCompletionsFresh`, assuming that no operation has a timeout (`~Finite`);
  it is false without (section 6). It adds that no two completions in the port are of the same block
  (`FreshInv`).
- `SocketImplementsPort`: every step of `AioSock` is a step of `SocketPort` or
  changes nothing there. `RequestIsAsk`, `PostAcceptIsAsk`, `TimeOutIsAnswer`,
  `WorkerCallIsAnswer`, `DoneIsReturn` and `CloseIsClose` name the step each
  action is; `CountInv` gives the guard of `Create` (an ident that is free has no
  callback under way), `ListInv` that of `Answer` (what is answered was asked and
  not answered before).

`AioGateProofs`

- `PinClosedByLast`, `PinProgressKnown`, `PinStoredIsSent`, `PinSocketsOwned`,
  `PinCloseReachesOwn`, from `GateInv`, over any port that keeps `SocketPort`.
  Its parts: what is asked of the port is asked for an open socket (`AskedOpen`),
  each with an owner (`Owned`); the list of the closer holds pins in that place,
  each once (`Listed`); workers in client code run a callback of the port
  (`Busy`); and for each pin: a mark is exactly one callback and a callback is
  marked (`Marked`), the mask of progress has what the port has and what is called
  back for, but never both at once (`Masked`), a dead pin has a callback left or
  will be closed (`DeadCloses`), stored data is on its way (`StoredGoes`).
  `Reaches` needs the port's promise that an ident is not given out while a
  callback of it runs: between the two sections of `v_on_...` the pin may be
  destroyed, but no other gets its ident. Steps change one pin; `OthersKept`
  covers the other pins, `AnsweredIs` the start of every callback, `CallBackKept`
  that of the client's, `EditKept` what `send_bulk` and `recv` do to a mask,
  `NewPinKept` new pins.
- `PinDataKept`, from `GateInv` and, for each pin, `DataInv`. `DataKept` alone is
  not inductive: it says how many bytes the chunks hold, not that each chunk is
  one `v_on_send` can go on with. `Whole` adds that every chunk but the first
  begins at 0 and holds what its end and its headers say, and that the first is
  like that too, but for the datagram the port has of it (`Flying`, `FirstKept`);
  `Given` says what a pending send has, and the mask, from `GateInv`, that there
  is one send at a time. `StoredOnIs` is what storing one buffer does, `ChunksAre`
  what a call of many does, `SendingKeeps` and `SentKeeps` the two ends of a send;
  `DataAside` and `DataBeside` cover the steps that touch no data. `Sum` and
  `Chunks` are recursive functions over the places of a list, and the lists have
  any length: `ListProofs` gets that far by the least place at which a claim would
  fail (`Least`, `Induction`, from the well-foundedness of `<` on the naturals),
  applied to the set of the places where it holds, since no prover here can apply
  the library's theorems of induction to an operator.

`MsgConnectionProofs`

- `ConnMapHoldsLive`, `ConnOneInFlight`, `ConnStillListens`, `ConnGreetingFirst`,
  from `ConnInv`, for live connections, whatever else was deleted under an actor's
  feet. Its parts: the two ends of a link keep the roles they began with
  (`LinkOf`, `RoleOf`); a connection in the map is live and at its own address,
  and a live one is in the map or about to be put there (`MapOf`); a message that
  is out is being sent, or its connection is blocked or being shut (`FlightOf`);
  a live connection waits for the next message or a callback of it runs that will
  ask for it (`ListenOf`); what was queued, sent or is on the wire may be sent by
  that end (`CarryOf`), and until the accepting end is connected or gone nothing
  but the handshake passes (`SilenceOf`, with `Established`). The greeting comes
  first because `SilenceOf` follows a message from the queue through `out` and the
  wire to the other node: no single end can see it. `EndMoves` is about steps in
  which the state of one connection stays, `EndChanges` about those in which it
  changes, `EndDies` about deletions.

`MsgConnectionOrder`

- `ConnDeliveredInOrder`, from `ConnInv` and, where only one of two nodes connects
  to the other (`OneSided`), `Lined`. `DeliveredInOrder` is about the inbox alone,
  the last of seven stages: the queue of the sender's communicator, the hand of its
  thread while it connects, the queue of a connection, `_msg_send`, the wire, the
  queue of the receiver's communicator, the inbox. `Ordered` says that of two posts
  of one sender to one receiver the one that is at a later stage was posted
  earlier, `Rising` and `Told` that they stand in order within a queue, on a wire
  that is still read, and in the inbox. The parts `Placed...` say whose posts may
  be where: nobody but the sender, and only for the receiver at the other end.
- Posts of one kind might be in two connections at one stage, and `Ordered` says
  nothing of those. So where a post leaves a connection (`SendOrder`, `OnSendOrder`,
  `ForwardOrder`) it has to be the first of its kind at the whole stage: a node has
  at most one live connection to another, `OneToEach`. That follows from `MapOf`,
  for connections in the map, and from `PlacedComm`, for the one that is about to be
  entered there: the map has none for that peer yet. `AddedIsNotAccepted` keeps the
  latter, since a peer that is about to be entered does not connect itself. This is
  where `OneSided` is needed, and without it the property fails (section 6). What a
  dead connection leaves behind is lost: its queue and its wire are not read.
- A step moves one post by one or more stages, loses posts, or does neither.
  `Passes` is the argument for the first (`DeliverOrder`, `PushOrder`,
  `ConnectOrder`, `SendOrder`, `OnSendOrder`, `ForwardOrder`), `StillOrdered` that
  for the others, through `Unmoved` and `Quiet`, which name what a step that brings
  no post leaves as it was. `TailThins`, `AppendJoins`, `PopAt` and `PushAt` say
  what taking and adding do to the order in a queue.

`MsgRequestsProofs`

- `RequestsNullMeansOff`, `RequestsAsyncOnce`, from `RequestsInv`. Before `stop`,
  a user that holds an event has its own wait in the map, nobody else has that
  event or that request, and an event that is set was set for the reply of the
  request that holds it (`SetForReply`); this is why an event that was returned
  signaled cannot wake the next user without a reply. An asynchronous request is
  in the map, in the list, or answered, never in two of these (`InOnePlace`).

Assumptions. Those of the component modules, which TLC evaluates on every run:
finitely many readers, threads, clients, blocks, posts and links; positive
capacities and sizes; names of different things are different, and `None` is
none of them (`NamesAssumption`, `ActorsAssumption`, `NoneAssumption`,
`RequestsAssumption`); `EarsAssumption`, which only bounds which sockets may
listen; as many thread objects as the capacity
(`CapacityAssumption`). Of the gate's theorems only `PinDataKept` uses its sizes
(`SizesAssumption`, a header is smaller than a chunk) and `BulksAssumption`, which
leaves out empty buffers and the datagrams on which `send_bulk` never ends
(section 6). Theorems with a hypothesis of their own (`PatientWriters`,
`~Reborrow`, `~Finite`) state it; without it the code does break the property, as section 6
and the comments of the properties say.

Only model-checked:

- the liveness properties and `NoForgottenWriter`: the prover does not do
  fairness;
- `NoCallAfterRevoke`, which is false (`ThreadPoolRevoke`).

## 6. Disagreements

`ThreadPoolRevoke` has a run whose counterexample shows it, and an entry in
`findings`: a callback of a client may begin after `revoke_client` returned.

The following are properties of the modules that TLC refutes in seconds, without a
run of their own:

- `Exclusion` with impatient writers (`KeyLocker`, `Impatient = {w1}`): a writer
  whose wait for the readers times out while the last reader leaves does not take
  back the signal of `_evCanClose` (`keymaker.cpp:117`, "no readers - done"); the
  next writer gets in beside a reader.
- `ClosingEnds` (`ThreadPool` without `Prompt`): with callbacks longer than
  `deactivate_time_msec` the housekeeper, a thread and a borrower wait for each
  other for ever.
- `TimeoutsDue` (`AioSock` with `Finite`): the scan for timed-out operations
  (`aiosock.cpp:1812`, "not expired yet") has the opposite sense of the test that
  starts it (`aiosock.cpp:509`): an operation that expired makes another time out
  before its time.
- `AnswerFirst` (`MsgConnection`, crossing): `process_incoming_message` is
  connected before its answer is in the queue, so a ping, or a message the user
  posts, can overtake the answer; the peer, who is not "ready for
  sending/receiving messages" (`msg_conn.h:63`), throws and shuts down.
- `CloseHitsOwn` (`MsgConnection`, crossing): `shutdown_connection`, which "gives
  the order to destroy connection" (`msg_comm.h:131`), orders by address. A
  connection that is shut down and not yet in the map may lose its address to the
  one the peer opened (`CommDuplicate` deletes it for that reason); the order then
  destroys the other connection, which nobody shut down.

Noticed while modelling:

- keylocker: a reader that waits for room while a writer shuts the door is not
  signaled by the readers that leave, and sleeps before an open gate with room; a
  writer with a finite timeout may consume `_evCanLock` and expire, and the next
  waiting writer is then not woken (`NoForgottenWriter` is checked for patient
  writers). The classes in `base/keymaker.hpp` are an older copy of those in
  `keymaker.h`, which nothing includes.
- threadpool: `_wasted_calls` is reset by every question, so an idle thread never
  goes back to the pool (where no revoked client borrows again: the proof of
  `PoolOneThreadPerIdent` shows that `Waste` never disposes of one); if `Waste`
  does dispose of a thread, it does not wake the housekeeper, so that a thread
  revoked behind it waits for the housekeeper's ten seconds.
- aiosock with timeouts: `CompletionsFresh` fails in `AioSock` with `Finite`. The
  loop of `CancelIo` that "cleans up complete queue" (`aiocomport.cpp:1034`) ends
  where it starts, so the completion of an operation that was timed out stays in
  the port after its block was given back; if the block is used again on the same
  socket, the new operation is reported with the result of the old one.
- aiosock, a socket that is `crossed`: the last callback may save the ident
  between the two halves of `close` (`aiosock.cpp:1029`) and a new socket may get
  it. Until the second half the new socket passes for the listener that was
  closed, with that one's count; the second half then erases its listener. TLC
  refutes each half of `AcceptsCounted` when these sockets are not excepted.
- aiosock: a listener's accepts and the timeouts are looked at only when the list
  of new operations is empty (`aiosock.cpp:659`); a listening socket that is
  closed between the two halves of `listen` leaves an entry of `_listeners_map`
  behind.
- aiogate: `initiate_close` (`aiogate.cpp:1188`) writes `_still_alive` through the
  end iterator when the pin is gone, and some look-ups in `_pin_map` are made
  without the mutex, after `unlock_pin`. The buffer `_leader` of a receive lies in
  a node of the map that is erased while the receive is under way. A datagram
  within a header of the chunk size passes the check of `send_bulk` and fits no
  chunk, so the call allocates for ever. A call that brings only empty buffers,
  which are skipped (`aiogate.cpp:911`), reads through a null `_shead` when
  nothing is queued (`aiogate.cpp:1002`-1010). `BulksAssumption` excludes both. A
  datagram that the port refuses leaves `_begin` behind its header. A refused `send_bulk` leaves
  the buffers it had already stored. A client's `close`, or a failed accept or
  bind, may reach another pin that got the ident meanwhile (`CloseReachesOwn`
  holds for callbacks). `off` destroys pins without `on_close` and does not clear
  the map of listeners.
- aiomsg, order: where both nodes are configured to connect, `DeliveredInOrder`
  fails (58 steps, three posts to one node, an administrator). A connection that
  was just accepted, or that is between `CommConnect` and `CommAdd`, may bring
  messages to a node that has not yet read older ones of the same sender on the
  connection before it. Where one side connects there is no such order
  (`ConnDeliveredInOrder`).
- aiomsg, connections: the communicator's thread deletes a connection while its
  pool thread, a callback of its socket or an administrator may be inside it
  (`Astray`); when two nodes connect to each other at once,
  `change_connection_address` (`msg_comm.cpp:816`) deletes the connection it is
  called from. `msg_sock_connection::connect` deletes the connection twice when
  `aiosock` refuses to connect. `v_on_send` asserts `requested < processed` on a
  partial send, which is never so. `msg_user.cpp:205`, 315 and 377 test `!= HIGH
  || != NORMAL`, always true, so no message has the high priority of
  `aiomsgfactory.h:47`.
- aiomsg, requests: a `send_async` that is refused leaves its wait in
  `_async_map`, and the client gets a timeout callback for a request that it was
  told had failed. A reply set between the timeout of `send` and the erasure of
  its wait leaks. `v_off` makes `send` return true with a null reply. A wake-up
  after `revoke_client` registers the connection with the pool again, which then
  asks a deleted object; so do callers that are inside `send` when the connection
  is deleted. `start` right after `stop` fails while the old connection is in the
  map.

## 7. What is not modelled

- The one-second limit of `loan_object` (`LoanWaitsForReturn` says what the wait
  is for), failure to allocate or to create a thread, the thread's statistics.
- The implementation of events, mutexes and semaphores: their contract is used.
- Failed allocation in every module; a second `on` after `off`.
- In the gate, its timeouts and `doxray`; data other than its length. In the
  connections, that the peer may read a message before the sender's `v_on_send`
  has run (`msg_sock.cpp:322`; `OnSend` puts it on the wire, and no property
  speaks of that order), encryption, lists of accepted and rejected peers, a message in
  parts, timeouts of a send, error replies, several communicators in one process,
  `off` of a communicator as a whole; `msg_rpc`, which is for Windows.
- The Windows branch of `aiocomport` and `aiosock`; the event thread of
  `aiocomport` (the kernel may finish any waiting operation at any time).
- The components not yet reached by the plan, and those that will not be: parsers,
  text, cryptography, wrappers of databases and of system calls. Each is listed in
  `PROJECT.json` with the reason.

## 8. Plan

In this order; every module is parameterised by constants with assumptions, has
one action per critical section or callback, and has no recursive operator if it
is to be proved about.

1. `KeyLocker`, `RWGate`, `ThreadPool` and their proofs: done.
2. `AioSock`, `CompletionPort`, and `SocketPort`, which it implements, and their
   proofs: done.
3. `AioGate` over `SocketPort`, and its proofs: done.
4. `MsgQueue` and `MsgConnection`, and their proofs: done.
5. `MsgRequests` and its proofs: done.
6. If a run can be spared: `Timer`, `MemTable` (a table against the set of its
   valid rows), and the d-ary heap and Prim's algorithm as functions checked
   against reference definitions.

Every run asks its own question: safety with the most interleavings, or liveness
under fairness. A module's types are stated where a proof uses them.
