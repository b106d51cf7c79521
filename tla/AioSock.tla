------------------------------ MODULE AioSock -------------------------------
(***************************************************************************)
(* Asynchronous sockets (aiosock/aiosock.cpp, the branch for Unix) over    *)
(* the completion port of CompletionPort.                                  *)
(*                                                                         *)
(* Actors: users; the initiation thread, which starts operations, posts    *)
(* accepts and times operations out; the port thread, which takes          *)
(* completions off the port; the working threads, which call back; and the *)
(* owner, who switches the sockets off.  A callback may call the           *)
(* interface, as a user does.  A critical section under _mtx is one        *)
(* action; the mutex is dropped for a callback, and in the middle of close *)
(* and listen.                                                             *)
(*                                                                         *)
(* Abstracted: addresses, buffers, user data and the kind of an operation  *)
(* other than accept; OS handles (one per ident, both unique among the     *)
(* open sockets); bind and the getters, which leave this state alone; a    *)
(* failed allocation.  The threads wake by themselves: the initiation      *)
(* thread looks for work every second, and each block put in the outgoing  *)
(* list is followed by a loan of a working thread (see ThreadPool).        *)
(***************************************************************************)
EXTENDS CompletionPort, Integers, FiniteSets

CONSTANTS Users,       \* threads that call the interface
          Workers,     \* working threads, idents 3 and up of the pool
          Blocks,      \* aiosock_block objects, all that may be allocated
          LastIdent,   \* bound: idents of sockets are 1 .. LastIdent
          MaxDone,     \* bound: completions that wait for the port thread
          AcceptPool,  \* accept_pool of every listener
          None,        \* no block, no completion
          Finite,      \* may an operation have a finite timeout?
          Ears,        \* bound: idents whose sockets may listen
          Stoppable    \* may the owner call off()?

Initiator == "initiator"
Callers   == Workers \cup {Initiator}      \* threads that call back
Actors    == Users \cup Callers
Idents    == 1 .. LastIdent

ASSUME ActorsAssumption == Users \cap Callers = {} /\ Initiator \notin Workers
ASSUME BlocksAssumption == IsFiniteSet(Blocks) /\ None \notin Blocks
ASSUME NoneAssumption ==               \* None is no completion
  None \notin [key : 0 .. LastIdent, block : Blocks \cup {None}, err : BOOLEAN, fresh : BOOLEAN]
ASSUME SizesAssumption  == LastIdent \in Nat /\ {MaxDone, AcceptPool} \subseteq Nat \ {0}
ASSUME EarsAssumption   == Ears \subseteq Idents
ASSUME SwitchAssumption == {Finite, Stoppable} \subseteq BOOLEAN
ASSUME ThreadsAssumption == IsFiniteSet(Workers)

VARIABLES
  issued,      \* idents that _socket_generator has given out
  open,        \* keys of _socket_map
  invoking,    \* aiosock_socket::_callback_invoking
  incoming,    \* aiosock_socket::_incoming_list, as a set
  delay,       \* _delay_key_map, 0 for no entry
  listeners,   \* keys of _listeners_map
  accepts,     \* listener_info::_curr_count, 0 for no listener
  marks,       \* what the system and the history say of the open sockets
  initial,     \* _initial_list
  outgoing,    \* _outgoing_list
  block,       \* the contents of the blocks
  port,        \* the completion port
  hand,        \* the completion the port thread has taken, or None
  portOn,      \* _flag_io_port
  initAt,      \* where the initiation thread is
  at,          \* where each working thread is
  serving,     \* the block each thread calls back for, or None
  op,          \* the half-done call of each actor
  offAt        \* where the owner is in off()

socketVars == <<issued, open, invoking, incoming, delay, listeners, accepts, marks>>
listVars   == <<initial, outgoing, block>>
portVars   == <<port, hand, portOn>>
threadVars == <<initAt, at, serving>>
vars == <<socketVars, listVars, portVars, threadVars, op, offAt>>

\* A socket listens, for the system; history: it was given its ident in the middle
\* of a close of the socket that had it before.
Marks == {"listens", "crossed"}

\* A block that is allocated: `own' is history, its socket was not closed.
\* `clock' says how the time stands to _expired ("never" for no timeout).
Operation(k, i, c) ==
  [kind |-> k, ident |-> i, clock |-> c, err |-> FALSE, own |-> TRUE]
Free == [kind |-> "free", ident |-> 0, clock |-> "never", err |-> FALSE, own |-> FALSE]

\* An operation that is over: its time is of no interest any more, and neither is
\* its error but for an accept.
Ended(x, e) == [x EXCEPT !.err = e /\ x.kind = "accept", !.clock = "never"]

\* A block that is allocated and in no list any more: nothing reads it again.
Lost == [Free EXCEPT !.kind = "lost"]

Allocated(b) == block[b] # Free
FreeBlocks   == {b \in Blocks : ~Allocated(b)}

NoOp == [name |-> "none", ident |-> 0, delayed |-> FALSE]
Half(n, i, d) == [name |-> n, ident |-> i, delayed |-> d]

Quit == [key |-> 0, block |-> None, err |-> FALSE, fresh |-> TRUE]

HandleOpen == offAt \in {"up", "stopInit", "quit"}     \* _aiosock_io_handle

Init ==
  /\ issued = {} /\ open = {}
  /\ invoking = [i \in Idents |-> 0]
  /\ incoming = [i \in Idents |-> {}]
  /\ delay = [i \in Idents |-> 0]
  /\ listeners = {}
  /\ accepts = [i \in Idents |-> 0]
  /\ marks = [i \in Idents |-> {}]
  /\ initial = <<>> /\ outgoing = <<>>
  /\ block = [b \in Blocks |-> Free]
  /\ port = NewPort /\ hand = None /\ portOn = TRUE
  /\ initAt = "ask"
  /\ at = [w \in Workers |-> "idle"]
  /\ serving = [x \in Callers |-> None]
  /\ op = [a \in Actors |-> NoOp]
  /\ offAt = "up"

-----------------------------------------------------------------------------
(* Parts of the handlers.                                                  *)

InCallback(x) == IF x = Initiator THEN initAt = "call" ELSE at[x] = "call"

\* A user calls while the sockets are up, a callback whenever it runs.
CanCall(a) ==
  /\ op[a] = NoOp
  /\ IF a \in Users THEN offAt = "up" ELSE InCallback(a)

\* close() of the socket with ident i is between its two critical sections.
InClose(i) == \E a \in Actors : op[a].name = "close" /\ op[a].ident = i

\* _assign_socket: a new entry for a new ident, known to the port.  Any ident that
\* is not given out stands for the choice of the generator.
Assign(i) ==
  /\ issued' = issued \cup {i}
  /\ open' = open \cup {i}
  /\ marks' = [marks EXCEPT ![i] = IF InClose(i) THEN {"crossed"} ELSE {}]
  /\ port' = Associate(port, i)

\* The lists without the blocks B.
Without(s, B) == Kept(s, {n \in DOMAIN s : s[n] \notin B})

\* _put_block: block and port when the blocks B have gone back.
Returned(B) == [b \in Blocks |-> IF b \in B THEN Free ELSE block[b]]
HandAfter(B) == IF hand = None THEN None ELSE Outlive(hand, B)

\* close moves the callbacks that run from the socket to the ident.
DelayOnce(i) == [delay EXCEPT ![i] = @ + IF invoking[i] > 0 THEN 1 ELSE 0]     \* mutant
Delay(i)     == [delay EXCEPT ![i] = @ + invoking[i]]

\* The end of a callback of socket i, with _mtx taken again: the socket is
\* still in the map, or the last of its callbacks gives the ident back.
CallbackOverSavesAlways(i) ==          \* mutant: the ident goes back at once
  IF i \in open
    THEN invoking' = [invoking EXCEPT ![i] = @ - 1] /\ UNCHANGED <<delay, issued>>
    ELSE /\ delay' = [delay EXCEPT ![i] = IF @ > 0 THEN @ - 1 ELSE 0]
         /\ issued' = issued \ {i}
         /\ UNCHANGED invoking

CallbackOver(i) ==
  IF i \in open
    THEN invoking' = [invoking EXCEPT ![i] = @ - 1] /\ UNCHANGED <<delay, issued>>
    ELSE /\ delay' = [delay EXCEPT ![i] = IF @ > 0 THEN @ - 1 ELSE 0]
         /\ issued' = IF delay[i] = 1 THEN issued \ {i} ELSE issued
         /\ UNCHANGED invoking

-----------------------------------------------------------------------------
(* The interface.                                                          *)

Create(a) ==
  /\ CanCall(a) /\ HandleOpen
  /\ \E i \in Idents \ issued : Assign(i)
  /\ UNCHANGED <<invoking, incoming, delay, listeners, accepts, listVars, hand, portOn, threadVars,
                 op, offAt>>

\* connect, send and receive: a new block joins the initial list.  For a
\* socket that is not open the block goes straight back.
Request(a, i) ==
  /\ CanCall(a)
  /\ i \in open
  /\ \E b \in FreeBlocks, c \in IF Finite THEN {"never", "before"} ELSE {"never"} :
       /\ block' = [block EXCEPT ![b] = Operation("data", i, c)]
       /\ initial' = Append(initial, b)
  /\ UNCHANGED <<socketVars, outgoing, portVars, threadVars, op, offAt>>

\* listen: bind and listen of the system on the handle that was found; a socket
\* that is bound cannot be bound again.
Listen(a, i) ==
  /\ CanCall(a)
  /\ i \in open \cap Ears /\ "listens" \notin marks[i]
  /\ marks' = [marks EXCEPT ![i] = @ \cup {"listens"}]
  /\ op' = [op EXCEPT ![a] = Half("listen", i, FALSE)]
  /\ UNCHANGED <<issued, open, invoking, incoming, delay, listeners, accepts, listVars, portVars,
                 threadVars, offAt>>

\* listen: the critical section that enters the listener.
ListenEnd(a) ==
  LET i == op[a].ident IN
  /\ op[a].name = "listen"
  /\ listeners' = listeners \cup {i}
  /\ op' = [op EXCEPT ![a] = NoOp]
  /\ UNCHANGED <<issued, open, invoking, incoming, delay, accepts, marks, listVars, portVars,
                 threadVars, offAt>>

BlocksOf(i) == {b \in Blocks : Allocated(b) /\ block[b].ident = i}

\* The blocks that close gives back.  The incoming blocks leave their list and
\* stay allocated: the loop that should return them runs over a cleared list.
SweptInitial(i) == BlocksOf(i) \cap Elements(initial)                          \* mutant
SweptPending(i) ==                                                             \* mutant
  BlocksOf(i) \cap (Elements(initial) \cup Elements(outgoing) \cup incoming[i])
Swept(i) == BlocksOf(i) \cap (Elements(initial) \cup Elements(outgoing))

\* close, first critical section.
Close(a, i) ==
  LET gone == Swept(i) IN
  /\ CanCall(a) /\ HandleOpen
  /\ i \in open
  /\ open' = open \ {i}
  /\ marks' = [marks EXCEPT ![i] = {}]
  /\ incoming' = [incoming EXCEPT ![i] = {}]
  /\ delay' = Delay(i)
  /\ invoking' = [invoking EXCEPT ![i] = 0]
  /\ initial' = Without(initial, gone)
  /\ outgoing' = Without(outgoing, gone)
  /\ block' = [b \in Blocks |-> IF b \in gone THEN Free
                                ELSE IF b \in incoming[i] THEN Lost
                                ELSE IF b \in BlocksOf(i) THEN [block[b] EXCEPT !.own = FALSE]
                                ELSE block[b]]
  /\ port' = Recycled(CancelAll(port, i), gone)
  /\ hand' = HandAfter(gone)
  /\ op' = [op EXCEPT ![a] = Half("close", i, invoking[i] > 0)]
  /\ UNCHANGED <<issued, listeners, accepts, portOn, threadVars, offAt>>

\* close, second critical section, after the OS socket was closed.
CloseEnd(a) ==
  LET i == op[a].ident IN
  /\ op[a].name = "close"
  /\ listeners' = listeners \ {i}
  /\ accepts' = [accepts EXCEPT ![i] = 0]
  /\ issued' = IF op[a].delayed THEN issued ELSE issued \ {i}
  /\ op' = [op EXCEPT ![a] = NoOp]
  /\ UNCHANGED <<open, invoking, incoming, delay, marks, listVars, portVars, threadVars, offAt>>

-----------------------------------------------------------------------------
(* The initiation thread: v_has_job and v_do_job with ident 1.             *)

\* The count is a size_t: below zero it is a very large number, and there is no room.
HasRoom(i) == i \in listeners /\ accepts[i] \in 0 .. AcceptPool - 1
Expired(b) == block[b].clock \in {"due", "after"}

\* v_has_job; a thread that was told to stop leaves its loop here.
InitAsk ==
  /\ initAt = "ask"
  /\ IF offAt = "up"
       THEN /\ \/ initial # <<>>
               \/ \E i \in Idents : HasRoom(i)
               \/ \E i \in open : \E b \in incoming[i] : Expired(b)
            /\ initAt' = "do"
       ELSE initAt' = "ended"
  /\ UNCHANGED <<socketVars, listVars, portVars, at, serving, op, offAt>>

\* v_do_job and _process_block: the port refuses the operation, or takes it
\* for later, or carries it out at once; it is pending in both last cases.
Start ==
  LET b == Head(initial)
      i == block[b].ident
  IN
  /\ initAt = "do" /\ initial # <<>>
  /\ initial' = Tail(initial)
  /\ \/ /\ outgoing' = Append(outgoing, b)
        /\ block' = [block EXCEPT ![b] = Ended(@, TRUE)]
        /\ UNCHANGED <<incoming, port>>
     \/ /\ i \in open
        /\ port' \in {StartWaiting(port, i, b), StartDone(port, i, b)}
        /\ Len(port'.done) <= MaxDone
        /\ incoming' = [incoming EXCEPT ![i] = @ \cup {b}]
        /\ UNCHANGED <<outgoing, block>>
  /\ initAt' = "ask"
  /\ UNCHANGED <<issued, open, invoking, delay, listeners, accepts, marks, hand, portOn, at,
                 serving, op, offAt>>

NothingToStart ==
  /\ initAt = "do" /\ initial = <<>>
  /\ initAt' = "accepts"
  /\ UNCHANGED <<socketVars, listVars, portVars, at, serving, op, offAt>>

\* process_accept_blocks: one more accept for a listener whose socket is open
\* (bound: while there is a block).
PostAccept(i) ==
  /\ initAt = "accepts"
  /\ HasRoom(i) /\ i \in open
  /\ \E b \in FreeBlocks :
       /\ block' = [block EXCEPT ![b] = Operation("accept", i, "never")]
       /\ initial' = Append(initial, b)
  /\ accepts' = [accepts EXCEPT ![i] = @ + 1]
  /\ initAt' = "ask"
  /\ UNCHANGED <<issued, open, invoking, incoming, delay, listeners, marks, outgoing, portVars, at,
                 serving, op, offAt>>

NoAcceptToPost ==
  /\ initAt = "accepts"
  /\ (\A i \in open : ~HasRoom(i)) \/ FreeBlocks = {}
  /\ initAt' = "timeouts"
  /\ UNCHANGED <<socketVars, listVars, portVars, at, serving, op, offAt>>

\* process_timeouted_blocks: the test passes over the blocks without a timeout
\* and those whose time is over, and takes another.
TimesOut(b) == block[b].clock \in {"before", "due"}

PendingStill(i, b) == incoming         \* mutant: the block stays pending
TakenOff(i, b) == [incoming EXCEPT ![i] = @ \ {b}]

TimeOut(i, b) ==
  /\ initAt = "timeouts"
  /\ i \in open /\ b \in incoming[i] /\ TimesOut(b)
  /\ incoming' = TakenOff(i, b)
  /\ invoking' = [invoking EXCEPT ![i] = @ + 1]
  /\ serving' = [serving EXCEPT ![Initiator] = b]
  /\ block' = [block EXCEPT ![b] = Ended(@, TRUE)]
  /\ initAt' = "call"
  /\ UNCHANGED <<issued, open, delay, listeners, accepts, marks, initial, outgoing, portVars, at,
                 op, offAt>>

NothingTimesOut ==
  /\ initAt = "timeouts"
  /\ \A i \in open : \A b \in incoming[i] : ~TimesOut(b)
  /\ initAt' = "ask"
  /\ UNCHANGED <<socketVars, listVars, portVars, at, serving, op, offAt>>

\* The end of that v_on_error: the operation is cancelled only now.
TimedOut ==
  LET b == serving[Initiator]
      i == block[b].ident
  IN
  /\ initAt = "call" /\ op[Initiator] = NoOp
  /\ CallbackOver(i)
  /\ block' = Returned({b})
  /\ port' = Recycled(CancelOne(port, i, b), {b})
  /\ hand' = HandAfter({b})
  /\ serving' = [serving EXCEPT ![Initiator] = None]
  /\ initAt' = "ask"
  /\ UNCHANGED <<open, incoming, listeners, accepts, marks, initial, outgoing, portOn, at, op,
                 offAt>>

-----------------------------------------------------------------------------
(* The port thread: wait_for_io_completion and complete_block.             *)

\* GetQueuedCompletionStatus returns; key 0 ends the thread.
PortTake ==
  /\ portOn /\ hand = None /\ port.done # <<>>
  /\ port' = Dequeued(port)
  /\ IF Head(port.done) = Quit
       THEN portOn' = FALSE /\ UNCHANGED hand
       ELSE hand' = Head(port.done) /\ UNCHANGED portOn
  /\ UNCHANGED <<socketVars, listVars, threadVars, op, offAt>>

\* complete_block: the block is looked up in the list of its socket.
Complete ==
  LET i == hand.key
      b == hand.block
  IN
  /\ hand # None
  /\ IF i \in open /\ b \in incoming[i]
       THEN /\ incoming' = [incoming EXCEPT ![i] = @ \ {b}]
            /\ block' = [block EXCEPT ![b] = Ended(@, hand.err)]
            /\ outgoing' = Append(outgoing, b)
       ELSE UNCHANGED <<incoming, block, outgoing>>
  /\ hand' = None
  /\ UNCHANGED <<issued, open, invoking, delay, listeners, accepts, marks, initial, port, portOn,
                 threadVars, op, offAt>>

-----------------------------------------------------------------------------
(* The working threads: v_has_job and v_do_job with idents 3 and up.       *)

WorkerAskMany(w) ==                    \* mutant: a single block is overlooked
  /\ at[w] = "idle"
  /\ HandleOpen /\ Len(outgoing) > 1
  /\ at' = [at EXCEPT ![w] = "do"]
  /\ UNCHANGED <<socketVars, listVars, portVars, initAt, serving, op, offAt>>

WorkerAsk(w) ==
  /\ at[w] = "idle"
  /\ HandleOpen /\ outgoing # <<>>
  /\ at' = [at EXCEPT ![w] = "do"]
  /\ UNCHANGED <<socketVars, listVars, portVars, initAt, serving, op, offAt>>

\* v_do_job returns early: another thread took the block, or its socket is
\* gone.
WorkerNothing(w) ==
  /\ at[w] = "do"
  /\ IF outgoing = <<>>
       THEN UNCHANGED <<outgoing, block, port, hand>>
       ELSE LET b == Head(outgoing) IN
            /\ block[b].ident \notin open
            /\ outgoing' = Tail(outgoing)
            /\ block' = Returned({b})
            /\ port' = Recycled(port, {b})
            /\ hand' = HandAfter({b})
  /\ at' = [at EXCEPT ![w] = "idle"]
  /\ UNCHANGED <<socketVars, initial, portOn, initAt, serving, op, offAt>>

\* An accept that is answered, or failed, is under way no longer.
AnsweredIfWell(b) ==                   \* mutant: not when it failed
  LET i == block[b].ident IN
  IF block[b].kind = "accept" /\ i \in listeners /\ ~block[b].err
    THEN [accepts EXCEPT ![i] = @ - 1] ELSE accepts

Answered(b) ==
  LET i == block[b].ident IN
  IF block[b].kind = "accept" /\ i \in listeners
    THEN [accepts EXCEPT ![i] = @ - 1] ELSE accepts

\* v_do_job up to the callback.  An accept that succeeded opens its socket
\* first; without an ident (bound: LastIdent) there is no callback to make.
WorkerCall(w) ==
  LET b == Head(outgoing)
      i == block[b].ident
  IN
  /\ at[w] = "do" /\ outgoing # <<>>
  /\ i \in open
  /\ outgoing' = Tail(outgoing)
  /\ invoking' = [invoking EXCEPT ![i] = @ + 1]
  /\ accepts' = Answered(b)
  /\ IF block[b].kind = "accept" /\ ~block[b].err /\ issued # Idents
       THEN \E j \in Idents \ issued : Assign(j)
       ELSE UNCHANGED <<issued, open, marks, port>>
  /\ serving' = [serving EXCEPT ![w] = b]
  /\ at' = [at EXCEPT ![w] = "call"]
  /\ UNCHANGED <<incoming, delay, listeners, initial, block, hand, portOn, initAt, op, offAt>>

\* v_do_job after the callback.
WorkerDone(w) ==
  LET b == serving[w] IN
  /\ at[w] = "call" /\ op[w] = NoOp
  /\ CallbackOver(block[b].ident)
  /\ block' = Returned({b})
  /\ port' = Recycled(port, {b})
  /\ hand' = HandAfter({b})
  /\ serving' = [serving EXCEPT ![w] = None]
  /\ at' = [at EXCEPT ![w] = "idle"]
  /\ UNCHANGED <<open, incoming, listeners, accepts, marks, initial, outgoing, portOn, initAt, op,
                 offAt>>
-----------------------------------------------------------------------------
(* The kernel and the clock.                                               *)

\* A signal for a socket: some of its waiting operations are finished (which of
\* them, depends on their kinds and on the buffers of the system).  An error
\* changes nothing here but for an accept, and is left out elsewhere.
Signal(i) ==
  /\ i \in port.associated
  /\ \E S \in SUBSET WaitingOn(port, i) \ {{}} :
       \E E \in SUBSET {x \in S : block[x.block].kind = "accept"} :
         port' = Finished(port, S, E)
  /\ Len(port'.done) <= MaxDone
  /\ UNCHANGED <<socketVars, listVars, hand, portOn, threadVars, op, offAt>>

\* Time passes; it matters only for incoming blocks.
Tick(b) ==
  /\ \E i \in Idents : b \in incoming[i]
  /\ \E c \in {"due", "after"} \ {block[b].clock} :
       /\ block[b].clock \in {"before", "due"}
       /\ block' = [block EXCEPT ![b].clock = c]
  /\ UNCHANGED <<socketVars, initial, outgoing, portVars, threadVars, op, offAt>>

-----------------------------------------------------------------------------
(* The owner: off().                                                       *)

\* The owner stops sockets that no user is calling, and waits for the
\* initiation thread.
OffStart ==
  /\ Stoppable /\ offAt = "up"
  /\ \A u \in Users : op[u] = NoOp
  /\ offAt' = "stopInit"
  /\ UNCHANGED <<socketVars, listVars, portVars, threadVars, op>>

OffPostNothing ==                      \* mutant: the port thread is not told
  /\ offAt = "stopInit" /\ initAt = "ended"
  /\ offAt' = "quit"
  /\ UNCHANGED <<socketVars, listVars, portVars, threadVars, op>>

OffPostQuit ==
  /\ offAt = "stopInit" /\ initAt = "ended"
  /\ port' = Posted(port, Quit)
  /\ offAt' = "quit"
  /\ UNCHANGED <<socketVars, listVars, hand, portOn, threadVars, op>>

\* The port thread has left: CloseHandle, _aiosock_io_handle = 0.
OffClosePort ==
  /\ offAt = "quit" /\ ~portOn
  /\ port' = NewPort
  /\ offAt' = "pool"
  /\ UNCHANGED <<socketVars, listVars, hand, portOn, threadVars, op>>

\* The pool has stopped its threads: all sockets are cancelled and closed, and
\* the maps and lists are cleared.
OffClear ==
  LET back == Elements(initial) \cup Elements(outgoing) IN
  /\ offAt = "pool"
  /\ \A w \in Workers : at[w] = "idle"
  /\ issued' = {} /\ open' = {} /\ listeners' = {}
  /\ invoking' = [i \in Idents |-> 0]
  /\ incoming' = [i \in Idents |-> {}]
  /\ delay' = [i \in Idents |-> 0]
  /\ accepts' = [i \in Idents |-> 0]
  /\ marks' = [i \in Idents |-> {}]
  /\ initial' = <<>> /\ outgoing' = <<>>
  /\ block' = [b \in Blocks |-> IF b \in back \/ ~Allocated(b) THEN Free
                                ELSE Lost]
  /\ port' = NewPort
  /\ offAt' = "down"
  /\ UNCHANGED <<hand, portOn, threadVars, op>>

-----------------------------------------------------------------------------
Call(a) ==
  \/ Create(a)
  \/ \E i \in Idents : Request(a, i) \/ Listen(a, i) \/ Close(a, i)

CallEnd(a) == ListenEnd(a) \/ CloseEnd(a)

Initiate ==
  \/ InitAsk \/ Start \/ NothingToStart \/ NoAcceptToPost \/ NothingTimesOut
  \/ \E i \in Idents : PostAccept(i) \/ \E b \in Blocks : TimeOut(i, b)

Work(w) == WorkerAsk(w) \/ WorkerNothing(w) \/ WorkerCall(w)

Off == OffStart \/ OffPostQuit \/ OffClosePort \/ OffClear

Next ==
  \/ \E a \in Actors : Call(a) \/ CallEnd(a)
  \/ Initiate \/ TimedOut
  \/ PortTake \/ Complete
  \/ \E w \in Workers : Work(w) \/ WorkerDone(w)
  \/ \E i \in Idents : Signal(i)
  \/ \E b \in Blocks : Tick(b)
  \/ Off

Spec == Init /\ [][Next]_vars

\* The threads run, a call that was begun ends, callbacks return and off()
\* goes on; nothing is asked of users, of the kernel and of the clock.
Fairness ==
  /\ WF_vars(Initiate) /\ SF_vars(TimedOut)
  /\ WF_vars(PortTake) /\ WF_vars(Complete)
  /\ \A w \in Workers : WF_vars(Work(w)) /\ SF_vars(WorkerDone(w))
  /\ \A a \in Actors : WF_vars(CallEnd(a))
  /\ WF_vars(OffPostQuit \/ OffClosePort \/ OffClear)

LiveSpec == Spec /\ Fairness

-----------------------------------------------------------------------------
(* Properties.                                                             *)

Serving(i) == {x \in Callers : serving[x] # None /\ block[serving[x]].ident = i}

\* The counters that decide when an ident is free are exact while the mutex is
\* dropped for callbacks: _callback_invoking of an open socket, the entry of
\* _delay_key_map of a closed one; and an ident is out of the generator just
\* while its socket is open, called back for, or in the middle of close().
CallbacksCounted ==
  \A i \in Idents :
    /\ (IF i \in open THEN invoking[i] ELSE delay[i]) = Cardinality(Serving(i))
    /\ i \in issued <=> \/ i \in open \/ delay[i] > 0
                        \/ \E a \in Actors : op[a] = Half("close", i, FALSE)

\* An ident in use by a callback is not given to another socket: the user who
\* calls send or close with it from the callback reaches the socket he was
\* called for, or none.
IdentKept ==
  \A x \in Callers :
    serving[x] # None /\ block[serving[x]].ident \in open => block[serving[x]].own

\* Completions on their way from the port.
Reports == (Elements(port.done) \cup {hand}) \ {None}

Pending(b) == b \in incoming[block[b].ident]

\* The ways a block may be on its way.
Stations(b) ==
  {s \in {"initial", "incoming", "outgoing", "callback"} :
     CASE s = "initial"  -> b \in Elements(initial)
       [] s = "incoming" -> Pending(b)
       [] s = "outgoing" -> b \in Elements(outgoing)
       [] s = "callback" -> \E x \in Callers : serving[x] = b}

\* An operation that was taken on is at one station until its socket closes,
\* and one that is pending is known to the port, so that it can be completed:
\* no operation is lost or answered twice.
OperationsTracked ==
  \A b \in Blocks :
    Allocated(b) /\ block[b].own =>
      /\ Cardinality(Stations(b)) = 1
      /\ Pending(b) /\ HandleOpen =>
           \E x \in Elements(port.waiting) \cup Reports :
             x.block = b /\ x.key = block[b].ident /\ x.fresh

\* A block whose operation is to be answered: its socket was not closed, and no
\* thread has begun to answer it.
Waiting(b) ==
  Allocated(b) /\ block[b] # Lost /\ block[b].own /\ \A x \in Callers : serving[x] # b

\* The blocks are the operations of SocketPort, the threads that call back its
\* threads; a timeout and an error are answers.
Promise == INSTANCE SocketPort WITH
  Tokens <- Blocks, Threads <- Callers, NoIdent <- 0,
  asked <- [b \in Blocks |-> IF Waiting(b) THEN block[b].ident ELSE 0],
  calls <- [x \in Callers |-> IF serving[x] = None THEN 0 ELSE block[serving[x]].ident]

\* The sockets keep what they promise the gate and the message transport: every
\* step is one of SocketPort, or nothing to it.
ImplementsPort == Promise!PortSpec

\* A socket that listens has its entry in _listeners_map when listen() is over, and
\* _curr_count is the number of accepts under way: a listener whose pool is full
\* really has accepts to be answered.  It holds however closes, accepts and listens
\* interleave, but for a socket that got its ident in the middle of a close: before
\* the second half of that close() it passes for the listener that was closed, and
\* the second half erases the entry of the ident, whoever has it.
AcceptsCounted ==
  \A i \in open : "crossed" \notin marks[i] =>
    /\ "listens" \in marks[i] =>
         i \in listeners \/ \E a \in Actors : op[a] = Half("listen", i, FALSE)
    /\ i \in listeners =>
         accepts[i] = Cardinality({b \in BlocksOf(i) : /\ block[b].own /\ block[b].kind = "accept"
                                                       /\ \A x \in Callers : serving[x] # b})

\* The port reports only operations whose block is still theirs: without
\* timeouts a block is never given back while the port has it.
CompletionsFresh == \A x \in Reports : x.fresh

\* Only an operation whose time has come is timed out ("not expired yet",
\* process_timeouted_blocks).  It does not hold, and no run checks it: README,
\* section 6.
TimeoutsDue ==
  [][\A b \in Blocks :
       serving[Initiator] # b /\ serving'[Initiator] = b => Expired(b)]_vars

\* A block that completed is called back for, or its socket is closed.
CompletedAnswered ==
  \A b \in Blocks : (b \in Elements(outgoing)) ~> (b \notin Elements(outgoing))

\* off() ends, whatever the sockets were doing.
OffCompletes == (offAt # "up") ~> (offAt = "down")
=============================================================================
