----------------------------- MODULE KeyLocker ------------------------------
(***************************************************************************)
(* The reader/writer gate of base/keymaker.cpp (keylocker), which guards   *)
(* the object pool of base/template.hpp and the maps of aiomsg.            *)
(*                                                                         *)
(* Each critical section under the spinlock _lock is one action; a wait on *)
(* an event is an action of its own, because the spinlock is released      *)
(* before it.  An event is its _signaled flag (base/primitives.cpp): a     *)
(* successful wait clears the flag of an auto-reset event and leaves that  *)
(* of a manual-reset one.  A thread that has released the spinlock and has *)
(* not yet blocked, and a thread that is blocked, are the same state.      *)
(*                                                                         *)
(* Time is abstracted to the choice a finite timeout gives: a thread of    *)
(* Impatient may find its time spent at the head of the loop, and may      *)
(* return from a wait on an unsignaled event.  The other threads pass      *)
(* INFINITE, the default of keylockerReader and keylockerWriter.           *)
(***************************************************************************)
EXTENDS Naturals, FiniteSets

CONSTANTS Readers,     \* threads that call enter / leave
          Writers,     \* threads that call lock / unlock
          MaxReaders,  \* _maxReaders, the capacity of the gate
          Impatient    \* threads that pass a finite timeoutMs

ASSUME RolesAssumption    == Readers \cap Writers = {} /\ IsFiniteSet(Readers)
ASSUME CapacityAssumption == MaxReaders \in Nat \ {0}

VARIABLES opened,      \* _opened
          readers,     \* _readers
          canOpen,     \* _evCanOpen  (manual reset): the door is open
          canClose,    \* _evCanClose (manual reset): all readers left
          canEnter,    \* _evCanEnter (auto reset):   one reader left
          canLock,     \* _evCanLock  (auto reset):   the door was unlocked
          pc           \* where each thread is in its call

events == <<canOpen, canClose, canEnter, canLock>>
vars   == <<opened, readers, events, pc>>

Threads == Readers \cup Writers

ReaderPlaces == {"idle", "enter", "waitOpen", "waitEnter", "reading"}
WriterPlaces == {"idle", "lock", "waitLock", "waitClose", "drained",
                 "giveUp", "writing"}

Goto(t, place) == pc' = [pc EXCEPT ![t] = place]

Init ==
  /\ opened = TRUE
  /\ readers = 0
  /\ canOpen = TRUE
  /\ canClose = FALSE
  /\ canEnter = FALSE
  /\ canLock = FALSE
  /\ pc = [t \in Threads |-> "idle"]

-----------------------------------------------------------------------------
(* Readers.                                                                *)

CallEnter(r) ==
  /\ pc[r] = "idle"
  /\ Goto(r, "enter")
  /\ UNCHANGED <<opened, readers, events>>

\* The loop condition spentTime < timeoutMs is false: enter returns false.
EnterExpired(r) ==
  /\ pc[r] = "enter"
  /\ r \in Impatient
  /\ Goto(r, "idle")
  /\ UNCHANGED <<opened, readers, events>>

HasRoom == opened /\ readers < MaxReaders

EnterTry(r) ==
  /\ pc[r] = "enter"
  /\ IF HasRoom
       THEN readers' = readers + 1 /\ Goto(r, "reading")
       ELSE UNCHANGED readers /\ Goto(r, IF opened THEN "waitEnter" ELSE "waitOpen")
  /\ UNCHANGED <<opened, events>>

\* _evCanOpen is manual reset: the flag stays.
WakeOpen(r) ==
  /\ pc[r] = "waitOpen"
  /\ canOpen
  /\ Goto(r, "enter")
  /\ UNCHANGED <<opened, readers, events>>

\* _evCanEnter is auto reset: this waiter takes the signal.
WakeEnter(r) ==
  /\ pc[r] = "waitEnter"
  /\ canEnter
  /\ canEnter' = FALSE
  /\ Goto(r, "enter")
  /\ UNCHANGED <<opened, readers, canOpen, canClose, canLock>>

ReaderTimeout(r) ==
  /\ r \in Impatient
  /\ \/ pc[r] = "waitOpen"  /\ ~canOpen
     \/ pc[r] = "waitEnter" /\ ~canEnter
  /\ Goto(r, "idle")
  /\ UNCHANGED <<opened, readers, events>>

\* Mutant of Leave: the last reader does not signal the writer.
LeaveSilently(r) ==
  /\ pc[r] = "reading"
  /\ readers' = readers - 1
  /\ canEnter' = (canEnter \/ opened)
  /\ Goto(r, "idle")
  /\ UNCHANGED <<opened, canOpen, canClose, canLock>>

Leave(r) ==
  /\ pc[r] = "reading"
  /\ readers' = readers - 1
  /\ canEnter' = (canEnter \/ opened)
  /\ canClose' = (canClose \/ (~opened /\ readers' = 0))
  /\ Goto(r, "idle")
  /\ UNCHANGED <<opened, canOpen, canLock>>

-----------------------------------------------------------------------------
(* Writers.                                                                *)

CallLock(w) ==
  /\ pc[w] = "idle"
  /\ Goto(w, "lock")
  /\ UNCHANGED <<opened, readers, events>>

LockExpired(w) ==
  /\ pc[w] = "lock"
  /\ w \in Impatient
  /\ Goto(w, "idle")
  /\ UNCHANGED <<opened, readers, events>>

\* Mutant of LockTry: it does not look whether the door is already shut.
LockTryAnyDoor(w) ==
  /\ pc[w] = "lock"
  /\ opened' = FALSE
  /\ canOpen' = FALSE
  /\ IF readers = 0
       THEN canClose' = FALSE /\ Goto(w, "writing")
       ELSE UNCHANGED canClose /\ Goto(w, "waitClose")
  /\ UNCHANGED <<readers, canEnter, canLock>>

\* Shuts the door, if it is open; done at once when nobody is inside.
LockTry(w) ==
  /\ pc[w] = "lock"
  /\ \/ /\ opened
        /\ opened' = FALSE
        /\ canOpen' = FALSE
        /\ IF readers = 0
             THEN canClose' = FALSE /\ Goto(w, "writing")
             ELSE UNCHANGED canClose /\ Goto(w, "waitClose")
     \/ /\ ~opened
        /\ Goto(w, "waitLock")
        /\ UNCHANGED <<opened, canOpen, canClose>>
  /\ UNCHANGED <<readers, canEnter, canLock>>

WakeLock(w) ==
  /\ pc[w] = "waitLock"
  /\ canLock
  /\ canLock' = FALSE
  /\ Goto(w, "lock")
  /\ UNCHANGED <<opened, readers, canOpen, canClose, canEnter>>

LockTimeout(w) ==
  /\ w \in Impatient
  /\ pc[w] = "waitLock"
  /\ ~canLock
  /\ Goto(w, "idle")
  /\ UNCHANGED <<opened, readers, events>>

\* Mutant of WakeClose: a wait that returns at once.
WakeCloseEarly(w) ==
  /\ pc[w] = "waitClose"
  /\ Goto(w, "drained")
  /\ UNCHANGED <<opened, readers, events>>

\* The wait for the readers succeeded; the reset that follows is not under
\* the spinlock.
WakeClose(w) ==
  /\ pc[w] = "waitClose"
  /\ canClose
  /\ Goto(w, "drained")
  /\ UNCHANGED <<opened, readers, events>>

\* Mutant of ResetClose: the manual-reset event stays signaled.
ResetCloseForgotten(w) ==
  /\ pc[w] = "drained"
  /\ Goto(w, "writing")
  /\ UNCHANGED <<opened, readers, events>>

ResetClose(w) ==
  /\ pc[w] = "drained"
  /\ canClose' = FALSE
  /\ Goto(w, "writing")
  /\ UNCHANGED <<opened, readers, canOpen, canEnter, canLock>>

\* The wait for the readers timed out; the spinlock is taken afterwards, so
\* the last reader may still leave in between.
CloseTimeout(w) ==
  /\ w \in Impatient
  /\ pc[w] = "waitClose"
  /\ ~canClose
  /\ Goto(w, "giveUp")
  /\ UNCHANGED <<opened, readers, events>>

\* Mutants of OpenDoor: waiting writers are not woken; the door stays shut.
OpenDoorToReaders == opened' = TRUE /\ canOpen' = TRUE /\ UNCHANGED canLock
OpenDoorNot == UNCHANGED <<opened, canOpen, canLock>>

OpenDoor ==
  /\ opened' = TRUE
  /\ canOpen' = TRUE
  /\ canLock' = TRUE

GiveUp(w) ==
  /\ pc[w] = "giveUp"
  /\ OpenDoor
  /\ Goto(w, "idle")
  /\ UNCHANGED <<readers, canClose, canEnter>>

Unlock(w) ==
  /\ pc[w] = "writing"
  /\ IF opened
       THEN UNCHANGED <<opened, canOpen, canLock>>
       ELSE OpenDoor
  /\ Goto(w, "idle")
  /\ UNCHANGED <<readers, canClose, canEnter>>

-----------------------------------------------------------------------------
\* The steps of a call in progress: they happen without the caller's will.
ReaderStep(r) == EnterTry(r) \/ WakeOpen(r) \/ WakeEnter(r)
WriterStep(w) == LockTry(w) \/ WakeLock(w) \/ WakeClose(w) \/ ResetClose(w) \/ GiveUp(w)

\* What only a finite timeout allows.
Expiry(t) ==
  \/ t \in Readers /\ (EnterExpired(t) \/ ReaderTimeout(t))
  \/ t \in Writers /\ (LockExpired(t) \/ LockTimeout(t) \/ CloseTimeout(t))

Next ==
  \/ \E r \in Readers : CallEnter(r) \/ ReaderStep(r) \/ Leave(r)
  \/ \E w \in Writers : CallLock(w) \/ WriterStep(w) \/ Unlock(w)
  \/ \E t \in Threads : Expiry(t)

Spec == Init /\ [][Next]_vars

(***************************************************************************)
(* The scheduler runs every thread that can run, and every caller releases *)
(* what it holds (the keepers release in their destructors).  Nothing      *)
(* obliges a thread to call, or a timeout to expire.                       *)
(***************************************************************************)
Fairness ==
  /\ \A r \in Readers : WF_vars(ReaderStep(r)) /\ WF_vars(Leave(r))
  /\ \A w \in Writers : WF_vars(WriterStep(w)) /\ WF_vars(Unlock(w))

FairSpec == Spec /\ Fairness

-----------------------------------------------------------------------------
(* Properties.                                                             *)

\* Every variable keeps the type its declaration in keymaker.h gives it.
TypeOK ==
  /\ opened \in BOOLEAN
  /\ readers \in Nat
  /\ canOpen \in BOOLEAN /\ canClose \in BOOLEAN
  /\ canEnter \in BOOLEAN /\ canLock \in BOOLEAN
  /\ pc \in [Threads -> ReaderPlaces \cup WriterPlaces]
  /\ \A r \in Readers : pc[r] \in ReaderPlaces
  /\ \A w \in Writers : pc[w] \in WriterPlaces

Inside == {r \in Readers : pc[r] = "reading"}
Owners == {w \in Writers : pc[w] = "writing"}

\* A writer between shutting the door and opening it again.
ClosePlaces == {"waitClose", "drained", "giveUp", "writing"}
Closers == {w \in Writers : pc[w] \in ClosePlaces}

\* enter() and leave() count the readers that are inside, and never more of
\* them than the capacity.
ReadersCounted == readers = Cardinality(Inside) /\ readers <= MaxReaders

\* A writer inside shares the gate with no reader and no other writer:
\* lock() returns true only when it is "done" with "no readers".
Exclusion ==
  /\ Owners # {} => Inside = {}
  /\ \A v, w \in Owners : v = w

\* The door is shut exactly while one writer is responsible for opening it
\* again, whatever timeouts expire in lock().
DoorHasOneCloser ==
  /\ opened <=> Closers = {}
  /\ \A v, w \in Closers : v = w
  /\ canOpen = opened

\* A writer that shut the door and does not time out gets in: new readers
\* cannot starve it.
CloserGetsIn == \A w \in Writers : (pc[w] = "waitClose") ~> (pc[w] = "writing")

\* The door never stays shut for ever.
DoorReopens == (~opened) ~> opened

\* A writer asleep before a shut door is not left asleep when it is opened
\* for good: unlock() and the give-up path of lock() wake it.
NoForgottenWriter ==
  \A w \in Writers : ~<>[](pc[w] = "waitLock" /\ opened)

\* What the callers of the gate see of it.
Gate == INSTANCE RWGate WITH inside <- Inside, owners <- Owners
GateSpec == Gate!Spec
=============================================================================
