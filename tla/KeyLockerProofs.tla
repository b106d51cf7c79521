-------------------------- MODULE KeyLockerProofs ---------------------------
(***************************************************************************)
(* Proofs about KeyLocker for every number of readers and writers and      *)
(* every capacity.  CountInv holds whatever times out; the mutual          *)
(* exclusion, and the refinement of RWGate, need writers that do not time  *)
(* out (PatientWriters).                                                   *)
(***************************************************************************)
EXTENDS KeyLocker, FiniteSetTheorems, TLAPS

\* No writer passes a finite timeout to lock().
PatientWriters == Impatient \cap Writers = {}

CountInv == TypeOK /\ ReadersCounted /\ DoorHasOneCloser

-----------------------------------------------------------------------------
(* What the steps do to the set of readers inside.                         *)

\* A reader that is let in is one reader more.
LEMMA InsideGrows ==
  ASSUME CountInv, NEW r \in Readers, pc[r] # "reading", Goto(r, "reading")
  PROVE  /\ Inside' = Inside \cup {r}
         /\ Cardinality(Inside') = readers + 1
<1>1. Inside' = Inside \cup {r}
  BY DEF CountInv, TypeOK, Goto, Inside, Threads
<1>2. IsFiniteSet(Inside) /\ r \notin Inside
  BY RolesAssumption, FS_Subset DEF Inside
<1>. QED
  BY <1>1, <1>2, FS_AddElement DEF CountInv, ReadersCounted

\* A reader that leaves is one reader less, and there was one.
LEMMA InsideShrinks ==
  ASSUME CountInv, NEW r \in Readers, pc[r] = "reading", Goto(r, "idle")
  PROVE  /\ Inside' = Inside \ {r}
         /\ Cardinality(Inside') = readers - 1
         /\ readers - 1 \in Nat
<1>1. Inside' = Inside \ {r}
  BY DEF CountInv, TypeOK, Goto, Inside, Threads
<1>2. IsFiniteSet(Inside) /\ r \in Inside
  BY RolesAssumption, FS_Subset DEF Inside
<1>3. IsFiniteSet(Inside') /\ Cardinality(Inside') = Cardinality(Inside) - 1
  BY <1>1, <1>2, FS_RemoveElement
<1>4. Cardinality(Inside') \in Nat
  BY <1>3, FS_CardinalityType
<1>. QED
  BY <1>1, <1>3, <1>4 DEF CountInv, ReadersCounted

\* Any other step of a thread leaves the readers inside where they are.
LEMMA InsideStays ==
  ASSUME CountInv, NEW t \in Threads, NEW place \in ReaderPlaces \cup WriterPlaces,
         Goto(t, place), t \in Readers => pc[t] # "reading" /\ place # "reading"
  PROVE  Inside' = Inside
BY DEF CountInv, TypeOK, Goto, Inside, Threads

-----------------------------------------------------------------------------
(* CountInv: type correctness, the count of readers, and one closer for a  *)
(* shut door.                                                              *)

LEMMA CountInit == Init => CountInv
<1>. SUFFICES ASSUME Init PROVE CountInv
  OBVIOUS
<1>1. Inside = {} /\ Closers = {}
  BY DEF Init, Inside, Closers, ClosePlaces, Threads
<1>2. ReadersCounted
  BY <1>1, FS_EmptySet, CapacityAssumption DEF Init, ReadersCounted
<1>. QED
  BY <1>1, <1>2 DEF CountInv, Init, TypeOK, DoorHasOneCloser, Threads, ReaderPlaces, WriterPlaces

LEMMA CountReader ==
  ASSUME CountInv, NEW r \in Readers,
         CallEnter(r) \/ ReaderStep(r) \/ Leave(r) \/ EnterExpired(r) \/ ReaderTimeout(r)
  PROVE  CountInv'
<1>0. PICK place \in ReaderPlaces : Goto(r, place)
  BY DEF CallEnter, ReaderStep, EnterTry, WakeOpen, WakeEnter, EnterExpired, ReaderTimeout,
         Leave, ReaderPlaces
<1>1. TypeOK'
  <2>1. /\ pc' \in [Threads -> ReaderPlaces \cup WriterPlaces]
        /\ \A q \in Readers : pc'[q] \in ReaderPlaces
        /\ \A w \in Writers : pc'[w] \in WriterPlaces
    BY <1>0, RolesAssumption DEF Goto, CountInv, TypeOK, Threads
  <2>2. readers' \in Nat
    BY InsideShrinks
    DEF CountInv, TypeOK, CallEnter, ReaderStep, EnterTry, WakeOpen, WakeEnter, EnterExpired,
        ReaderTimeout, Leave
  <2>3. /\ opened' \in BOOLEAN /\ canOpen' \in BOOLEAN /\ canLock' \in BOOLEAN
        /\ canEnter' \in BOOLEAN /\ canClose' \in BOOLEAN
    <3>1. CASE Leave(r)
      BY <3>1 DEF CountInv, TypeOK, Leave
    <3>2. CASE ~Leave(r)
      BY <3>2 DEF CountInv, TypeOK, CallEnter, ReaderStep, EnterTry, WakeOpen, WakeEnter,
                  EnterExpired, ReaderTimeout, events
    <3>. QED
      BY <3>1, <3>2
  <2>. QED
    BY <2>1, <2>2, <2>3 DEF TypeOK
<1>2. ReadersCounted'
  <2>1. CASE EnterTry(r) /\ HasRoom
    BY <2>1, InsideGrows, CapacityAssumption
    DEF CountInv, ReadersCounted, TypeOK, EnterTry, HasRoom
  <2>2. CASE Leave(r)
    BY <2>2, InsideShrinks, CapacityAssumption DEF CountInv, ReadersCounted, TypeOK, Leave
  <2>3. CASE ~Leave(r) /\ ~(EnterTry(r) /\ HasRoom)
    <3>1. UNCHANGED readers
      BY <2>3
      DEF CallEnter, ReaderStep, EnterTry, WakeOpen, WakeEnter, EnterExpired, ReaderTimeout
    <3>2. Inside' = Inside
      BY <2>3, InsideStays
      DEF CallEnter, ReaderStep, EnterTry, WakeOpen, WakeEnter, EnterExpired, ReaderTimeout,
          Threads, ReaderPlaces
    <3>. QED
      BY <3>1, <3>2 DEF CountInv, ReadersCounted
  <2>. QED
    BY <2>1, <2>2, <2>3
<1>3. DoorHasOneCloser'
  <2>1. UNCHANGED <<opened, canOpen>>
    BY DEF CallEnter, ReaderStep, EnterTry, WakeOpen, WakeEnter, EnterExpired, ReaderTimeout,
           Leave, events
  <2>2. \A w \in Writers : pc'[w] = pc[w]
    BY RolesAssumption
    DEF CallEnter, ReaderStep, EnterTry, WakeOpen, WakeEnter, EnterExpired, ReaderTimeout,
        Leave, Goto, CountInv, TypeOK, Threads
  <2>3. Closers' = Closers
    BY <2>2 DEF Closers
  <2>. QED
    BY <2>1, <2>3 DEF CountInv, DoorHasOneCloser
<1>. QED
  BY <1>1, <1>2, <1>3 DEF CountInv

\* A step of a writer that moves it to a given place.
WriterMoves(w, place) ==
  Goto(w, place) /\ UNCHANGED readers /\ place \in WriterPlaces

LEMMA CountWriterMoves ==
  ASSUME CountInv, NEW w \in Writers, NEW place, WriterMoves(w, place)
  PROVE  /\ ReadersCounted'
         /\ pc' \in [Threads -> ReaderPlaces \cup WriterPlaces]
         /\ \A r \in Readers : pc'[r] = pc[r]
         /\ \A v \in Writers : pc'[v] = IF v = w THEN place ELSE pc[v]
         /\ Closers' = IF place \in ClosePlaces THEN Closers \cup {w} ELSE Closers \ {w}
<1>1. /\ pc' \in [Threads -> ReaderPlaces \cup WriterPlaces]
      /\ \A r \in Readers : pc'[r] = pc[r]
      /\ \A v \in Writers : pc'[v] = IF v = w THEN place ELSE pc[v]
  BY RolesAssumption DEF WriterMoves, Goto, CountInv, TypeOK, Threads
<1>2. Inside' = Inside
  BY <1>1 DEF Inside
<1>3. ReadersCounted'
  BY <1>2 DEF CountInv, ReadersCounted, WriterMoves
<1>4. Closers' = IF place \in ClosePlaces THEN Closers \cup {w} ELSE Closers \ {w}
  BY <1>1 DEF Closers
<1>. QED
  BY <1>1, <1>3, <1>4

LEMMA CountWriter ==
  ASSUME CountInv, NEW w \in Writers,
         CallLock(w) \/ WriterStep(w) \/ Unlock(w) \/ LockExpired(w) \/ LockTimeout(w)
           \/ CloseTimeout(w)
  PROVE  CountInv'
<1>. DEFINE Waits == CallLock(w) \/ WakeLock(w) \/ LockExpired(w) \/ LockTimeout(w)
            Stays == WakeClose(w) \/ ResetClose(w) \/ CloseTimeout(w)
            Opens == GiveUp(w) \/ Unlock(w)
<1>1. CASE Waits
  <2>1. PICK place \in {"lock", "idle"} : WriterMoves(w, place)
    BY <1>1 DEF CallLock, WakeLock, LockExpired, LockTimeout, WriterMoves, WriterPlaces
  <2>2. w \notin Closers
    BY <1>1 DEF CallLock, WakeLock, LockExpired, LockTimeout, Closers, ClosePlaces
  <2>3. UNCHANGED <<opened, canOpen, canClose, canEnter>> /\ canLock' \in BOOLEAN
    BY <1>1 DEF CallLock, WakeLock, LockExpired, LockTimeout, events, CountInv, TypeOK
  <2>4. TypeOK'
    BY <2>1, <2>3, CountWriterMoves DEF CountInv, TypeOK, WriterPlaces, WriterMoves
  <2>5. Closers' = Closers
    BY <2>1, <2>2, CountWriterMoves DEF ClosePlaces
  <2>6. DoorHasOneCloser'
    BY <2>3, <2>5 DEF CountInv, DoorHasOneCloser
  <2>. QED
    BY <2>1, <2>4, <2>6, CountWriterMoves DEF CountInv
<1>2. CASE Stays
  <2>1. PICK place \in {"drained", "writing", "giveUp"} : WriterMoves(w, place)
    BY <1>2 DEF WakeClose, ResetClose, CloseTimeout, WriterMoves, WriterPlaces
  <2>2. w \in Closers
    BY <1>2 DEF WakeClose, ResetClose, CloseTimeout, Closers, ClosePlaces
  <2>3. UNCHANGED <<opened, canOpen, canLock, canEnter>> /\ canClose' \in BOOLEAN
    BY <1>2 DEF WakeClose, ResetClose, CloseTimeout, events, CountInv, TypeOK
  <2>4. TypeOK'
    BY <2>1, <2>3, CountWriterMoves DEF CountInv, TypeOK, WriterPlaces, WriterMoves
  <2>5. Closers' = Closers
    BY <2>1, <2>2, CountWriterMoves DEF ClosePlaces
  <2>6. DoorHasOneCloser'
    BY <2>3, <2>5 DEF CountInv, DoorHasOneCloser
  <2>. QED
    BY <2>1, <2>4, <2>6, CountWriterMoves DEF CountInv
<1>3. CASE Opens
  <2>1. WriterMoves(w, "idle")
    BY <1>3 DEF GiveUp, Unlock, WriterMoves, WriterPlaces
  <2>2. w \in Closers
    BY <1>3 DEF GiveUp, Unlock, Closers, ClosePlaces
  <2>3. ~opened /\ OpenDoor /\ UNCHANGED <<canClose, canEnter>>
    BY <1>3, <2>2 DEF GiveUp, Unlock, CountInv, DoorHasOneCloser
  <2>4. TypeOK'
    BY <2>1, <2>3, CountWriterMoves DEF CountInv, TypeOK, OpenDoor, WriterMoves
  <2>5. Closers' = {}
    <3>1. Closers = {w}
      BY <2>2 DEF CountInv, DoorHasOneCloser, Closers
    <3>. QED
      BY <2>1, <3>1, CountWriterMoves DEF ClosePlaces
  <2>6. DoorHasOneCloser'
    BY <2>3, <2>5 DEF DoorHasOneCloser, OpenDoor
  <2>. QED
    BY <2>1, <2>4, <2>6, CountWriterMoves DEF CountInv
<1>4. CASE LockTry(w) /\ opened
  <2>1. PICK place \in {"writing", "waitClose"} : WriterMoves(w, place)
    BY <1>4 DEF LockTry, WriterMoves, WriterPlaces
  <2>2. Closers = {}
    BY <1>4 DEF CountInv, DoorHasOneCloser
  <2>3. opened' = FALSE /\ canOpen' = FALSE /\ UNCHANGED <<canEnter, canLock>>
        /\ canClose' \in BOOLEAN
    BY <1>4 DEF LockTry, CountInv, TypeOK
  <2>4. TypeOK'
    BY <2>1, <2>3, CountWriterMoves DEF CountInv, TypeOK, WriterMoves
  <2>5. Closers' = {w}
    BY <2>1, <2>2, CountWriterMoves DEF ClosePlaces
  <2>6. DoorHasOneCloser'
    BY <2>3, <2>5 DEF DoorHasOneCloser
  <2>. QED
    BY <2>1, <2>4, <2>6, CountWriterMoves DEF CountInv
<1>5. CASE LockTry(w) /\ ~opened
  <2>1. WriterMoves(w, "waitLock") /\ UNCHANGED <<opened, events>>
    BY <1>5 DEF LockTry, WriterMoves, WriterPlaces, events
  <2>2. w \notin Closers
    BY <1>5 DEF LockTry, Closers, ClosePlaces
  <2>3. TypeOK'
    BY <2>1, CountWriterMoves DEF CountInv, TypeOK, WriterMoves, events
  <2>4. Closers' = Closers
    BY <2>1, <2>2, CountWriterMoves DEF ClosePlaces
  <2>5. DoorHasOneCloser'
    BY <2>1, <2>4 DEF CountInv, DoorHasOneCloser, events
  <2>. QED
    BY <2>1, <2>3, <2>5, CountWriterMoves DEF CountInv
<1>. QED
  BY <1>1, <1>2, <1>3, <1>4, <1>5 DEF WriterStep

LEMMA CountStep == CountInv /\ [Next]_vars => CountInv'
<1>. SUFFICES ASSUME CountInv, [Next]_vars PROVE CountInv'
  OBVIOUS
<1>1. CASE UNCHANGED vars
  BY <1>1
  DEF vars, events, CountInv, TypeOK, ReadersCounted, DoorHasOneCloser, Inside, Closers
<1>2. CASE Next
  BY <1>2, CountReader, CountWriter DEF Next, Expiry
<1>. QED
  BY <1>1, <1>2

\* The type invariant, the count of the readers inside against the capacity,
\* and the one closer of a shut door hold in every state of keylocker,
\* whichever enter() or lock() calls time out.
THEOREM KeyLockerCounts == Spec => [](TypeOK /\ ReadersCounted /\ DoorHasOneCloser)
<1>1. CountInv => TypeOK /\ ReadersCounted /\ DoorHasOneCloser
  BY DEF CountInv
<1>. QED
  BY <1>1, CountInit, CountStep, PTL DEF Spec

-----------------------------------------------------------------------------
(* Mutual exclusion.  When no lock() times out, _evCanClose is signaled    *)
(* only while the writer that shut the door has still to take the signal,  *)
(* so it always means what its comment says: all readers left.             *)

GateInv ==
  /\ \A w \in Writers : pc[w] # "giveUp"
  /\ \A w \in Writers : pc[w] \in {"drained", "writing"} => readers = 0
  /\ canClose => readers = 0 /\ \E w \in Writers : pc[w] \in {"waitClose", "drained"}

PatientInv == CountInv /\ GateInv

LEMMA GateReader ==
  ASSUME PatientInv, NEW r \in Readers,
         CallEnter(r) \/ ReaderStep(r) \/ Leave(r) \/ EnterExpired(r) \/ ReaderTimeout(r)
  PROVE  GateInv'
<1>1. \A w \in Writers : pc'[w] = pc[w]
  BY RolesAssumption
  DEF CallEnter, ReaderStep, EnterTry, WakeOpen, WakeEnter, EnterExpired, ReaderTimeout,
      Leave, Goto, PatientInv, CountInv, TypeOK, Threads
<1>2. CASE Leave(r)
  <2>1. readers # 0
    BY <1>2, InsideShrinks DEF PatientInv, CountInv, TypeOK, Leave
  <2>2. canClose' => readers' = 0 /\ ~opened
    BY <1>2, <2>1 DEF Leave, PatientInv, GateInv
  <2>3. ~opened => \E w \in Writers : pc[w] = "waitClose"
    BY <2>1 DEF PatientInv, CountInv, DoorHasOneCloser, GateInv, Closers, ClosePlaces
  <2>. QED
    BY <1>1, <2>1, <2>2, <2>3 DEF PatientInv, GateInv
<1>3. CASE EnterTry(r) /\ HasRoom
  <2>1. Closers = {}
    BY <1>3 DEF HasRoom, PatientInv, CountInv, DoorHasOneCloser
  <2>2. ~canClose /\ canClose' = canClose
    BY <1>3, <2>1 DEF EnterTry, PatientInv, GateInv, Closers, ClosePlaces, events
  <2>. QED
    BY <1>1, <2>1, <2>2 DEF PatientInv, GateInv, Closers, ClosePlaces
<1>4. CASE ~Leave(r) /\ ~(EnterTry(r) /\ HasRoom)
  <2>1. UNCHANGED <<readers, canClose>>
    BY <1>4
    DEF CallEnter, ReaderStep, EnterTry, WakeOpen, WakeEnter, EnterExpired, ReaderTimeout, events
  <2>. QED
    BY <1>1, <2>1 DEF PatientInv, GateInv
<1>. QED
  BY <1>2, <1>3, <1>4

LEMMA GateWriter ==
  ASSUME PatientInv, PatientWriters, NEW w \in Writers,
         CallLock(w) \/ WriterStep(w) \/ Unlock(w) \/ LockExpired(w) \/ LockTimeout(w)
           \/ CloseTimeout(w)
  PROVE  GateInv'
<1>. USE DEF PatientInv, GateInv
<1>1. \A place : WriterMoves(w, place) =>
        \A v \in Writers : pc'[v] = IF v = w THEN place ELSE pc[v]
  BY CountWriterMoves
<1>2. CASE CallLock(w) \/ WakeLock(w)
  <2>1. WriterMoves(w, "lock") /\ canClose' = canClose
    BY <1>2 DEF CallLock, WakeLock, WriterMoves, WriterPlaces, events
  <2>2. pc[w] \in {"idle", "waitLock"}
    BY <1>2 DEF CallLock, WakeLock
  <2>. QED
    BY <1>1, <2>1, <2>2 DEF WriterMoves
<1>3. CASE WakeClose(w)
  <2>1. WriterMoves(w, "drained") /\ canClose /\ canClose'
    BY <1>3 DEF WakeClose, WriterMoves, WriterPlaces, events
  <2>. QED
    BY <1>1, <2>1 DEF WriterMoves
<1>4. CASE ResetClose(w)
  <2>1. WriterMoves(w, "writing") /\ ~canClose' /\ pc[w] = "drained"
    BY <1>4 DEF ResetClose, WriterMoves, WriterPlaces
  <2>. QED
    BY <1>1, <2>1 DEF WriterMoves
<1>5. CASE Unlock(w)
  <2>1. WriterMoves(w, "idle") /\ canClose' = canClose /\ pc[w] = "writing"
    BY <1>5 DEF Unlock, WriterMoves, WriterPlaces
  <2>. QED
    BY <1>1, <2>1 DEF WriterMoves
<1>6. CASE LockTry(w) /\ opened
  <2>1. \A v \in Writers : pc[v] \notin {"waitClose", "drained", "writing"}
    BY <1>6 DEF CountInv, DoorHasOneCloser, Closers, ClosePlaces
  <2>2. ~canClose /\ ~canClose'
    BY <1>6, <2>1 DEF LockTry
  <2>3. CASE readers = 0
    <3>1. WriterMoves(w, "writing")
      BY <1>6, <2>3 DEF LockTry, WriterMoves, WriterPlaces
    <3>. QED
      BY <1>1, <2>1, <2>2, <2>3, <3>1 DEF WriterMoves
  <2>4. CASE readers # 0
    <3>1. WriterMoves(w, "waitClose")
      BY <1>6, <2>4 DEF LockTry, WriterMoves, WriterPlaces
    <3>. QED
      BY <1>1, <2>1, <2>2, <3>1 DEF WriterMoves
  <2>. QED
    BY <2>3, <2>4
<1>7. CASE LockTry(w) /\ ~opened
  <2>1. WriterMoves(w, "waitLock") /\ canClose' = canClose /\ pc[w] = "lock"
    BY <1>7 DEF LockTry, WriterMoves, WriterPlaces
  <2>. QED
    BY <1>1, <2>1 DEF WriterMoves
<1>8. ~GiveUp(w) /\ ~LockExpired(w) /\ ~LockTimeout(w) /\ ~CloseTimeout(w)
  BY DEF GiveUp, LockExpired, LockTimeout, CloseTimeout, PatientWriters
<1>. QED
  BY <1>2, <1>3, <1>4, <1>5, <1>6, <1>7, <1>8 DEF WriterStep

LEMMA PatientInit == Init => PatientInv
BY CountInit DEF Init, PatientInv, GateInv, Threads

LEMMA PatientStep == PatientWriters /\ PatientInv /\ [Next]_vars => PatientInv'
<1>. SUFFICES ASSUME PatientWriters, PatientInv, [Next]_vars PROVE GateInv'
  BY CountStep DEF PatientInv
<1>1. CASE UNCHANGED vars
  BY <1>1 DEF vars, events, PatientInv, GateInv
<1>2. CASE Next
  BY <1>2, GateReader, GateWriter DEF Next, Expiry
<1>. QED
  BY <1>1, <1>2

LEMMA PatientExclusion == PatientInv => Exclusion
<1>. SUFFICES ASSUME PatientInv PROVE Exclusion
  OBVIOUS
<1>1. ASSUME Owners # {} PROVE Inside = {}
  <2>1. readers = 0
    BY <1>1 DEF PatientInv, GateInv, Owners
  <2>2. IsFiniteSet(Inside)
    BY RolesAssumption, FS_Subset DEF Inside
  <2>. QED
    BY <2>1, <2>2, FS_EmptySet DEF PatientInv, CountInv, ReadersCounted
<1>2. \A v, w \in Owners : v = w
  BY DEF PatientInv, CountInv, DoorHasOneCloser, Owners, Closers, ClosePlaces
<1>. QED
  BY <1>1, <1>2 DEF Exclusion

\* When no writer times out, a writer that has the lock shares it with no
\* reader and no other writer, for any number of threads and any capacity.
THEOREM KeyLockerExcludes == PatientWriters /\ Spec => []Exclusion
<1>. SUFFICES ASSUME PatientWriters PROVE Spec => []Exclusion
  OBVIOUS
<1>1. PatientInv /\ [Next]_vars => PatientInv'
  BY PatientStep
<1>. QED
  BY <1>1, PatientInit, PatientExclusion, PTL DEF Spec

-----------------------------------------------------------------------------
(* The gate its callers see.                                               *)

\* The instance counts with the same Cardinality.
LEMMA GateCardinality == \A S : Gate!Cardinality(S) = Cardinality(S)
BY DEF Gate!Cardinality, Cardinality

LEMMA GateInit == Init => Gate!Init
BY DEF Init, Gate!Init, Inside, Owners, Threads

LEMMA GateReaderStep ==
  ASSUME PatientInv, NEW r \in Readers,
         CallEnter(r) \/ ReaderStep(r) \/ Leave(r) \/ EnterExpired(r) \/ ReaderTimeout(r)
  PROVE  Gate!Enter(r) \/ Gate!Leave(r) \/ UNCHANGED <<Inside, Owners>>
<1>0. \A w \in Writers : pc'[w] = pc[w]
  BY RolesAssumption
  DEF CallEnter, ReaderStep, EnterTry, WakeOpen, WakeEnter, EnterExpired, ReaderTimeout,
      Leave, Goto, PatientInv, CountInv, TypeOK, Threads
<1>1. Owners' = Owners
  BY <1>0 DEF Owners
<1>2. CASE EnterTry(r) /\ HasRoom
  <2>1. Inside' = Inside \cup {r}
    BY <1>2, InsideGrows DEF PatientInv, EnterTry
  <2>2. Owners = {}
    BY <1>2 DEF HasRoom, PatientInv, CountInv, DoorHasOneCloser, Owners, Closers, ClosePlaces
  <2>3. Cardinality(Inside) < MaxReaders
    BY <1>2 DEF HasRoom, PatientInv, CountInv, ReadersCounted
  <2>. QED
    BY <1>1, <2>1, <2>2, <2>3, GateCardinality DEF Gate!Enter
<1>3. CASE Leave(r)
  <2>1. Inside' = Inside \ {r} /\ r \in Inside
    BY <1>3, InsideShrinks DEF PatientInv, Leave, Inside
  <2>. QED
    BY <1>1, <2>1 DEF Gate!Leave
<1>4. CASE ~Leave(r) /\ ~(EnterTry(r) /\ HasRoom)
  <2>1. Inside' = Inside
    BY <1>4, InsideStays
    DEF CallEnter, ReaderStep, EnterTry, WakeOpen, WakeEnter, EnterExpired, ReaderTimeout,
        Threads, ReaderPlaces, PatientInv
  <2>. QED
    BY <1>1, <2>1
<1>. QED
  BY <1>2, <1>3, <1>4

LEMMA GateWriterStep ==
  ASSUME PatientInv, PatientWriters, NEW w \in Writers,
         CallLock(w) \/ WriterStep(w) \/ Unlock(w) \/ LockExpired(w) \/ LockTimeout(w)
           \/ CloseTimeout(w)
  PROVE  Gate!Acquire(w) \/ Gate!Release(w) \/ UNCHANGED <<Inside, Owners>>
<1>1. PICK place \in WriterPlaces : WriterMoves(w, place)
  BY DEF CallLock, WriterStep, LockTry, WakeLock, WakeClose, ResetClose, GiveUp, Unlock,
         LockExpired, LockTimeout, CloseTimeout, WriterMoves, WriterPlaces
<1>2. /\ \A r \in Readers : pc'[r] = pc[r]
      /\ \A v \in Writers : pc'[v] = IF v = w THEN place ELSE pc[v]
  BY <1>1, CountWriterMoves DEF PatientInv
<1>3. Inside' = Inside
  BY <1>2 DEF Inside
<1>4. Owners' = IF place = "writing" THEN Owners \cup {w} ELSE Owners \ {w}
  BY <1>2 DEF Owners
<1>5. CASE place = "writing"
  <2>0. pc'[w] = "writing"
    BY <1>2, <1>5
  <2>1. pc[w] = "drained" \/ (pc[w] = "lock" /\ opened /\ readers = 0)
    <3>1. \A p : Goto(w, p) => p = "writing"
      BY <2>0 DEF Goto, PatientInv, CountInv, TypeOK, Threads
    <3>. QED
      BY <3>1 DEF CallLock, WriterStep, LockTry, WakeLock, WakeClose, ResetClose, GiveUp, Unlock,
                  LockExpired, LockTimeout, CloseTimeout
  <2>2. readers = 0 /\ Owners = {}
    BY <2>1 DEF PatientInv, CountInv, GateInv, DoorHasOneCloser, Closers, Owners, ClosePlaces
  <2>3. Inside = {}
    BY <2>2, RolesAssumption, FS_Subset, FS_EmptySet
    DEF PatientInv, CountInv, ReadersCounted, Inside
  <2>. QED
    BY <1>3, <1>4, <1>5, <2>2, <2>3 DEF Gate!Acquire
<1>6. CASE place # "writing" /\ w \in Owners
  <2>1. Owners = {w}
    BY <1>6, PatientExclusion DEF Exclusion, Owners
  <2>. QED
    BY <1>3, <1>4, <1>6, <2>1 DEF Gate!Release
<1>7. CASE place # "writing" /\ w \notin Owners
  BY <1>3, <1>4, <1>7
<1>. QED
  BY <1>5, <1>6, <1>7

\* When no writer times out, keylocker implements RWGate: every step of it
\* lets in or out one reader or one writer that the gate may let in or out,
\* or changes nothing its callers can see.
THEOREM KeyLockerImplementsGate == PatientWriters /\ Spec => GateSpec
<1>. SUFFICES ASSUME PatientWriters PROVE Spec => Gate!Spec
  BY DEF GateSpec
<1>1. PatientInv /\ [Next]_vars => PatientInv'
  BY PatientStep
<1>2. PatientInv /\ [Next]_vars => [Gate!Next]_<<Inside, Owners>>
  <2>. SUFFICES ASSUME PatientInv, [Next]_vars PROVE [Gate!Next]_<<Inside, Owners>>
    OBVIOUS
  <2>1. CASE UNCHANGED vars
    BY <2>1 DEF vars, Inside, Owners
  <2>2. CASE Next
    <3>1. ASSUME NEW r \in Readers,
                 CallEnter(r) \/ ReaderStep(r) \/ Leave(r) \/ EnterExpired(r) \/ ReaderTimeout(r)
          PROVE  [Gate!Next]_<<Inside, Owners>>
      BY <3>1, GateReaderStep DEF Gate!Next
    <3>2. ASSUME NEW w \in Writers,
                 CallLock(w) \/ WriterStep(w) \/ Unlock(w) \/ LockExpired(w) \/ LockTimeout(w)
                   \/ CloseTimeout(w)
          PROVE  [Gate!Next]_<<Inside, Owners>>
      BY <3>2, GateWriterStep DEF Gate!Next
    <3>. QED
      BY <2>2, <3>1, <3>2 DEF Next, Expiry
  <2>. QED
    BY <2>1, <2>2
<1>. QED
  BY <1>1, <1>2, PatientInit, GateInit, PTL DEF Spec, Gate!Spec, Gate!gateVars
=============================================================================
