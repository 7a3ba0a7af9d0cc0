---------------------------- MODULE GpuLockProofs ----------------------------
(***************************************************************************)
(* Proofs about the GPU lock, for every set of clients and every max_hold. *)
(***************************************************************************)
EXTENDS GpuLock, TLAPS

\* The conjunction that is inductive.
IInv ==
  /\ TypeOK
  /\ LeaseIsExclusive
  /\ WaiterCovered
  /\ HolderWasGranted

-----------------------------------------------------------------------------
\* Initial states satisfy the invariant.
LEMMA InvInit == Init => IInv
<1>1. 0 \in 0 .. AgeBound
  BY GpuLockAssumption DEF AgeBound
<1> QED
  BY <1>1 DEF Init, IInv, TypeOK, Leases, Status, LeaseIsExclusive, WaiterCovered,
         HolderWasGranted

\* A lock section of acquire() keeps the invariant: it takes only a free
\* lock, and queues only behind a holder.
LEMMA TryAcquireStep ==
  ASSUME IInv, NEW c \in Client, pc[c] \in {"new", "woken"}, TryAcquire(c)
  PROVE  IInv'
<1>0. NoLease \notin Client
  BY GpuLockAssumption
<1>1. TypeOK'
  BY DEF IInv, TypeOK, Leases, Status, TryAcquire
<1>2. CASE held = NoLease
  <2>1. held' = c /\ pc' = [pc EXCEPT ![c] = "using"] /\ UNCHANGED <<age, waiters>>
    BY <1>2 DEF TryAcquire
  <2>2. LeaseIsExclusive'
    BY <1>0, <1>2, <2>1 DEF IInv, TypeOK, LeaseIsExclusive
  <2>3. WaiterCovered'
    BY <1>2, <2>1 DEF IInv, TypeOK, WaiterCovered
  <2>4. HolderWasGranted'
    BY <2>1 DEF IInv, TypeOK, HolderWasGranted, Granted
  <2> QED
    BY <1>1, <2>2, <2>3, <2>4 DEF IInv
<1>3. CASE held # NoLease
  <2>1. /\ waiters' = waiters \cup {c}
        /\ pc' = [pc EXCEPT ![c] = "waiting"]
        /\ UNCHANGED <<held, age>>
    BY <1>3 DEF TryAcquire
  <2>2. LeaseIsExclusive'
    BY <2>1 DEF IInv, TypeOK, LeaseIsExclusive
  <2>3. WaiterCovered'
    BY <1>3, <2>1 DEF IInv, TypeOK, WaiterCovered
  <2>4. held \in Client /\ held # c
    BY <1>3 DEF IInv, TypeOK, Leases, HolderWasGranted, Granted
  <2>5. HolderWasGranted'
    BY <2>1, <2>4 DEF IInv, TypeOK, HolderWasGranted, Granted
  <2> QED
    BY <1>1, <2>2, <2>3, <2>5 DEF IInv
<1> QED
  BY <1>2, <1>3

\* A step that only moves one client, without queueing it, granting it or
\* ungranting the holder, keeps the invariant.
LEMMA MoveStep ==
  ASSUME IInv, NEW c \in Client, NEW to \in Status,
         pc' = [pc EXCEPT ![c] = to], UNCHANGED <<held, age, waiters>>,
         to \notin {"new", "using", "waiting", "woken"},
         Granted(c) => to \in {"finished", "crashed"}
  PROVE  IInv'
<1>1. TypeOK'
  BY DEF IInv, TypeOK
<1>2. LeaseIsExclusive' /\ WaiterCovered'
  BY DEF IInv, TypeOK, LeaseIsExclusive, WaiterCovered
<1>3. HolderWasGranted'
  <2> SUFFICES ASSUME held # NoLease PROVE Granted(held)'
    BY DEF HolderWasGranted
  <2>1. held \in Client /\ Granted(held)
    BY DEF IInv, TypeOK, Leases, HolderWasGranted
  <2> QED
    BY <2>1 DEF IInv, TypeOK, Granted
<1> QED
  BY <1>1, <1>2, <1>3 DEF IInv

\* Freeing the lock and waking everybody keeps the invariant, provided the
\* holder no longer counts as using it in time.
LEMMA FreeStep ==
  ASSUME IInv, held' = NoLease, WakeAll, UNCHANGED age,
         ~(pc[held] = "using" /\ age[held] <= MaxHold)
  PROVE  IInv'
<1>0. /\ waiters' = {}
      /\ pc' \in [Client -> Status]
      /\ \A c \in Client : pc'[c] = IF c \in Waiting THEN "woken" ELSE pc[c]
  BY DEF WakeAll, IInv, TypeOK, Status
<1>1. TypeOK'
  <2>1. \A c \in Client : pc'[c] \in {"new", "waiting", "woken"}
                            => pc[c] \in {"new", "waiting", "woken"}
    BY <1>0 DEF Waiting
  <2> QED
    BY <1>0, <2>1 DEF IInv, TypeOK, Leases
<1>2. LeaseIsExclusive'
  <2> SUFFICES ASSUME NEW c \in Client, pc'[c] = "using", age[c] <= MaxHold PROVE FALSE
    BY DEF LeaseIsExclusive
  <2>1. pc[c] = "using"
    BY <1>0
  <2> QED
    BY <2>1 DEF IInv, LeaseIsExclusive
<1>3. WaiterCovered'
  BY <1>0 DEF IInv, WaiterCovered, Waiting
<1>4. HolderWasGranted'
  BY DEF HolderWasGranted
<1> QED
  BY <1>1, <1>2, <1>3, <1>4 DEF IInv

\* Every step keeps the invariant.
LEMMA InvStep == IInv /\ [Next]_vars => IInv'
<1> SUFFICES ASSUME IInv, [Next]_vars PROVE IInv'
  OBVIOUS
<1>0. {"timed_out", "left", "left_woken", "finished", "crashed"} \subseteq Status
  BY DEF Status
<1>1. ASSUME NEW c \in Client, Acquire(c) \/ Retry(c) PROVE IInv'
  BY <1>1, TryAcquireStep DEF Acquire, Retry
<1>2. ASSUME NEW c \in Client, TimeOut(c) PROVE IInv'
  <2>1. ~Granted(c)
    BY <1>2 DEF TimeOut, Granted
  <2> QED
    BY <1>0, <1>2, <2>1, MoveStep DEF TimeOut
<1>3. ASSUME NEW c \in Client, HangUp(c) PROVE IInv'
  <2>1. ~Granted(c)
    BY <1>3 DEF HangUp, Granted
  <2>2. PICK to \in {"left", "left_woken"} : pc' = [pc EXCEPT ![c] = to]
    BY <1>3 DEF HangUp
  <2> QED
    BY <1>0, <1>3, <2>1, <2>2, MoveStep DEF HangUp
<1>4. ASSUME NEW c \in Client, Finish(c) PROVE IInv'
  BY <1>0, <1>4, MoveStep DEF Finish
<1>5. ASSUME NEW c \in Client, Crash(c) PROVE IInv'
  BY <1>0, <1>5, MoveStep DEF Crash
<1>6. ASSUME NEW c \in Client, Release(c) PROVE IInv'
  BY <1>6, FreeStep DEF Release
<1>7. CASE ReapExpired
  <2>1. held \in Client /\ age[held] \in Nat
    BY <1>7, GpuLockAssumption DEF ReapExpired, Expired, IInv, TypeOK, Leases, AgeBound
  <2> QED
    BY <1>7, <2>1, FreeStep, GpuLockAssumption DEF ReapExpired, Expired
<1>8. CASE Tick
  <2>0. AgeBound \in Nat /\ MaxHold \in Nat
    BY GpuLockAssumption DEF AgeBound
  <2>1. /\ UNCHANGED <<held, waiters, pc>>
        /\ age' \in [Client -> 0 .. AgeBound]
        /\ \A c \in Client : age'[c] >= age[c]
    BY <1>8, <2>0 DEF Tick, IInv, TypeOK
  <2>2. \A c \in Client : age[c] \in Nat /\ age'[c] \in Nat
    BY <2>0, <2>1 DEF IInv, TypeOK
  <2>3. TypeOK'
    <3>1. \A c \in Client : ~Granted(c) => age'[c] = age[c]
      BY <1>8 DEF Tick
    <3>2. \A c \in Client : pc[c] \in {"new", "waiting", "woken"} => age'[c] = 0
      BY <3>1 DEF Granted, IInv, TypeOK
    <3> QED
      BY <2>1, <3>2 DEF IInv, TypeOK
  <2>4. LeaseIsExclusive'
    BY <2>0, <2>1, <2>2 DEF IInv, LeaseIsExclusive
  <2>5. WaiterCovered' /\ HolderWasGranted'
    BY <2>1 DEF IInv, WaiterCovered, HolderWasGranted, Granted
  <2> QED
    BY <2>3, <2>4, <2>5 DEF IInv
<1>9. CASE UNCHANGED vars
  BY <1>9 DEF vars, IInv, TypeOK, LeaseIsExclusive, WaiterCovered,
              HolderWasGranted, Granted
<1> QED
  BY <1>1, <1>2, <1>3, <1>4, <1>5, <1>6, <1>7, <1>8, <1>9 DEF Next

\* The lock's state stays well formed, and a lease ages only once granted.
THEOREM GpuLockTypeCorrect == Spec => []TypeOK
<1>1. IInv => TypeOK
  BY DEF IInv
<1> QED
  BY <1>1, InvInit, InvStep, PTL DEF Spec

\* A client within its max_hold never loses the lock, so two clients in time
\* never use the GPU together.
THEOREM LeasesAreExclusive == Spec => []LeaseIsExclusive
<1>1. IInv => LeaseIsExclusive
  BY DEF IInv
<1> QED
  BY <1>1, InvInit, InvStep, PTL DEF Spec

\* No client stays suspended on a free lock.
THEOREM WaitersAreCovered == Spec => []WaiterCovered
<1>1. IInv => WaiterCovered
  BY DEF IInv
<1> QED
  BY <1>1, InvInit, InvStep, PTL DEF Spec

\* The lock is held only for a client whose acquire() returned its lease.
THEOREM HoldersWereGranted == Spec => []HolderWasGranted
<1>1. IInv => HolderWasGranted
  BY DEF IInv
<1> QED
  BY <1>1, InvInit, InvStep, PTL DEF Spec

-----------------------------------------------------------------------------
\* The lock implements SlotPool with the GPU as the only slot.

\* The expressions that GpuLock substitutes for SlotPool's variables.
PhaseBar == [c \in Client |-> PoolPhase(c)]
WantBar == [c \in Client |-> IF pc[c] = "new" THEN {} ELSE {"gpu"}]
HeldBar == [c \in Client |-> IF held = c THEN "gpu" ELSE "none"]

\* The GPU is free for SlotPool exactly if the lock is not held.
LEMMA FreeIsUnheld ==
  ASSUME IInv
  PROVE  Pool!Free("gpu") <=> held = NoLease
<1> QED
  BY GpuLockAssumption DEF Pool!Free, IInv, TypeOK, Leases

\* A claim of the free lock takes the GPU.
LEMMA ClaimTakesGpu ==
  ASSUME IInv, NEW c \in Client, held = NoLease, held' = c,
         pc' = [pc EXCEPT ![c] = "using"]
  PROVE  Pool!Take(c, "gpu")
<1>1. Pool!Free("gpu")
  BY FreeIsUnheld
<1>2. PhaseBar' = [PhaseBar EXCEPT ![c] = "holding"]
  <2>1. PoolPhase(c)' = "holding"
    BY DEF PoolPhase, Granted, IInv, TypeOK
  <2>2. \A d \in Client : d # c => PoolPhase(d)' = PoolPhase(d)
    BY GpuLockAssumption DEF PoolPhase, Granted, IInv, TypeOK
  <2> QED
    BY <2>1, <2>2 DEF PhaseBar
<1>3. HeldBar' = [HeldBar EXCEPT ![c] = "gpu"]
  BY GpuLockAssumption DEF HeldBar
<1> QED
  BY <1>1, <1>2, <1>3 DEF Pool!Take, PhaseBar, HeldBar

\* A lock section of acquire() asks, is granted, or, for a client that was
\* queued already, leaves it queued.
LEMMA TryAcquireRefines ==
  ASSUME IInv, NEW c \in Client, Acquire(c) \/ Retry(c)
  PROVE  Pool!Next \/ UNCHANGED Pool!vars
<1>0. pc[c] \in {"new", "woken"} /\ TryAcquire(c)
  BY DEF Acquire, Retry
<1>1. PoolPhase(c) = IF pc[c] = "new" THEN "idle" ELSE "queued"
  BY <1>0 DEF PoolPhase, Granted
<1>2. WantBar' = [WantBar EXCEPT ![c] = {"gpu"}]
  BY <1>0 DEF TryAcquire, WantBar, IInv, TypeOK
<1>3. CASE held = NoLease
  <2>1. Pool!Take(c, "gpu")
    BY <1>0, <1>3, ClaimTakesGpu DEF TryAcquire
  <2>2. CASE pc[c] = "new"
    <3>1. Pool!Ask(c, {"gpu"})
      BY <1>1, <1>2, <2>1, <2>2 DEF Pool!Ask, WantBar
    <3> QED
      BY <3>1 DEF Pool!Next
  <2>3. CASE pc[c] = "woken"
    <3>1. WantBar' = WantBar /\ WantBar[c] = {"gpu"}
      BY <1>2, <2>3 DEF WantBar
    <3>2. Pool!Grant(c)
      BY <1>1, <2>1, <2>3, <3>1 DEF Pool!Grant, WantBar
    <3> QED
      BY <3>2 DEF Pool!Next
  <2> QED
    BY <1>0, <2>2, <2>3
<1>4. CASE held # NoLease
  <2>1. held' = held /\ pc' = [pc EXCEPT ![c] = "waiting"]
    BY <1>0, <1>4 DEF TryAcquire
  <2>2. HeldBar' = HeldBar
    BY <2>1 DEF HeldBar
  <2>3. PhaseBar' = [PhaseBar EXCEPT ![c] = "queued"]
    <3>1. PoolPhase(c)' = "queued"
      BY <2>1 DEF PoolPhase, Granted, IInv, TypeOK
    <3>2. \A d \in Client : d # c => PoolPhase(d)' = PoolPhase(d)
      BY <2>1 DEF PoolPhase, Granted, IInv, TypeOK
    <3> QED
      BY <3>1, <3>2 DEF PhaseBar
  <2>4. CASE pc[c] = "new"
    <3>1. ~Pool!Free("gpu")
      BY <1>4, FreeIsUnheld
    <3>2. Pool!Ask(c, {"gpu"})
      BY <1>1, <1>2, <2>2, <2>3, <2>4, <3>1 DEF Pool!Ask, PhaseBar, WantBar, HeldBar
    <3> QED
      BY <3>2 DEF Pool!Next
  <2>5. CASE pc[c] = "woken"
    <3>1. WantBar' = WantBar /\ PhaseBar' = PhaseBar
      BY <1>1, <1>2, <2>3, <2>5 DEF WantBar, PhaseBar
    <3> QED
      BY <2>2, <3>1 DEF Pool!vars, PhaseBar, WantBar, HeldBar
  <2> QED
    BY <1>0, <2>4, <2>5
<1> QED
  BY <1>3, <1>4

\* A client that times out or hangs up in the queue leaves.
LEMMA GoneLeaves ==
  ASSUME IInv, NEW c \in Client, TimeOut(c) \/ HangUp(c)
  PROVE  Pool!Next
<1>1. /\ pc[c] \in {"waiting", "woken"}
      /\ pc'[c] \in {"timed_out", "left", "left_woken"}
      /\ \A d \in Client : d # c => pc'[d] = pc[d]
      /\ held' = held
  BY DEF TimeOut, HangUp, IInv, TypeOK
<1>2. PoolPhase(c) = "queued" /\ PoolPhase(c)' = "gone"
  BY <1>1 DEF PoolPhase, Granted
<1>3. \A d \in Client : d # c => PoolPhase(d)' = PoolPhase(d)
  BY <1>1 DEF PoolPhase, Granted
<1>4. UNCHANGED <<WantBar, HeldBar>>
  BY <1>1 DEF WantBar, HeldBar
<1>5. Pool!Leave(c)
  BY <1>2, <1>3, <1>4 DEF Pool!Leave, WantBar, HeldBar
<1> QED
  BY <1>5 DEF Pool!Next

\* Whoever ends a lease, its client or the reaper, gives the GPU back, and
\* the signals reserve it for nobody.
LEMMA EndGivesBack ==
  ASSUME IInv, NEW c \in Client, held = c, held' = NoLease, WakeAll
  PROVE  Pool!Next
<1>1. Granted(c) /\ c # NoLease
  BY GpuLockAssumption DEF IInv, HolderWasGranted
<1>2. \A d \in Client : pc'[d] = pc[d] \/ (pc[d] = "waiting" /\ pc'[d] = "woken")
  BY DEF WakeAll, Waiting
<1>3. PoolPhase(c) = "holding" /\ PoolPhase(c)' = "done"
  BY <1>1, <1>2 DEF PoolPhase, Granted
<1>4. \A d \in Client : d # c => PoolPhase(d)' = PoolPhase(d)
  BY <1>2, GpuLockAssumption DEF PoolPhase, Granted
<1>5. PhaseBar[c] = "holding" /\ PhaseBar' = [PhaseBar EXCEPT ![c] = "done"]
  BY <1>3, <1>4 DEF PhaseBar
<1>6. WantBar' = WantBar
  BY <1>2 DEF WantBar
<1>7. HeldBar' = [HeldBar EXCEPT ![c] = "none"]
  BY GpuLockAssumption DEF HeldBar
<1>8. Pool!GiveBack(c)
  BY <1>5, <1>6, <1>7 DEF Pool!GiveBack, PhaseBar, WantBar, HeldBar
<1> QED
  BY <1>8 DEF Pool!Next

\* Every step of the lock is a step of SlotPool or invisible to it.
LEMMA PoolStep == IInv /\ [Next]_vars => [Pool!Next]_(Pool!vars)
<1> SUFFICES ASSUME IInv, [Next]_vars PROVE Pool!Next \/ UNCHANGED Pool!vars
  OBVIOUS
<1>1. ASSUME NEW c \in Client, Acquire(c) \/ Retry(c)
      PROVE  Pool!Next \/ UNCHANGED Pool!vars
  BY <1>1, TryAcquireRefines
<1>2. ASSUME NEW c \in Client, TimeOut(c) \/ HangUp(c) PROVE Pool!Next
  BY <1>2, GoneLeaves
<1>3. ASSUME held' = held,
             \A d \in Client : pc'[d] = pc[d] \/ (Granted(d) /\ Granted(d)')
      PROVE  UNCHANGED Pool!vars
  <2>1. \A d \in Client : PoolPhase(d)' = PoolPhase(d)
    BY <1>3 DEF PoolPhase, Granted
  <2>2. UNCHANGED <<WantBar, HeldBar>>
    BY <1>3 DEF WantBar, HeldBar, Granted
  <2> QED
    BY <2>1, <2>2 DEF Pool!vars, WantBar, HeldBar
<1>4. ASSUME NEW c \in Client, Finish(c) \/ Crash(c) PROVE UNCHANGED Pool!vars
  BY <1>3, <1>4 DEF Finish, Crash, Granted, IInv, TypeOK
<1>5. ASSUME NEW c \in Client, Release(c) PROVE Pool!Next
  BY <1>5, EndGivesBack DEF Release
<1>6. CASE ReapExpired
  BY <1>6, EndGivesBack DEF ReapExpired, Expired, IInv, TypeOK, Leases
<1>7. CASE Tick
  BY <1>3, <1>7 DEF Tick
<1>8. CASE UNCHANGED vars
  BY <1>3, <1>8 DEF vars
<1> QED
  BY <1>1, <1>2, <1>4, <1>5, <1>6, <1>7, <1>8 DEF Next

\* The lock implements SlotPool: a client queues only while another lease is
\* held, gets the lock only when it is free, at most once, and once its lease
\* has ended, by a release or by the reaper, it never has the lock again.
THEOREM GpuLockImplementsSlotPool == Spec => ImplementsSlotPool
<1>1. Init => Pool!Init
  <2> SUFFICES ASSUME Init PROVE Pool!Init
    OBVIOUS
  <2>1. \A c \in Client : PoolPhase(c) = "idle"
    BY DEF Init, PoolPhase, Granted
  <2> QED
    BY <2>1, GpuLockAssumption DEF Init, Pool!Init
<1> QED
  BY <1>1, InvInit, InvStep, PoolStep, PTL DEF Spec, ImplementsSlotPool, Pool!Spec
=============================================================================
