------------------------------- MODULE GpuLock -------------------------------
(***************************************************************************)
(* The lease-based GPU lock: src/src/gpu_lock.rs, its two HTTP handlers in *)
(* src/src/server.rs and the reaper task of src/src/main.rs.               *)
(*                                                                         *)
(* A client c stands for one POST /gpu-lock/acquire and what follows it.   *)
(* A lease id is a fresh UUID minted by a successful acquire(), so the     *)
(* lease granted to c is named c.  Every method holds one mutex for its    *)
(* whole body and is one action; acquire() is a loop of such sections      *)
(* separated by an await, as in Scheduler.                                 *)
(*                                                                         *)
(* The release request travels over HTTP: a client that finished may have  *)
(* it handled late, several times (a retry), or never.                     *)
(*                                                                         *)
(* Time is discrete: Tick ages every granted lease, up to the first value  *)
(* that elapsed() > max_hold distinguishes.                                *)
(***************************************************************************)
EXTENDS Integers, FiniteSets

CONSTANTS
  Client,   \* the acquire() calls of one behaviour
  NoLease,  \* held = None
  MaxHold,  \* max_hold, in ticks
  Patient,  \* clients whose queue timeout does not elapse
  Flaky     \* clients that may hang up while queued

ASSUME GpuLockAssumption ==
  /\ NoLease \notin Client
  /\ MaxHold \in Nat
  /\ Patient \subseteq Client
  /\ Flaky \subseteq Client

VARIABLES
  held,    \* Inner.held: the lease, or NoLease
  age,     \* time since each lease was granted (acquired_at.elapsed())
  waiters, \* Inner.waiters; drained only as a whole, so its order is unobservable
  pc       \* where each client is

vars == <<held, age, waiters, pc>>

Status ==
  { "new", "waiting", "woken", "timed_out", "left", "left_woken",
    "using",     \* has its lease and uses the GPU
    "finished",  \* stopped using it; its release request is on the way
    "crashed" }  \* gone while its lease was granted: no release will come

Leases == Client \cup {NoLease}

AgeBound == MaxHold + 1

TypeOK ==
  /\ held \in Leases
  /\ age \in [Client -> 0 .. AgeBound]
  /\ waiters \in SUBSET Client
  /\ pc \in [Client -> Status]
  /\ \A c \in Client : pc[c] \in {"new", "waiting", "woken"} => age[c] = 0

Init ==
  /\ held = NoLease
  /\ age = [c \in Client |-> 0]
  /\ waiters = {}
  /\ pc = [c \in Client |-> "new"]

-----------------------------------------------------------------------------
\* One lock section of acquire(): claim the lock or queue a fresh sender.
TryAcquire(c) ==
  \/ /\ held = NoLease
     /\ held' = c
     /\ pc' = [pc EXCEPT ![c] = "using"]
     /\ UNCHANGED <<age, waiters>>
  \/ /\ held # NoLease
     /\ waiters' = waiters \cup {c}
     /\ pc' = [pc EXCEPT ![c] = "waiting"]
     /\ UNCHANGED <<held, age>>

Acquire(c) == pc[c] = "new" /\ TryAcquire(c)

\* Faulty variant: a signal claims the lock even if the client has hung up.
RetryThoughGone(c) == pc[c] \in {"woken", "left_woken"} /\ TryAcquire(c)

\* A signalled acquire() is polled again.
Retry(c) == pc[c] = "woken" /\ TryAcquire(c)

\* The queue timeout elapses before a signal arrives: 503.
TimeOut(c) ==
  /\ c \notin Patient
  /\ pc[c] = "waiting"
  /\ pc' = [pc EXCEPT ![c] = "timed_out"]
  /\ UNCHANGED <<held, age, waiters>>

\* A queued client hangs up and its handler is dropped.
HangUp(c) ==
  /\ c \in Flaky
  /\ \/ pc[c] = "waiting" /\ pc' = [pc EXCEPT ![c] = "left"]
     \/ pc[c] = "woken" /\ pc' = [pc EXCEPT ![c] = "left_woken"]
  /\ UNCHANGED <<held, age, waiters>>

\* The client stops using the GPU and sends its release request.
Finish(c) ==
  /\ pc[c] = "using"
  /\ pc' = [pc EXCEPT ![c] = "finished"]
  /\ UNCHANGED <<held, age, waiters>>

\* The client disappears between its acquire and its release.
Crash(c) ==
  /\ pc[c] = "using"
  /\ pc' = [pc EXCEPT ![c] = "crashed"]
  /\ UNCHANGED <<held, age, waiters>>

Waiting == {c \in waiters : pc[c] = "waiting"}

\* Faulty variant: stop after the first successful send.
WakeFirst ==
  \E sent \in SUBSET Waiting :
    /\ Cardinality(sent) = IF Waiting # {} THEN 1 ELSE 0
    /\ waiters' = waiters \ sent
    /\ pc' = [c \in Client |-> IF c \in sent THEN "woken" ELSE pc[c]]

\* wake_all: drain the queue, signalling every live receiver.
WakeAll ==
  /\ waiters' = {}
  /\ pc' = [c \in Client |-> IF c \in Waiting THEN "woken" ELSE pc[c]]

\* Faulty variant: any lease releases the lock.
ReleaseAnyLease(c) ==
  /\ pc[c] = "finished"
  /\ held # NoLease
  /\ held' = NoLease
  /\ WakeAll
  /\ UNCHANGED age

\* Faulty variant: the lock is handed to a live waiter with the signal.
ReleaseHandsOff(c) ==
  /\ pc[c] = "finished"
  /\ held = c
  /\ held' \in IF Waiting # {} THEN Waiting ELSE {NoLease}
  /\ WakeAll
  /\ UNCHANGED age

\* gpu_lock_release for c's lease.  Any other lease than the current one,
\* c's own after it was released or reaped included, is UnknownLease (404)
\* and changes nothing.
Release(c) ==
  /\ pc[c] = "finished"
  /\ held = c
  /\ held' = NoLease
  /\ WakeAll
  /\ UNCHANGED age

Expired == held # NoLease /\ age[held] > MaxHold

\* Faulty variant: the reaper frees the lock without waking anybody.
ReapWithoutWake ==
  /\ Expired
  /\ held' = NoLease
  /\ UNCHANGED <<age, waiters, pc>>

\* Faulty variant: the reaper bothers only when somebody is queued.
ReapOnDemand ==
  /\ Expired /\ waiters # {}
  /\ held' = NoLease
  /\ WakeAll
  /\ UNCHANGED age

\* reap_expired, called by the reaper task's interval.
ReapExpired ==
  /\ Expired
  /\ held' = NoLease
  /\ WakeAll
  /\ UNCHANGED age

\* Faulty variant: acquired_at is taken when the request is queued.
GrantedOnceQueued(c) == pc[c] \in {"waiting", "woken", "using", "finished", "crashed"}

\* Whether c's lease was granted and its owner may still act on it.
Granted(c) == pc[c] \in {"using", "finished", "crashed"}

\* Time passes for every granted lease.
Tick ==
  /\ \E c \in Client : Granted(c) /\ age[c] < AgeBound
  /\ age' = [c \in Client |->
               IF Granted(c) /\ age[c] < AgeBound THEN age[c] + 1 ELSE age[c]]
  /\ UNCHANGED <<held, waiters, pc>>

Next ==
  \/ \E c \in Client :
       \/ Acquire(c)
       \/ Retry(c)
       \/ TimeOut(c)
       \/ HangUp(c)
       \/ Finish(c)
       \/ Crash(c)
       \/ Release(c)
  \/ ReapExpired
  \/ Tick

Spec == Init /\ [][Next]_vars

\* Time passes, the reaper's interval keeps firing and signalled tasks are
\* polled.  Nothing is assumed of the clients: a release need never come.
FairSpec ==
  /\ Spec
  /\ WF_vars(Tick) /\ WF_vars(ReapExpired)
  /\ \A c \in Client : WF_vars(Retry(c))

-----------------------------------------------------------------------------
\* Safety.

\* Whoever uses the GPU within its max_hold holds the lock, so two such
\* clients never overlap: no late, repeated or foreign release and no reap
\* takes the lock from a client that is within its time.
LeaseIsExclusive ==
  \A c \in Client : pc[c] = "using" /\ age[c] <= MaxHold => held = c

\* No lost wake-up: a suspended client is queued, and the lock is held, so a
\* release or the reaper is still to come and signal it.
WaiterCovered ==
  \A c \in Client : pc[c] = "waiting" => c \in waiters /\ held # NoLease

\* The lock is never held on behalf of a client that was only signalled, or
\* that timed out or hung up in the queue.
HolderWasGranted == held # NoLease => Granted(held)

-----------------------------------------------------------------------------
\* What leases, queue, signals and reaper implement: SlotPool with one slot.

PoolPhase(c) ==
  CASE pc[c] = "new" -> "idle"
    [] pc[c] \in {"waiting", "woken"} -> "queued"
    [] Granted(c) -> IF held = c THEN "holding" ELSE "done"
    [] OTHER -> "gone"

Pool == INSTANCE SlotPool WITH
  Slot <- {"gpu"}, Party <- Client, NoSlot <- "none",
  phase <- [c \in Client |-> PoolPhase(c)],
  want <- [c \in Client |-> IF pc[c] = "new" THEN {} ELSE {"gpu"}],
  held <- [c \in Client |-> IF held = c THEN "gpu" ELSE "none"],
  foreign <- {}

\* The lock implements SlotPool: a client queues only while another lease is
\* held, gets the lock only when it is free, at most once, and once its lease
\* has ended, by a release or by the reaper, it never has the lock again.
ImplementsSlotPool == Pool!Spec

-----------------------------------------------------------------------------
\* Liveness, under FairSpec.

\* No lease wedges the lock: whatever became of its client, it is given up
\* or reaped.
LeaseEnds == \A c \in Client : held = c ~> held # c

\* A client that outlasts the queue gets the lock, although holders crash
\* and signalled clients hang up.
WaiterServed == \A c \in Patient : pc[c] = "waiting" ~> pc[c] = "using"
=============================================================================
