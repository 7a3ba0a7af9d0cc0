------------------------------ MODULE Scheduler ------------------------------
(***************************************************************************)
(* The slot admission scheduler, src/src/scheduler.rs.                     *)
(*                                                                         *)
(* Every public method of Scheduler takes one mutex for its whole body, so *)
(* each is one atomic action here.  The exception is admit(), which is a   *)
(* loop of lock sections separated by an await on a oneshot receiver: its  *)
(* first section is Arrive, each later one is Retry, and while it awaits   *)
(* it can be woken (pc "waiting" -> "woken"), time out, or be dropped      *)
(* because its client hung up.                                             *)
(*                                                                         *)
(* A request r stands for one call of admit() and the slot ownership that  *)
(* follows from it.  Its oneshot sender sits in at most one queue; the     *)
(* sender is live exactly while pc[r] = "waiting", and a dead sender stays *)
(* queued, as in the code, until a wake drains its queue.  The queues are  *)
(* sets: the code only ever drains a queue completely, so the order inside *)
(* one cannot be observed.                                                 *)
(***************************************************************************)
EXTENDS Integers, FiniteSets

CONSTANTS
  NumSlots,   \* num_slots given to Scheduler::new
  Req,        \* the calls of admit() in one behaviour
  Prefix,     \* prefix_hash values
  Model,      \* values of the request's model, the absent one included
  NoHint,     \* hint = None
  NoSlot,     \* preferred_slot = None; also: no slot admitted yet
  NoResident, \* resident_prefix = None
  Hints,      \* the hints the clients send
  Patient,    \* requests whose queue timeout does not elapse
  Flaky       \* requests whose client may hang up while queued

SlotIds == 0 .. NumSlots - 1

\* What a slot is known to hold.  resident_prefix and resident_model are
\* always set together (mark_resident) and cleared together (clear_resident).
Resident == [prefix : Prefix, model : Model]

\* preferred_slot is a client's u32: it need not name an existing slot.
SlotHint == [prefix : Prefix, model : Model, preferred : Nat \cup {NoSlot}]

ASSUME SchedulerAssumption ==
  /\ NumSlots \in Nat
  /\ Hints \subseteq {NoHint} \cup SlotHint
  /\ NoHint \notin SlotHint
  /\ NoSlot \notin Nat
  /\ NoResident \notin Resident
  /\ Patient \subseteq Req
  /\ Flaky \subseteq Req

VARIABLES
  busy,           \* SlotState.busy, per slot
  seeded_unowned, \* SlotState.seeded_unowned, per slot
  resident,       \* SlotState.resident_prefix and resident_model, per slot
  last_used,      \* SlotState.last_used, per slot
  clock,          \* Inner.clock
  slot_waiters,   \* Inner.slot_waiters: per slot, the requests queued for it
  global_waiters, \* Inner.global_waiters: the requests queued for any slot
  pc,             \* where each admit() call, and the ownership after it, is
  hint,           \* the hint of each request
  slot,           \* Admission.slot_id of each request
  cache_ready     \* Admission.cache_ready of each request

slotVars == <<busy, seeded_unowned, resident, last_used, clock>>
queueVars == <<slot_waiters, global_waiters>>
reqVars == <<pc, hint, slot, cache_ready>>
vars == <<slotVars, queueVars, reqVars>>

Status ==
  { "new",        \* not called yet
    "waiting",    \* suspended on its receiver, sender queued
    "woken",      \* signal sent, not polled again yet
    "admitted",   \* admit() returned a slot, not released yet
    "done",       \* slot released
    "timed_out",  \* admit() returned SchedulerError::Timeout
    "left",       \* client hung up while suspended
    "left_woken" } \* client hung up after the signal, before the retry

TypeOK ==
  /\ busy \in [SlotIds -> BOOLEAN]
  /\ seeded_unowned \in [SlotIds -> BOOLEAN]
  /\ resident \in [SlotIds -> Resident \cup {NoResident}]
  /\ last_used \in [SlotIds -> Nat]
  /\ clock \in Nat
  /\ slot_waiters \in [SlotIds -> SUBSET Req]
  /\ global_waiters \in SUBSET Req
  /\ pc \in [Req -> Status]
  /\ hint \in [Req -> {NoHint} \cup SlotHint]
  /\ slot \in [Req -> SlotIds \cup {NoSlot}]
  /\ cache_ready \in [Req -> BOOLEAN]

-----------------------------------------------------------------------------
\* Helpers over the locked state.

FreeSlots == {s \in SlotIds : ~busy[s]}

\* SlotHint::is_resident_in, for a hint that may be absent.
IsResidentIn(h, s) ==
  /\ h # NoHint
  /\ resident[s] = [prefix |-> h.prefix, model |-> h.model]

\* The preference filter of try_admit_locked and admit: a preferred slot that
\* does not exist is treated as no preference.
Usable(h) == h # NoHint /\ h.preferred \in SlotIds

Lowest(S) == {s \in S : \A t \in S : s <= t}

LeastRecentlyUsed ==
  {s \in FreeSlots : \A t \in FreeSlots : last_used[s] <= last_used[t]}

\* Faulty variant: a busy preferred slot counts as no preference.
CandidatesElsewhere(h) ==
  IF Usable(h) /\ h.preferred \in FreeSlots
  THEN {h.preferred}
  ELSE LET matching == {s \in FreeSlots : IsResidentIn(h, s)}
       IN  IF matching # {} THEN Lowest(matching) ELSE Lowest(LeastRecentlyUsed)

\* The slot try_admit_locked picks for hint h: the usable preferred slot or
\* none; otherwise the first free slot already resident with the hint's
\* prefix and model; otherwise the least recently used free slot, the lowest
\* index among equals (min_by_key returns the first minimum).  Empty when
\* nothing is admittable.
Candidates(h) ==
  IF Usable(h)
  THEN {h.preferred} \cap FreeSlots
  ELSE LET matching == {s \in FreeSlots : IsResidentIn(h, s)}
       IN  IF matching # {} THEN Lowest(matching) ELSE Lowest(LeastRecentlyUsed)

\* Whether r owns the ReleaseGuard of slot s.
Holds(r, s) == pc[r] = "admitted" /\ slot[r] = s

Waiting(S) == {q \in S : pc[q] = "waiting"}

-----------------------------------------------------------------------------
\* Scheduler::new followed by seed_busy for every slot that llama-server
\* reported as processing at startup.
Seed(processing) ==
  /\ busy = [s \in SlotIds |-> s \in processing]
  /\ seeded_unowned = [s \in SlotIds |-> s \in processing]
  /\ resident = [s \in SlotIds |-> NoResident]
  /\ last_used = [s \in SlotIds |-> 0]
  /\ clock = 0
  /\ slot_waiters = [s \in SlotIds |-> {}]
  /\ global_waiters = {}

Init ==
  /\ \E processing \in SUBSET SlotIds : Seed(processing)
  /\ pc = [r \in Req |-> "new"]
  /\ hint = [r \in Req |-> NoHint]
  /\ slot = [r \in Req |-> NoSlot]
  /\ cache_ready = [r \in Req |-> FALSE]

\* Faulty variant: the claim forgets to reset seeded_unowned.
ClaimKeepsSeeded(r, h, s) ==
  /\ busy' = [busy EXCEPT ![s] = TRUE]
  /\ clock' = clock + 1
  /\ last_used' = [last_used EXCEPT ![s] = clock + 1]
  /\ pc' = [pc EXCEPT ![r] = "admitted"]
  /\ slot' = [slot EXCEPT ![r] = s]
  /\ cache_ready' = [cache_ready EXCEPT ![r] = IsResidentIn(h, s)]
  /\ UNCHANGED <<seeded_unowned, resident, queueVars>>

\* try_admit_locked taking slot s for request r.
Claim(r, h, s) ==
  /\ busy' = [busy EXCEPT ![s] = TRUE]
  /\ seeded_unowned' = [seeded_unowned EXCEPT ![s] = FALSE]
  /\ clock' = clock + 1
  /\ last_used' = [last_used EXCEPT ![s] = clock + 1]
  /\ pc' = [pc EXCEPT ![r] = "admitted"]
  /\ slot' = [slot EXCEPT ![r] = s]
  /\ cache_ready' = [cache_ready EXCEPT ![r] = IsResidentIn(h, s)]
  /\ UNCHANGED <<resident, queueVars>>

\* Nothing admittable: queue a fresh sender for the usable preferred slot, or
\* for any slot.
Enqueue(r, h) ==
  /\ IF Usable(h)
     THEN /\ slot_waiters' = [slot_waiters EXCEPT ![h.preferred] = @ \cup {r}]
          /\ UNCHANGED global_waiters
     ELSE /\ global_waiters' = global_waiters \cup {r}
          /\ UNCHANGED slot_waiters
  /\ pc' = [pc EXCEPT ![r] = "waiting"]
  /\ UNCHANGED <<slotVars, slot, cache_ready>>

TryAdmit(r, h) ==
  \/ \E s \in Candidates(h) : Claim(r, h, s)
  \/ Candidates(h) = {} /\ Enqueue(r, h)

\* admit() is called: its first lock section.
Arrive(r, h) ==
  /\ pc[r] = "new"
  /\ hint' = [hint EXCEPT ![r] = h]
  /\ TryAdmit(r, h)

\* A woken admit() is polled again and repeats the attempt from scratch.
Retry(r) ==
  /\ pc[r] = "woken"
  /\ TryAdmit(r, hint[r])
  /\ UNCHANGED hint

\* The deadline of admit() passes.  timeout_at polls the receiver before the
\* timer, so a request that was already signalled retries instead.
TimeOut(r) ==
  /\ r \notin Patient
  /\ pc[r] = "waiting"
  /\ pc' = [pc EXCEPT ![r] = "timed_out"]
  /\ UNCHANGED <<slotVars, queueVars, hint, slot, cache_ready>>

\* The client of a queued request hangs up: axum drops the handler and with
\* it the receiver.  The sender, if still queued, stays in its queue.
HangUp(r) ==
  /\ r \in Flaky
  /\ \/ pc[r] = "waiting" /\ pc' = [pc EXCEPT ![r] = "left"]
     \/ pc[r] = "woken" /\ pc' = [pc EXCEPT ![r] = "left_woken"]
  /\ UNCHANGED <<slotVars, queueVars, hint, slot, cache_ready>>

\* Faulty variant: stop after the first successful send.
WakeOnlyFirst(s, status0) ==
  LET specific == Waiting(slot_waiters[s])
      live == IF specific # {} THEN specific ELSE Waiting(global_waiters)
  IN  \E sent \in SUBSET live :
        /\ Cardinality(sent) = IF live # {} THEN 1 ELSE 0
        /\ slot_waiters' = [slot_waiters EXCEPT ![s] = @ \ sent]
        /\ global_waiters' = global_waiters \ sent
        /\ pc' = [q \in Req |-> IF q \in sent THEN "woken" ELSE status0[q]]

\* wake_waiters_for(s), with status0 the statuses the caller leaves: drain
\* the queue of s; only if no live sender was in it, drain the global queue.
WakeWaitersFor(s, status0) ==
  LET specific == Waiting(slot_waiters[s])
      woken == IF specific # {} THEN specific ELSE Waiting(global_waiters)
  IN  /\ slot_waiters' = [slot_waiters EXCEPT ![s] = {}]
      /\ global_waiters' = IF specific # {} THEN global_waiters ELSE {}
      /\ pc' = [q \in Req |-> IF q \in woken THEN "woken" ELSE status0[q]]

\* Faulty variant: the slot is handed to a live waiter, on whose behalf it is
\* kept busy.
ReleaseHandsOff(r) ==
  LET s == slot[r]
      live == Waiting(slot_waiters[s]) \cup Waiting(global_waiters)
  IN  /\ pc[r] = "admitted"
      /\ busy' = [busy EXCEPT ![s] = live # {}]
      /\ WakeWaitersFor(s, [pc EXCEPT ![r] = "done"])
      /\ UNCHANGED <<seeded_unowned, resident, last_used, clock>>
      /\ UNCHANGED <<hint, slot, cache_ready>>

\* release(), called by the drop of r's ReleaseGuard.
Release(r) ==
  /\ pc[r] = "admitted"
  /\ busy' = [busy EXCEPT ![slot[r]] = FALSE]
  /\ WakeWaitersFor(slot[r], [pc EXCEPT ![r] = "done"])
  /\ UNCHANGED <<seeded_unowned, resident, last_used, clock>>
  /\ UNCHANGED <<hint, slot, cache_ready>>

\* Faulty variant: the freed slot wakes nobody.
ReconcileWithoutWake(s) ==
  /\ seeded_unowned[s]
  /\ busy' = [busy EXCEPT ![s] = FALSE]
  /\ UNCHANGED <<seeded_unowned, resident, last_used, clock, queueVars, reqVars>>

\* reconcile_seeded_idle(s): a no-op unless s is still seeded and unclaimed.
ReconcileSeededIdle(s) ==
  /\ seeded_unowned[s]
  /\ busy' = [busy EXCEPT ![s] = FALSE]
  /\ WakeWaitersFor(s, pc)
  /\ UNCHANGED <<seeded_unowned, resident, last_used, clock>>
  /\ UNCHANGED <<hint, slot, cache_ready>>

\* Faulty variant: the prefix is recorded without the model that computed it.
MarkResidentPrefixOnly(r) ==
  /\ pc[r] = "admitted"
  /\ hint[r] # NoHint
  /\ resident' = [resident EXCEPT ![slot[r]] =
                    [prefix |-> hint[r].prefix, model |-> NoResident]]
  /\ UNCHANGED <<busy, seeded_unowned, last_used, clock, queueVars, reqVars>>

\* mark_resident(), called for the slot r holds after a restore or warm-up.
MarkResident(r) ==
  /\ pc[r] = "admitted"
  /\ hint[r] # NoHint
  /\ resident' = [resident EXCEPT ![slot[r]] =
                    [prefix |-> hint[r].prefix, model |-> hint[r].model]]
  /\ UNCHANGED <<busy, seeded_unowned, last_used, clock, queueVars, reqVars>>

\* clear_resident(), called for the slot a hint-less r holds.
ClearResident(r) ==
  /\ pc[r] = "admitted"
  /\ hint[r] = NoHint
  /\ resident' = [resident EXCEPT ![slot[r]] = NoResident]
  /\ UNCHANGED <<busy, seeded_unowned, last_used, clock, queueVars, reqVars>>

Next ==
  \/ \E r \in Req :
       \/ \E h \in Hints : Arrive(r, h)
       \/ Retry(r)
       \/ TimeOut(r)
       \/ HangUp(r)
       \/ Release(r)
       \/ MarkResident(r)
       \/ ClearResident(r)
  \/ \E s \in SlotIds : ReconcileSeededIdle(s)

Spec == Init /\ [][Next]_vars

\* A signalled task is polled again.  Of the upstream it is assumed here that
\* an admitted job ends and drops its guard, that is, that responses end and
\* the KV store answers (Broker says what holds without that), and that the
\* reconciliation poll eventually sees a seeded slot idle.
Fairness ==
  /\ \A r \in Req : WF_vars(Retry(r)) /\ WF_vars(Release(r))
  /\ \A s \in SlotIds : WF_vars(ReconcileSeededIdle(s))

FairSpec == Spec /\ Fairness

-----------------------------------------------------------------------------
\* Safety.

\* No slot is given to two requests at once: neither a release, nor a wake
\* that several waiters race for, nor the reconciliation poll frees a slot
\* whose ReleaseGuard is still alive.
MutualExclusion ==
  \A r, q \in Req :
    pc[r] = "admitted" /\ pc[q] = "admitted" /\ slot[r] = slot[q] => r = q

\* The guarantee reconcile_seeded_idle rests on: a slot with a live guard is
\* busy and no longer counts as seeded, so the poll cannot touch it.
GuardedSlotsStayBusy ==
  \A r \in Req : pc[r] = "admitted" => busy[slot[r]] /\ ~seeded_unowned[slot[r]]

\* No capacity leak: a busy slot has a guard that will release it, or is
\* still seeded and hence within reach of the reconciliation poll, whatever
\* wakes went to waiters that had already gone.
NoLeakedSlot ==
  \A s \in SlotIds : busy[s] => seeded_unowned[s] \/ \E r \in Req : Holds(r, s)

\* No lost wake-up for a specific slot: a request suspended for an existing
\* slot has its sender in that slot's queue, and the slot is busy; so by
\* NoLeakedSlot some release or reconciliation is still to come and wake it.
SpecificWaiterCovered ==
  \A r \in Req : pc[r] = "waiting" /\ Usable(hint[r]) =>
    LET s == hint[r].preferred IN busy[s] /\ r \in slot_waiters[s]

\* A request suspended for any slot has its sender in the global queue, and
\* a slot is free beside it only if the signal for that slot went to a
\* request that wants exactly it: one about to retry, or one whose client
\* hung up after the signal.
GlobalWaiterCovered ==
  \A r \in Req : pc[r] = "waiting" /\ ~Usable(hint[r]) =>
    /\ r \in global_waiters
    /\ \A s \in FreeSlots : \E q \in Req :
         /\ pc[q] \in {"woken", "left_woken"}
         /\ Usable(hint[q]) /\ hint[q].preferred = s

\* A dead sender never outlives the busy period it was queued in: when a slot
\* falls free, its whole queue is drained, the senders of waiters that timed
\* out or hung up included, so only the waiters of one busy period pile up.
FreeSlotHasNoQueue == \A s \in FreeSlots : slot_waiters[s] = {}

-----------------------------------------------------------------------------
\* What the queues, signals and retries implement: SlotPool over the slots.

PoolPhase(r) ==
  CASE pc[r] = "new" -> "idle"
    [] pc[r] \in {"waiting", "woken"} -> "queued"
    [] pc[r] = "admitted" -> "holding"
    [] pc[r] = "done" -> "done"
    [] OTHER -> "gone"

PoolWant(r) ==
  CASE pc[r] = "new" -> {}
    [] Usable(hint[r]) -> {hint[r].preferred}
    [] OTHER -> SlotIds

Pool == INSTANCE SlotPool WITH
  Slot <- SlotIds, Party <- Req, NoSlot <- NoSlot,
  phase <- [r \in Req |-> PoolPhase(r)],
  want <- [r \in Req |-> PoolWant(r)],
  held <- [r \in Req |-> IF pc[r] = "admitted" THEN slot[r] ELSE NoSlot],
  foreign <- {s \in SlotIds : busy[s] /\ \A r \in Req : ~Holds(r, s)}

\* admit(), release() and the reconciliation poll implement SlotPool: a
\* request queues only if nothing it may take is free, gets only a free slot
\* that it asked for, at most once, and a signal to a waiter reserves nothing.
ImplementsSlotPool == Pool!Spec

-----------------------------------------------------------------------------
\* Liveness, under FairSpec.

\* A queued request that names an existing slot and outlasts the queue is
\* admitted, even when other waiters for the slot hang up between being
\* signalled and retrying.
SpecificWaiterServed ==
  \A r \in Patient : pc[r] = "waiting" /\ Usable(hint[r]) ~> pc[r] = "admitted"

\* Any queued request that outlasts the queue is admitted, unless a
\* signalled request hung up and took its signal with it.
WaiterServedOrSignalLost ==
  \A r \in Patient :
    pc[r] = "waiting" ~> pc[r] = "admitted" \/ \E q \in Req : pc[q] = "left_woken"

-----------------------------------------------------------------------------
\* Statements of the documentation that the code does not keep.

\* README.md, "Honest tradeoffs": a waiter queued for one specific slot is
\* never pre-empted by a general waiter for that same slot.
NeverPreempted ==
  [][\A r, q \in Req :
       /\ pc[r] = "woken" /\ pc'[r] = "admitted" /\ ~Usable(hint[r])
       /\ pc[q] \in {"waiting", "woken"} /\ Usable(hint[q])
       => hint[q].preferred # slot'[r]]_vars

\* wake_waiters_for's comment: waking every queued waiter eliminates
\* entirely the window in which a signal that went to a dropped waiter leaves
\* another one starving until its own timeout beside a free slot.  So a
\* waiter that outlasts the queue is served, under FairSpec.
NoStarvation ==
  \A r \in Patient : pc[r] = "waiting" ~> pc[r] = "admitted"
=============================================================================
