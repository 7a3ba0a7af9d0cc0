--------------------------- MODULE SchedulerProofs ---------------------------
(***************************************************************************)
(* Proofs about the slot admission scheduler, for every number of slots,   *)
(* every set of requests and every set of hints.                           *)
(***************************************************************************)
EXTENDS Scheduler, WellFoundedInduction, TLAPS

-----------------------------------------------------------------------------
\* What the invariants below need besides themselves to be inductive.

\* An admitted request names an existing slot.
AdmittedHasSlot == \A r \in Req : pc[r] = "admitted" => slot[r] \in SlotIds

\* A sender sits only in the queue of the slot its request prefers.
QueuesMatchHints ==
  \A s \in SlotIds : \A q \in slot_waiters[s] :
    pc[q] # "new" /\ Usable(hint[q]) /\ hint[q].preferred = s

Ownership ==
  /\ AdmittedHasSlot
  /\ MutualExclusion
  /\ GuardedSlotsStayBusy
  /\ NoLeakedSlot

Waiters ==
  /\ QueuesMatchHints
  /\ SpecificWaiterCovered
  /\ GlobalWaiterCovered

-----------------------------------------------------------------------------
\* The helpers.

\* A non-empty set of naturals has a least element, which is what
\* min_by_key over the free slots rests on.
LEMMA LeastNatural ==
  ASSUME NEW S \in SUBSET Nat, S # {}
  PROVE  \E m \in S : \A n \in S : m <= n
<1>1. PICK m \in S : \A n \in S : <<n, m>> \notin OpToRel(<, Nat)
  BY WFMin, NatLessThanWellFounded
<1>2. \A n \in S : ~(n < m)
  BY <1>1 DEF OpToRel
<1> QED
  BY <1>2

\* try_admit_locked picks a free slot, and the preferred one if it exists.
LEMMA CandidatesAreFree ==
  ASSUME NEW h, NEW s \in Candidates(h)
  PROVE  /\ s \in SlotIds /\ ~busy[s]
         /\ Usable(h) => s = h.preferred
<1> QED
  BY DEF Candidates, FreeSlots, Lowest, LeastRecentlyUsed

\* try_admit_locked returns None only if the usable preferred slot is busy
\* or, without one, every slot is busy.
LEMMA NoCandidateMeansBusy ==
  ASSUME TypeOK, NEW h, Candidates(h) = {}
  PROVE  /\ Usable(h) => busy[h.preferred]
         /\ ~Usable(h) => FreeSlots = {}
<1>0. SlotIds \subseteq Nat
  BY SchedulerAssumption DEF SlotIds
<1>1. Usable(h) => busy[h.preferred]
  BY DEF Candidates, FreeSlots, Usable
<1>2. ASSUME ~Usable(h), FreeSlots # {}
      PROVE  FALSE
  <2>1. \A S \in SUBSET SlotIds : S # {} => Lowest(S) # {}
    BY <1>0, LeastNatural DEF Lowest
  <2>2. {last_used[s] : s \in FreeSlots} \in SUBSET Nat
    BY DEF TypeOK, FreeSlots
  <2>3. PICK m \in {last_used[s] : s \in FreeSlots} :
               \A n \in {last_used[s] : s \in FreeSlots} : m <= n
    BY <1>2, <2>2, LeastNatural
  <2>4. LeastRecentlyUsed # {}
    BY <2>3 DEF LeastRecentlyUsed
  <2>5. LeastRecentlyUsed \subseteq SlotIds
    BY DEF LeastRecentlyUsed, FreeSlots
  <2>6. {s \in FreeSlots : IsResidentIn(h, s)} \subseteq SlotIds
    BY DEF FreeSlots
  <2> QED
    BY <1>2, <2>1, <2>4, <2>5, <2>6 DEF Candidates
<1> QED
  BY <1>1, <1>2

\* What one call of wake_waiters_for does to the requests: every live sender
\* of the slot's queue is signalled; the global queue is either drained with
\* every live sender signalled, or left alone because a request queued for
\* the slot was signalled; nobody else changes.
LEMMA WakeEffect ==
  ASSUME TypeOK, NEW s \in SlotIds, NEW status0 \in [Req -> Status],
         WakeWaitersFor(s, status0)
  PROVE  /\ slot_waiters' \in [SlotIds -> SUBSET Req]
         /\ global_waiters' \in SUBSET Req
         /\ pc' \in [Req -> Status]
         /\ \A q \in Req : pc'[q] = status0[q] \/ (pc[q] = "waiting" /\ pc'[q] = "woken")
         /\ \A q \in slot_waiters[s] : pc[q] = "waiting" => pc'[q] = "woken"
         /\ \A t \in SlotIds : slot_waiters'[t] = IF t = s THEN {} ELSE slot_waiters[t]
         /\ \/ \A q \in global_waiters : pc[q] = "waiting" => pc'[q] = "woken"
            \/ /\ global_waiters' = global_waiters
               /\ \E q \in slot_waiters[s] : pc'[q] = "woken"
<1> DEFINE specific == Waiting(slot_waiters[s])
           woken == IF specific # {} THEN specific ELSE Waiting(global_waiters)
<1>1. /\ slot_waiters' = [slot_waiters EXCEPT ![s] = {}]
      /\ global_waiters' = IF specific # {} THEN global_waiters ELSE {}
      /\ pc' = [q \in Req |-> IF q \in woken THEN "woken" ELSE status0[q]]
  BY DEF WakeWaitersFor
<1>2. slot_waiters[s] \subseteq Req /\ global_waiters \subseteq Req
  BY DEF TypeOK
<1>3. \A q \in woken : q \in Req /\ pc[q] = "waiting"
  BY <1>2 DEF Waiting
<1>4. "woken" \in Status
  BY DEF Status
<1>5. /\ slot_waiters' \in [SlotIds -> SUBSET Req]
      /\ global_waiters' \in SUBSET Req
      /\ pc' \in [Req -> Status]
  BY <1>1, <1>2, <1>4 DEF TypeOK
<1>6. \A q \in Req : pc'[q] = status0[q] \/ (pc[q] = "waiting" /\ pc'[q] = "woken")
  BY <1>1, <1>3
<1>7. \A q \in slot_waiters[s] : pc[q] = "waiting" => pc'[q] = "woken"
  BY <1>1, <1>2 DEF Waiting
<1>8. \A t \in SlotIds : slot_waiters'[t] = IF t = s THEN {} ELSE slot_waiters[t]
  BY <1>1 DEF TypeOK
<1>9. CASE specific = {}
  <2>1. \A q \in global_waiters : pc[q] = "waiting" => pc'[q] = "woken"
    BY <1>1, <1>2, <1>9 DEF Waiting
  <2> QED
    BY <1>5, <1>6, <1>7, <1>8, <2>1
<1>10. CASE specific # {}
  <2>1. \E q \in slot_waiters[s] : pc'[q] = "woken"
    BY <1>1, <1>2, <1>10 DEF Waiting
  <2> QED
    BY <1>1, <1>5, <1>6, <1>7, <1>8, <1>10, <2>1
<1> QED
  BY <1>9, <1>10

-----------------------------------------------------------------------------
\* Type correctness.

\* One attempt of try_admit_locked, successful or queueing, keeps the types.
LEMMA TryAdmitType ==
  ASSUME TypeOK, NEW r \in Req, NEW h, TryAdmit(r, h)
  PROVE  /\ busy' \in [SlotIds -> BOOLEAN]
         /\ seeded_unowned' \in [SlotIds -> BOOLEAN]
         /\ resident' \in [SlotIds -> Resident \cup {NoResident}]
         /\ last_used' \in [SlotIds -> Nat]
         /\ clock' \in Nat
         /\ slot_waiters' \in [SlotIds -> SUBSET Req]
         /\ global_waiters' \in SUBSET Req
         /\ pc' \in [Req -> Status]
         /\ slot' \in [Req -> SlotIds \cup {NoSlot}]
         /\ cache_ready' \in [Req -> BOOLEAN]
<1>0. "admitted" \in Status /\ "waiting" \in Status
  BY DEF Status
<1>1. ASSUME NEW s \in Candidates(h), Claim(r, h, s)
      PROVE  /\ busy' \in [SlotIds -> BOOLEAN]
             /\ seeded_unowned' \in [SlotIds -> BOOLEAN]
             /\ resident' \in [SlotIds -> Resident \cup {NoResident}]
             /\ last_used' \in [SlotIds -> Nat]
             /\ clock' \in Nat
             /\ slot_waiters' \in [SlotIds -> SUBSET Req]
             /\ global_waiters' \in SUBSET Req
             /\ pc' \in [Req -> Status]
             /\ slot' \in [Req -> SlotIds \cup {NoSlot}]
             /\ cache_ready' \in [Req -> BOOLEAN]
  <2>1. s \in SlotIds
    BY CandidatesAreFree
  <2>2. IsResidentIn(h, s) \in BOOLEAN
    BY DEF IsResidentIn
  <2> QED
    BY <1>0, <1>1, <2>1, <2>2 DEF TypeOK, Claim, queueVars
<1>2. ASSUME Enqueue(r, h)
      PROVE  /\ UNCHANGED <<slotVars, slot, cache_ready>>
             /\ slot_waiters' \in [SlotIds -> SUBSET Req]
             /\ global_waiters' \in SUBSET Req
             /\ pc' \in [Req -> Status]
  BY <1>0, <1>2 DEF TypeOK, Enqueue
<1> QED
  BY <1>1, <1>2 DEF TryAdmit, TypeOK, slotVars

\* Every step keeps the types.
LEMMA TypeStep == TypeOK /\ [Next]_vars => TypeOK'
<1> SUFFICES ASSUME TypeOK, [Next]_vars PROVE TypeOK'
  OBVIOUS
<1>0. {"done", "timed_out", "left", "left_woken"} \subseteq Status
  BY DEF Status
<1>1. ASSUME NEW r \in Req, NEW h \in Hints, Arrive(r, h) PROVE TypeOK'
  <2>1. hint' \in [Req -> {NoHint} \cup SlotHint]
    BY <1>1, SchedulerAssumption DEF Arrive, TypeOK
  <2> QED
    BY <1>1, <2>1, TryAdmitType DEF Arrive, TypeOK
<1>2. ASSUME NEW r \in Req, Retry(r) PROVE TypeOK'
  BY <1>2, TryAdmitType DEF Retry, TypeOK
<1>3. ASSUME NEW r \in Req, TimeOut(r) PROVE TypeOK'
  BY <1>0, <1>3 DEF TimeOut, TypeOK, slotVars, queueVars
<1>4. ASSUME NEW r \in Req, HangUp(r) PROVE TypeOK'
  BY <1>0, <1>4 DEF HangUp, TypeOK, slotVars, queueVars
<1>5. ASSUME NEW r \in Req, Release(r) PROVE TypeOK'
  <2>1. busy' \in [SlotIds -> BOOLEAN]
    BY <1>5 DEF Release, TypeOK
  <2>2. [pc EXCEPT ![r] = "done"] \in [Req -> Status]
    BY <1>0 DEF TypeOK
  <2>3. /\ slot_waiters' \in [SlotIds -> SUBSET Req]
        /\ global_waiters' \in SUBSET Req
        /\ pc' \in [Req -> Status]
    <3>1. CASE slot[r] \in SlotIds
      BY <1>5, <2>2, <3>1, WakeEffect DEF Release
    <3>2. CASE slot[r] \notin SlotIds
      BY <1>5, <2>2, <3>2 DEF Release, WakeWaitersFor, TypeOK, Status
    <3> QED
      BY <3>1, <3>2
  <2> QED
    BY <1>5, <2>1, <2>3 DEF Release, TypeOK
<1>6. ASSUME NEW r \in Req, MarkResident(r) PROVE TypeOK'
  <2>1. [prefix |-> hint[r].prefix, model |-> hint[r].model] \in Resident
    BY <1>6 DEF MarkResident, TypeOK, SlotHint, Resident
  <2> QED
    BY <1>6, <2>1 DEF MarkResident, TypeOK, queueVars, reqVars
<1>7. ASSUME NEW r \in Req, ClearResident(r) PROVE TypeOK'
  BY <1>7 DEF ClearResident, TypeOK, queueVars, reqVars
<1>8. ASSUME NEW s \in SlotIds, ReconcileSeededIdle(s) PROVE TypeOK'
  <2>1. pc \in [Req -> Status]
    BY DEF TypeOK
  <2>2. /\ slot_waiters' \in [SlotIds -> SUBSET Req]
        /\ global_waiters' \in SUBSET Req
        /\ pc' \in [Req -> Status]
    BY <1>8, <2>1, WakeEffect DEF ReconcileSeededIdle
  <2> QED
    BY <1>8, <2>2 DEF ReconcileSeededIdle, TypeOK
<1>9. CASE UNCHANGED vars
  BY <1>9 DEF vars, slotVars, queueVars, reqVars, TypeOK
<1> QED
  BY <1>1, <1>2, <1>3, <1>4, <1>5, <1>6, <1>7, <1>8, <1>9 DEF Next

\* Initial states have the right types.
LEMMA TypeInit == Init => TypeOK
<1> QED
  BY DEF Init, Seed, TypeOK, Status

\* The scheduler's slot table, queues and requests always have the shape the
\* code's types give them.
THEOREM SchedulerTypeCorrect == Spec => []TypeOK
<1> QED
  BY TypeInit, TypeStep, PTL DEF Spec

-----------------------------------------------------------------------------
\* Slot ownership.

\* A step that moves no request into or out of a slot keeps ownership.
LEMMA NoOwnerChange ==
  ASSUME TypeOK, Ownership, UNCHANGED <<busy, seeded_unowned, slot>>,
         \A q \in Req : pc'[q] = "admitted" <=> pc[q] = "admitted"
  PROVE  Ownership'
<1> QED
  BY DEF Ownership, AdmittedHasSlot, MutualExclusion, GuardedSlotsStayBusy,
         NoLeakedSlot, Holds

\* An attempt keeps ownership: it takes a slot that is free, hence unowned.
LEMMA TryAdmitOwnership ==
  ASSUME TypeOK, Ownership, NEW r \in Req, NEW h, TryAdmit(r, h),
         pc[r] # "admitted"
  PROVE  Ownership'
<1>1. ASSUME NEW s \in Candidates(h), Claim(r, h, s) PROVE Ownership'
  <2>1. s \in SlotIds /\ ~busy[s]
    BY CandidatesAreFree
  <2>2. /\ busy' = [busy EXCEPT ![s] = TRUE]
        /\ seeded_unowned' = [seeded_unowned EXCEPT ![s] = FALSE]
        /\ pc' = [pc EXCEPT ![r] = "admitted"]
        /\ slot' = [slot EXCEPT ![r] = s]
    BY <1>1 DEF Claim
  <2>3. \A q \in Req : pc'[q] = "admitted" => q = r \/ (pc[q] = "admitted" /\ slot[q] # s)
    BY <2>1, <2>2 DEF TypeOK, Ownership, GuardedSlotsStayBusy
  <2>4. AdmittedHasSlot'
    BY <2>1, <2>2, <2>3 DEF TypeOK, Ownership, AdmittedHasSlot
  <2>5. MutualExclusion'
    BY <2>2, <2>3 DEF TypeOK, Ownership, MutualExclusion
  <2>6. GuardedSlotsStayBusy'
    BY <2>1, <2>2, <2>3 DEF TypeOK, Ownership, AdmittedHasSlot, GuardedSlotsStayBusy
  <2>7. NoLeakedSlot'
    <3> SUFFICES ASSUME NEW t \in SlotIds, busy'[t]
                 PROVE  seeded_unowned'[t] \/ \E q \in Req : Holds(q, t)'
      BY DEF NoLeakedSlot
    <3>1. CASE t = s
      BY <2>2, <3>1 DEF TypeOK, Holds
    <3>2. CASE t # s
      BY <2>2, <3>2 DEF TypeOK, Ownership, NoLeakedSlot, Holds
    <3> QED
      BY <3>1, <3>2
  <2> QED
    BY <2>4, <2>5, <2>6, <2>7 DEF Ownership
<1>2. ASSUME Enqueue(r, h) PROVE Ownership'
  <2>1. UNCHANGED <<busy, seeded_unowned, slot>>
    BY <1>2 DEF Enqueue, slotVars
  <2>2. \A q \in Req : pc'[q] = "admitted" <=> pc[q] = "admitted"
    BY <1>2 DEF Enqueue, TypeOK
  <2> QED
    BY <2>1, <2>2, NoOwnerChange
<1> QED
  BY <1>1, <1>2 DEF TryAdmit

\* Every step keeps ownership.
LEMMA OwnershipStep == TypeOK /\ Ownership /\ [Next]_vars => Ownership'
<1> SUFFICES ASSUME TypeOK, Ownership, [Next]_vars PROVE Ownership'
  OBVIOUS
<1>1. ASSUME NEW r \in Req, NEW h \in Hints, Arrive(r, h) PROVE Ownership'
  BY <1>1, TryAdmitOwnership DEF Arrive
<1>2. ASSUME NEW r \in Req, Retry(r) PROVE Ownership'
  BY <1>2, TryAdmitOwnership DEF Retry
<1>3. ASSUME NEW r \in Req, TimeOut(r) PROVE Ownership'
  <2>1. \A q \in Req : pc'[q] = "admitted" <=> pc[q] = "admitted"
    BY <1>3 DEF TimeOut, TypeOK
  <2> QED
    BY <1>3, <2>1, NoOwnerChange DEF TimeOut, slotVars
<1>4. ASSUME NEW r \in Req, HangUp(r) PROVE Ownership'
  <2>1. \A q \in Req : pc'[q] = "admitted" <=> pc[q] = "admitted"
    BY <1>4 DEF HangUp, TypeOK
  <2> QED
    BY <1>4, <2>1, NoOwnerChange DEF HangUp, slotVars
<1>5. ASSUME NEW r \in Req, Release(r) PROVE Ownership'
  <2> DEFINE s == slot[r]
             status0 == [pc EXCEPT ![r] = "done"]
  <2>1. s \in SlotIds
    BY <1>5 DEF Release, Ownership, AdmittedHasSlot
  <2>2. status0 \in [Req -> Status]
    BY DEF TypeOK, Status
  <2>3. \A q \in Req : pc'[q] = status0[q] \/ (pc[q] = "waiting" /\ pc'[q] = "woken")
    BY <1>5, <2>1, <2>2, WakeEffect DEF Release
  <2>4. \A q \in Req : pc'[q] = "admitted" <=> pc[q] = "admitted" /\ q # r
    BY <2>3 DEF TypeOK
  <2>5. \A q \in Req : pc'[q] = "admitted" => slot[q] # s
    BY <1>5, <2>4 DEF Release, Ownership, MutualExclusion
  <2>6. /\ busy' = [busy EXCEPT ![s] = FALSE]
        /\ UNCHANGED <<seeded_unowned, slot>>
    BY <1>5 DEF Release
  <2>7. AdmittedHasSlot' /\ MutualExclusion'
    BY <2>4, <2>6 DEF Ownership, AdmittedHasSlot, MutualExclusion
  <2>8. GuardedSlotsStayBusy'
    BY <2>4, <2>5, <2>6 DEF TypeOK, Ownership, AdmittedHasSlot, GuardedSlotsStayBusy
  <2>9. NoLeakedSlot'
    BY <2>1, <2>4, <2>6 DEF TypeOK, Ownership, NoLeakedSlot, Holds
  <2> QED
    BY <2>7, <2>8, <2>9 DEF Ownership
<1>6. ASSUME NEW r \in Req, MarkResident(r) PROVE Ownership'
  BY <1>6, NoOwnerChange DEF MarkResident, reqVars
<1>7. ASSUME NEW r \in Req, ClearResident(r) PROVE Ownership'
  BY <1>7, NoOwnerChange DEF ClearResident, reqVars
<1>8. ASSUME NEW s \in SlotIds, ReconcileSeededIdle(s) PROVE Ownership'
  <2>1. pc \in [Req -> Status]
    BY DEF TypeOK
  <2>2. \A q \in Req : pc'[q] = "admitted" <=> pc[q] = "admitted"
    BY <1>8, <2>1, WakeEffect DEF ReconcileSeededIdle
  <2>3. \A q \in Req : pc[q] = "admitted" => slot[q] # s
    BY <1>8 DEF ReconcileSeededIdle, Ownership, GuardedSlotsStayBusy
  <2>4. /\ busy' = [busy EXCEPT ![s] = FALSE]
        /\ UNCHANGED <<seeded_unowned, slot>>
    BY <1>8 DEF ReconcileSeededIdle
  <2>5. AdmittedHasSlot' /\ MutualExclusion'
    BY <2>2, <2>4 DEF Ownership, AdmittedHasSlot, MutualExclusion
  <2>6. GuardedSlotsStayBusy'
    BY <2>2, <2>3, <2>4 DEF TypeOK, Ownership, AdmittedHasSlot, GuardedSlotsStayBusy
  <2>7. NoLeakedSlot'
    BY <2>2, <2>4 DEF TypeOK, Ownership, NoLeakedSlot, Holds
  <2> QED
    BY <2>5, <2>6, <2>7 DEF Ownership
<1>9. CASE UNCHANGED vars
  BY <1>9, NoOwnerChange DEF vars, slotVars, queueVars, reqVars
<1> QED
  BY <1>1, <1>2, <1>3, <1>4, <1>5, <1>6, <1>7, <1>8, <1>9 DEF Next

\* Initially nothing is admitted and only seeded slots are busy.
LEMMA OwnershipInit == Init => Ownership
<1> QED
  BY DEF Init, Seed, Ownership, AdmittedHasSlot, MutualExclusion,
         GuardedSlotsStayBusy, NoLeakedSlot

\* A slot is never held by two requests: releases, wake races and the
\* reconciliation poll free a slot only when nobody holds it.
THEOREM SlotsAreExclusive == Spec => []MutualExclusion
<1>1. Ownership => MutualExclusion
  BY DEF Ownership
<1> QED
  BY <1>1, TypeInit, TypeStep, OwnershipInit, OwnershipStep, PTL DEF Spec

\* A slot whose guard is alive is busy and out of reach of
\* reconcile_seeded_idle.
THEOREM GuardsProtectSlots == Spec => []GuardedSlotsStayBusy
<1>1. Ownership => GuardedSlotsStayBusy
  BY DEF Ownership
<1> QED
  BY <1>1, TypeInit, TypeStep, OwnershipInit, OwnershipStep, PTL DEF Spec

\* No slot is leaked: a busy slot has a holder or is still seeded, whatever
\* waiters were dropped and whenever.
THEOREM NoSlotLeaks == Spec => []NoLeakedSlot
<1>1. Ownership => NoLeakedSlot
  BY DEF Ownership
<1> QED
  BY <1>1, TypeInit, TypeStep, OwnershipInit, OwnershipStep, PTL DEF Spec

-----------------------------------------------------------------------------
\* No lost wake-ups.

\* A step that leaves the slots, the queues and the hints alone and at most
\* takes requests out of waiting, or lets a signalled one leave, keeps the
\* waiters covered.
LEMMA NoNewWaiter ==
  ASSUME TypeOK, Waiters, UNCHANGED <<busy, slot_waiters, global_waiters, hint>>,
         \A q \in Req : /\ pc'[q] = "waiting" => pc[q] = "waiting"
                        /\ pc'[q] = "new" => pc[q] = "new"
                        /\ pc[q] \in {"woken", "left_woken"} =>
                             pc'[q] \in {"woken", "left_woken"}
  PROVE  Waiters'
<1>1. \A s \in SlotIds : slot_waiters[s] \subseteq Req
  BY DEF TypeOK
<1>2. QueuesMatchHints'
  BY <1>1 DEF Waiters, QueuesMatchHints, Usable
<1>3. SpecificWaiterCovered'
  BY DEF Waiters, SpecificWaiterCovered, Usable
<1>4. GlobalWaiterCovered'
  BY DEF Waiters, GlobalWaiterCovered, Usable, FreeSlots
<1> QED
  BY <1>2, <1>3, <1>4 DEF Waiters

\* An attempt keeps the waiters covered: it queues a request only while no
\* slot suits it, and a signalled request that fails again does so because
\* the slot it was signalled for is busy.
LEMMA TryAdmitWaiters ==
  ASSUME TypeOK, Waiters, NEW r \in Req, NEW h, TryAdmit(r, h),
         hint' = [hint EXCEPT ![r] = h],
         pc[r] = "new" \/ (pc[r] = "woken" /\ h = hint[r])
  PROVE  Waiters'
<1>0. /\ hint'[r] = h
      /\ \A q \in Req : q # r => hint'[q] = hint[q]
      /\ \A s \in SlotIds : slot_waiters[s] \subseteq Req
  BY DEF TypeOK
<1>1. ASSUME NEW c \in Candidates(h), Claim(r, h, c) PROVE Waiters'
  <2>1. c \in SlotIds /\ (Usable(h) => c = h.preferred)
    BY CandidatesAreFree
  <2>2. /\ UNCHANGED <<slot_waiters, global_waiters>>
        /\ busy' = [busy EXCEPT ![c] = TRUE]
        /\ pc'[r] = "admitted"
        /\ \A q \in Req : q # r => pc'[q] = pc[q]
    BY <1>1 DEF Claim, queueVars, TypeOK
  <2>3. QueuesMatchHints'
    BY <1>0, <2>2 DEF Waiters, QueuesMatchHints, Usable
  <2>4. SpecificWaiterCovered'
    BY <1>0, <2>1, <2>2 DEF Waiters, SpecificWaiterCovered, Usable, TypeOK
  <2>5. ASSUME NEW q \in Req, pc'[q] = "waiting", ~Usable(hint'[q])
        PROVE  /\ q \in global_waiters'
               /\ \A s \in FreeSlots' : \E p \in Req :
                    /\ pc'[p] \in {"woken", "left_woken"}
                    /\ Usable(hint'[p]) /\ hint'[p].preferred = s
    <3>1. q # r /\ pc[q] = "waiting" /\ ~Usable(hint[q])
      BY <1>0, <2>2, <2>5
    <3>2. q \in global_waiters'
      BY <2>2, <3>1 DEF Waiters, GlobalWaiterCovered
    <3>3. ASSUME NEW s \in FreeSlots'
          PROVE  \E p \in Req : /\ pc'[p] \in {"woken", "left_woken"}
                                /\ Usable(hint'[p]) /\ hint'[p].preferred = s
      <4>1. s \in FreeSlots /\ s # c
        BY <2>1, <2>2, <3>3 DEF FreeSlots, TypeOK
      <4>2. PICK p \in Req : /\ pc[p] \in {"woken", "left_woken"}
                             /\ Usable(hint[p]) /\ hint[p].preferred = s
        BY <3>1, <4>1 DEF Waiters, GlobalWaiterCovered
      <4>3. p # r
        BY <2>1, <4>1, <4>2
      <4> QED
        BY <1>0, <2>2, <4>2, <4>3
    <3> QED
      BY <3>2, <3>3
  <2>6. GlobalWaiterCovered'
    BY <2>5 DEF GlobalWaiterCovered, Usable
  <2> QED
    BY <2>3, <2>4, <2>6 DEF Waiters
<1>2. ASSUME Candidates(h) = {}, Enqueue(r, h) PROVE Waiters'
  <2>1. /\ Usable(h) => busy[h.preferred]
        /\ ~Usable(h) => FreeSlots = {}
    BY <1>2, NoCandidateMeansBusy
  <2>2. /\ busy' = busy
        /\ pc'[r] = "waiting"
        /\ \A q \in Req : q # r => pc'[q] = pc[q]
    BY <1>2 DEF Enqueue, slotVars, TypeOK
  <2>3. /\ \A s \in SlotIds : slot_waiters[s] \subseteq slot_waiters'[s]
        /\ \A s \in SlotIds : \A q \in slot_waiters'[s] :
             q \in slot_waiters[s] \/ (q = r /\ Usable(h) /\ h.preferred = s)
        /\ Usable(h) => r \in slot_waiters'[h.preferred]
        /\ global_waiters \subseteq global_waiters'
        /\ ~Usable(h) => r \in global_waiters'
    <3>1. CASE Usable(h)
      BY <1>2, <3>1 DEF Enqueue, TypeOK, Usable
    <3>2. CASE ~Usable(h)
      BY <1>2, <3>2 DEF Enqueue
    <3> QED
      BY <3>1, <3>2
  <2>4. QueuesMatchHints'
    <3> SUFFICES ASSUME NEW s \in SlotIds, NEW q \in slot_waiters'[s]
                 PROVE  pc'[q] # "new" /\ Usable(hint'[q]) /\ hint'[q].preferred = s
      BY DEF QueuesMatchHints, Usable
    <3>1. CASE q \in slot_waiters[s]
      <4>1. q \in Req /\ pc[q] # "new" /\ Usable(hint[q]) /\ hint[q].preferred = s
        BY <1>0, <3>1 DEF Waiters, QueuesMatchHints
      <4> QED
        BY <1>0, <2>2, <4>1
    <3>2. CASE q \notin slot_waiters[s]
      <4>1. q = r /\ Usable(h) /\ s = h.preferred
        BY <2>3, <3>2
      <4> QED
        BY <1>0, <2>2, <4>1
    <3> QED
      BY <3>1, <3>2
  <2>5. SpecificWaiterCovered'
    <3> SUFFICES ASSUME NEW q \in Req, pc'[q] = "waiting", Usable(hint'[q])
                 PROVE  /\ busy'[hint'[q].preferred]
                        /\ q \in slot_waiters'[hint'[q].preferred]
      BY DEF SpecificWaiterCovered, Usable
    <3>0. hint'[q].preferred \in SlotIds
      BY DEF Usable
    <3>1. CASE q = r
      BY <1>0, <2>1, <2>2, <2>3, <3>0, <3>1
    <3>2. CASE q # r
      <4>1. /\ pc[q] = "waiting" /\ hint'[q] = hint[q]
            /\ busy[hint[q].preferred] /\ q \in slot_waiters[hint[q].preferred]
        BY <1>0, <2>2, <3>2 DEF Waiters, SpecificWaiterCovered
      <4> QED
        BY <2>2, <2>3, <3>0, <4>1
    <3> QED
      BY <3>1, <3>2
  <2>6. ASSUME NEW q \in Req, pc'[q] = "waiting", ~Usable(hint'[q])
        PROVE  /\ q \in global_waiters'
               /\ \A s \in FreeSlots' : \E p \in Req :
                    /\ pc'[p] \in {"woken", "left_woken"}
                    /\ Usable(hint'[p]) /\ hint'[p].preferred = s
    <3>0. FreeSlots' = FreeSlots
      BY <2>2 DEF FreeSlots
    <3>1. CASE q = r
      BY <1>0, <2>1, <2>3, <2>6, <3>0, <3>1
    <3>2. CASE q # r
      <4>1. pc[q] = "waiting" /\ ~Usable(hint[q])
        BY <1>0, <2>2, <2>6, <3>2
      <4>2. q \in global_waiters'
        BY <2>3, <4>1 DEF Waiters, GlobalWaiterCovered
      <4>3. ASSUME NEW s \in FreeSlots
            PROVE  \E p \in Req : /\ pc'[p] \in {"woken", "left_woken"}
                                  /\ Usable(hint'[p]) /\ hint'[p].preferred = s
        <5>1. PICK p \in Req : /\ pc[p] \in {"woken", "left_woken"}
                               /\ Usable(hint[p]) /\ hint[p].preferred = s
          BY <4>1, <4>3 DEF Waiters, GlobalWaiterCovered
        <5>2. p # r
          BY <2>1, <4>3, <5>1 DEF FreeSlots
        <5> QED
          BY <1>0, <2>2, <5>1, <5>2
      <4> QED
        BY <3>0, <4>2, <4>3
    <3> QED
      BY <3>1, <3>2
  <2>7. GlobalWaiterCovered'
    BY <2>6 DEF GlobalWaiterCovered, Usable
  <2> QED
    BY <2>4, <2>5, <2>7 DEF Waiters
<1> QED
  BY <1>1, <1>2 DEF TryAdmit

\* Freeing a slot together with its wake keeps the waiters covered: whoever
\* was queued for the slot is signalled, and the general waiters are passed
\* over only when one of those was.
LEMMA WakeCovers ==
  ASSUME TypeOK, Waiters, NEW s \in SlotIds, NEW status0 \in [Req -> Status],
         WakeWaitersFor(s, status0),
         busy' = [busy EXCEPT ![s] = FALSE], hint' = hint,
         \A q \in Req : status0[q] = pc[q] \/ (pc[q] = "admitted" /\ status0[q] = "done")
  PROVE  Waiters'
<1>1. /\ \A q \in Req : pc'[q] = status0[q] \/ (pc[q] = "waiting" /\ pc'[q] = "woken")
      /\ \A q \in slot_waiters[s] : pc[q] = "waiting" => pc'[q] = "woken"
      /\ \A t \in SlotIds : slot_waiters'[t] = IF t = s THEN {} ELSE slot_waiters[t]
      /\ \/ \A q \in global_waiters : pc[q] = "waiting" => pc'[q] = "woken"
         \/ /\ global_waiters' = global_waiters
            /\ \E q \in slot_waiters[s] : pc'[q] = "woken"
  BY WakeEffect
<1>2. /\ \A t \in SlotIds : slot_waiters[t] \subseteq Req
      /\ \A q \in Req : /\ pc'[q] = "waiting" => pc[q] = "waiting"
                        /\ pc'[q] = "new" => pc[q] = "new"
                        /\ pc[q] \in {"woken", "left_woken"} => pc'[q] = pc[q]
  BY <1>1 DEF TypeOK
<1>3. QueuesMatchHints'
  BY <1>1, <1>2 DEF Waiters, QueuesMatchHints, Usable
<1>4. SpecificWaiterCovered'
  <2> SUFFICES ASSUME NEW q \in Req, pc'[q] = "waiting", Usable(hint[q])
               PROVE  busy'[hint[q].preferred] /\ q \in slot_waiters'[hint[q].preferred]
    BY DEF SpecificWaiterCovered, Usable
  <2>1. /\ hint[q].preferred \in SlotIds
        /\ busy[hint[q].preferred]
        /\ q \in slot_waiters[hint[q].preferred]
    BY <1>2 DEF Waiters, SpecificWaiterCovered, Usable
  <2>2. hint[q].preferred # s
    BY <1>1, <1>2, <2>1
  <2> QED
    BY <1>1, <2>1, <2>2 DEF TypeOK
<1>5. ASSUME NEW q \in Req, pc'[q] = "waiting", ~Usable(hint[q])
      PROVE  /\ q \in global_waiters'
             /\ \A t \in FreeSlots' : \E p \in Req :
                  /\ pc'[p] \in {"woken", "left_woken"}
                  /\ Usable(hint[p]) /\ hint[p].preferred = t
  <2>1. pc[q] = "waiting" /\ q \in global_waiters
    BY <1>2, <1>5 DEF Waiters, GlobalWaiterCovered
  <2>2. /\ global_waiters' = global_waiters
        /\ \E p \in slot_waiters[s] : pc'[p] = "woken"
    BY <1>1, <1>5, <2>1
  <2>3. ASSUME NEW t \in FreeSlots'
        PROVE  \E p \in Req : /\ pc'[p] \in {"woken", "left_woken"}
                              /\ Usable(hint[p]) /\ hint[p].preferred = t
    <3>1. CASE t = s
      BY <1>2, <2>2, <3>1 DEF Waiters, QueuesMatchHints
    <3>2. CASE t # s
      <4>1. t \in FreeSlots
        BY <2>3, <3>2 DEF FreeSlots, TypeOK
      <4> QED
        BY <1>2, <1>5, <2>1, <4>1 DEF Waiters, GlobalWaiterCovered
    <3> QED
      BY <3>1, <3>2
  <2> QED
    BY <2>1, <2>2, <2>3
<1>6. GlobalWaiterCovered'
  BY <1>5 DEF GlobalWaiterCovered, Usable
<1> QED
  BY <1>3, <1>4, <1>6 DEF Waiters

\* Every step keeps the waiters covered.
LEMMA WaitersStep == TypeOK /\ Ownership /\ Waiters /\ [Next]_vars => Waiters'
<1> SUFFICES ASSUME TypeOK, Ownership, Waiters, [Next]_vars PROVE Waiters'
  OBVIOUS
<1>1. ASSUME NEW r \in Req, NEW h \in Hints, Arrive(r, h) PROVE Waiters'
  BY <1>1, TryAdmitWaiters DEF Arrive
<1>2. ASSUME NEW r \in Req, Retry(r) PROVE Waiters'
  <2>1. hint' = [hint EXCEPT ![r] = hint[r]]
    BY <1>2 DEF Retry, TypeOK
  <2> QED
    BY <1>2, <2>1, TryAdmitWaiters DEF Retry
<1>3. ASSUME NEW r \in Req, TimeOut(r) PROVE Waiters'
  <2>1. UNCHANGED <<busy, slot_waiters, global_waiters, hint>>
    BY <1>3 DEF TimeOut, slotVars, queueVars
  <2>2. \A q \in Req : pc'[q] = pc[q] \/ (pc[q] = "waiting" /\ pc'[q] = "timed_out")
    BY <1>3 DEF TimeOut, TypeOK
  <2> QED
    BY <2>1, <2>2, NoNewWaiter
<1>4. ASSUME NEW r \in Req, HangUp(r) PROVE Waiters'
  <2>1. UNCHANGED <<busy, slot_waiters, global_waiters, hint>>
    BY <1>4 DEF HangUp, slotVars, queueVars
  <2>2. \A q \in Req : \/ pc'[q] = pc[q]
                       \/ pc[q] = "waiting" /\ pc'[q] = "left"
                       \/ pc[q] = "woken" /\ pc'[q] = "left_woken"
    BY <1>4 DEF HangUp, TypeOK
  <2> QED
    BY <2>1, <2>2, NoNewWaiter
<1>5. ASSUME NEW r \in Req, Release(r) PROVE Waiters'
  <2> DEFINE status0 == [pc EXCEPT ![r] = "done"]
  <2>1. slot[r] \in SlotIds
    BY <1>5 DEF Release, Ownership, AdmittedHasSlot
  <2>2. status0 \in [Req -> Status]
    BY DEF TypeOK, Status
  <2>3. \A q \in Req : status0[q] = pc[q] \/ (pc[q] = "admitted" /\ status0[q] = "done")
    BY <1>5 DEF Release, TypeOK
  <2>4. /\ WakeWaitersFor(slot[r], status0)
        /\ busy' = [busy EXCEPT ![slot[r]] = FALSE]
        /\ hint' = hint
    BY <1>5 DEF Release
  <2> HIDE DEF status0
  <2> QED
    BY <2>1, <2>2, <2>3, <2>4, WakeCovers
<1>6. ASSUME NEW r \in Req, MarkResident(r) PROVE Waiters'
  BY <1>6, NoNewWaiter DEF MarkResident, queueVars, reqVars
<1>7. ASSUME NEW r \in Req, ClearResident(r) PROVE Waiters'
  BY <1>7, NoNewWaiter DEF ClearResident, queueVars, reqVars
<1>8. ASSUME NEW s \in SlotIds, ReconcileSeededIdle(s) PROVE Waiters'
  <2>1. pc \in [Req -> Status]
    BY DEF TypeOK
  <2> QED
    BY <1>8, <2>1, WakeCovers DEF ReconcileSeededIdle
<1>9. CASE UNCHANGED vars
  BY <1>9, NoNewWaiter DEF vars, slotVars, queueVars, reqVars
<1> QED
  BY <1>1, <1>2, <1>3, <1>4, <1>5, <1>6, <1>7, <1>8, <1>9 DEF Next

\* Initially nobody waits.
LEMMA WaitersInit == Init => Waiters
<1> QED
  BY DEF Init, Seed, Waiters, QueuesMatchHints, SpecificWaiterCovered,
         GlobalWaiterCovered

\* No request waits for a specific slot that is free: its sender is queued
\* there and the slot is busy.
THEOREM SpecificWaitersAreCovered == Spec => []SpecificWaiterCovered
<1>1. Waiters => SpecificWaiterCovered
  BY DEF Waiters
<1> QED
  BY <1>1, TypeInit, TypeStep, OwnershipInit, OwnershipStep, WaitersInit,
     WaitersStep, PTL DEF Spec

\* No request waits for any slot while one is free, except beside a signal
\* that was sent to a request wanting exactly that slot.
THEOREM GlobalWaitersAreCovered == Spec => []GlobalWaiterCovered
<1>1. Waiters => GlobalWaiterCovered
  BY DEF Waiters
<1> QED
  BY <1>1, TypeInit, TypeStep, OwnershipInit, OwnershipStep, WaitersInit,
     WaitersStep, PTL DEF Spec

\* An admission takes no slot that another request is suspended for.
TakesUnwantedSlot ==
  \A r, q \in Req :
    /\ pc[r] # "admitted" /\ pc'[r] = "admitted"
    /\ pc[q] = "waiting" /\ Usable(hint[q])
    => hint[q].preferred # slot'[r]

\* Only a claim admits a request, and it claims a free slot.
LEMMA OnlyClaimsAdmit ==
  ASSUME TypeOK, Ownership, [Next]_vars, NEW r \in Req,
         pc[r] # "admitted", pc'[r] = "admitted"
  PROVE  slot'[r] \in SlotIds /\ ~busy[slot'[r]]
<1>1. ASSUME NEW q \in Req, NEW h, TryAdmit(q, h)
      PROVE  slot'[r] \in SlotIds /\ ~busy[slot'[r]]
  <2>1. ASSUME NEW s \in Candidates(h), Claim(q, h, s)
        PROVE  slot'[r] \in SlotIds /\ ~busy[slot'[r]]
    <3>1. s \in SlotIds /\ ~busy[s]
      BY CandidatesAreFree
    <3>2. r = q /\ slot'[r] = s
      BY <2>1 DEF Claim, TypeOK
    <3> QED
      BY <3>1, <3>2
  <2>2. ~Enqueue(q, h)
    BY DEF Enqueue, TypeOK
  <2> QED
    BY <1>1, <2>1, <2>2 DEF TryAdmit
<1>2. ~ \E q \in Req : TimeOut(q) \/ HangUp(q)
  BY DEF TimeOut, HangUp, TypeOK
<1>3. ASSUME NEW q \in Req, Release(q) PROVE FALSE
  <2> DEFINE status0 == [pc EXCEPT ![q] = "done"]
  <2>1. WakeWaitersFor(slot[q], status0) /\ slot[q] \in SlotIds
    BY <1>3 DEF Release, Ownership, AdmittedHasSlot
  <2>2. status0 \in [Req -> Status] /\ status0[r] # "admitted"
    BY DEF TypeOK, Status
  <2>3. pc'[r] = IF r \in (IF Waiting(slot_waiters[slot[q]]) # {}
                           THEN Waiting(slot_waiters[slot[q]])
                           ELSE Waiting(global_waiters))
                THEN "woken" ELSE status0[r]
    BY <2>1 DEF WakeWaitersFor
  <2> HIDE DEF status0
  <2> QED
    BY <2>2, <2>3
<1>4. ~ \E q \in Req : MarkResident(q) \/ ClearResident(q)
  BY DEF MarkResident, ClearResident, reqVars
<1>5. ASSUME NEW s \in SlotIds, ReconcileSeededIdle(s) PROVE FALSE
  BY <1>5 DEF ReconcileSeededIdle, WakeWaitersFor
<1>6. ~ UNCHANGED vars
  BY DEF vars, reqVars
<1> QED
  BY <1>1, <1>2, <1>3, <1>4, <1>5, <1>6 DEF Next, Arrive, Retry

\* How far NeverPreempted holds: whoever is admitted, waiter or newcomer,
\* takes no slot that a request is still suspended for.  Only a waiter that
\* was signalled already, and is yet to be polled, can be overtaken.
THEOREM SuspendedWaitersAreNotOvertaken == Spec => [][TakesUnwantedSlot]_vars
<1>1. TypeOK /\ Ownership /\ Waiters /\ [Next]_vars => [TakesUnwantedSlot]_vars
  <2> SUFFICES ASSUME TypeOK, Ownership, Waiters, [Next]_vars,
                      NEW r \in Req, NEW q \in Req,
                      pc[r] # "admitted", pc'[r] = "admitted",
                      pc[q] = "waiting", Usable(hint[q])
               PROVE  hint[q].preferred # slot'[r]
    BY DEF TakesUnwantedSlot
  <2>1. busy[hint[q].preferred]
    BY DEF Waiters, SpecificWaiterCovered
  <2> QED
    BY <2>1, OnlyClaimsAdmit
<1> QED
  BY <1>1, TypeInit, TypeStep, OwnershipInit, OwnershipStep, WaitersInit, WaitersStep, PTL
     DEF Spec

-----------------------------------------------------------------------------
\* Dead senders.

\* An attempt keeps free slots free of queued senders: a sender is queued
\* only for a slot that is busy, and a claim only makes a slot busy.
LEMMA TryAdmitNoQueue ==
  ASSUME TypeOK, FreeSlotHasNoQueue, NEW r \in Req, NEW h, TryAdmit(r, h)
  PROVE  FreeSlotHasNoQueue'
<1>1. ASSUME NEW s \in Candidates(h), Claim(r, h, s) PROVE FreeSlotHasNoQueue'
  <2>1. FreeSlots' \subseteq FreeSlots /\ slot_waiters' = slot_waiters
    BY <1>1 DEF Claim, queueVars, FreeSlots, TypeOK
  <2> QED
    BY <2>1 DEF FreeSlotHasNoQueue
<1>2. ASSUME Candidates(h) = {}, Enqueue(r, h) PROVE FreeSlotHasNoQueue'
  <2>1. FreeSlots' = FreeSlots
    BY <1>2 DEF Enqueue, slotVars, FreeSlots
  <2>2. \A s \in FreeSlots : slot_waiters'[s] = slot_waiters[s]
    <3>1. CASE Usable(h)
      <4>1. h.preferred \notin FreeSlots
        BY <1>2, <3>1, NoCandidateMeansBusy DEF FreeSlots
      <4> QED
        BY <1>2, <3>1, <4>1 DEF Enqueue, TypeOK, FreeSlots
    <3>2. CASE ~Usable(h)
      BY <1>2, <3>2 DEF Enqueue
    <3> QED
      BY <3>1, <3>2
  <2> QED
    BY <2>1, <2>2 DEF FreeSlotHasNoQueue
<1> QED
  BY <1>1, <1>2 DEF TryAdmit

\* Freeing a slot together with its wake drains the slot's queue.
LEMMA WakeDrains ==
  ASSUME TypeOK, FreeSlotHasNoQueue, NEW s \in SlotIds,
         NEW status0 \in [Req -> Status], WakeWaitersFor(s, status0),
         busy' = [busy EXCEPT ![s] = FALSE]
  PROVE  FreeSlotHasNoQueue'
<1>1. \A t \in SlotIds : slot_waiters'[t] = IF t = s THEN {} ELSE slot_waiters[t]
  BY WakeEffect
<1>2. \A t \in FreeSlots' : t = s \/ t \in FreeSlots
  BY DEF FreeSlots, TypeOK
<1> QED
  BY <1>1, <1>2 DEF FreeSlotHasNoQueue, FreeSlots

\* Every step keeps free slots free of queued senders.
LEMMA NoQueueStep ==
  TypeOK /\ Ownership /\ FreeSlotHasNoQueue /\ [Next]_vars => FreeSlotHasNoQueue'
<1> SUFFICES ASSUME TypeOK, Ownership, FreeSlotHasNoQueue, [Next]_vars
             PROVE  FreeSlotHasNoQueue'
  OBVIOUS
<1>1. ASSUME NEW r \in Req, NEW h \in Hints, Arrive(r, h) PROVE FreeSlotHasNoQueue'
  BY <1>1, TryAdmitNoQueue DEF Arrive
<1>2. ASSUME NEW r \in Req, Retry(r) PROVE FreeSlotHasNoQueue'
  BY <1>2, TryAdmitNoQueue DEF Retry
<1>3. ASSUME UNCHANGED <<busy, slot_waiters>> PROVE FreeSlotHasNoQueue'
  BY <1>3 DEF FreeSlotHasNoQueue, FreeSlots
<1>4. ASSUME NEW r \in Req, TimeOut(r) \/ HangUp(r) PROVE UNCHANGED <<busy, slot_waiters>>
  BY <1>4 DEF TimeOut, HangUp, slotVars, queueVars
<1>5. ASSUME NEW r \in Req, Release(r) PROVE FreeSlotHasNoQueue'
  <2> DEFINE status0 == [pc EXCEPT ![r] = "done"]
  <2>1. slot[r] \in SlotIds
    BY <1>5 DEF Release, Ownership, AdmittedHasSlot
  <2>2. status0 \in [Req -> Status]
    BY DEF TypeOK, Status
  <2>3. /\ WakeWaitersFor(slot[r], status0)
        /\ busy' = [busy EXCEPT ![slot[r]] = FALSE]
    BY <1>5 DEF Release
  <2> HIDE DEF status0
  <2> QED
    BY <2>1, <2>2, <2>3, WakeDrains
<1>6. ASSUME NEW r \in Req, MarkResident(r) \/ ClearResident(r)
      PROVE  UNCHANGED <<busy, slot_waiters>>
  BY <1>6 DEF MarkResident, ClearResident, queueVars
<1>7. ASSUME NEW s \in SlotIds, ReconcileSeededIdle(s) PROVE FreeSlotHasNoQueue'
  <2>1. pc \in [Req -> Status]
    BY DEF TypeOK
  <2> QED
    BY <1>7, <2>1, WakeDrains DEF ReconcileSeededIdle
<1>8. CASE UNCHANGED vars
  BY <1>3, <1>8 DEF vars, slotVars, queueVars
<1> QED
  BY <1>1, <1>2, <1>3, <1>4, <1>5, <1>6, <1>7, <1>8 DEF Next

\* A dead sender never outlives the busy period it was queued in: the queue
\* of a free slot is empty.
THEOREM FreeSlotsHaveNoQueue == Spec => []FreeSlotHasNoQueue
<1>1. Init => FreeSlotHasNoQueue
  BY DEF Init, Seed, FreeSlotHasNoQueue, FreeSlots
<1> QED
  BY <1>1, TypeInit, TypeStep, OwnershipInit, OwnershipStep, NoQueueStep, PTL DEF Spec

-----------------------------------------------------------------------------
(***************************************************************************)
(* The scheduler implements SlotPool: its queues, signals and retries      *)
(* amount to asking, being granted, leaving and giving back.               *)
(***************************************************************************)

\* The expressions that Scheduler substitutes for SlotPool's variables.
PhaseBar == [r \in Req |-> PoolPhase(r)]
WantBar == [r \in Req |-> PoolWant(r)]
HeldBar == [r \in Req |-> IF pc[r] = "admitted" THEN slot[r] ELSE NoSlot]
ForeignBar == {s \in SlotIds : busy[s] /\ \A r \in Req : ~Holds(r, s)}

-----------------------------------------------------------------------------
\* A slot taken by work that no request asked for is one that was seeded busy
\* and not reconciled yet.
LEMMA ForeignIsSeeded ==
  Ownership => ForeignBar = {s \in SlotIds : busy[s] /\ seeded_unowned[s]}
<1> QED
  BY DEF Ownership, GuardedSlotsStayBusy, NoLeakedSlot, ForeignBar, Holds

\* A slot is free for SlotPool exactly if its busy flag is off.
LEMMA FreeIsNotBusy ==
  ASSUME Ownership, NEW s \in SlotIds
  PROVE  Pool!Free(s) <=> ~busy[s]
<1>0. s # NoSlot
  BY SchedulerAssumption DEF SlotIds
<1>1. Pool!Free(s) <=> s \notin ForeignBar /\ \A q \in Req : HeldBar[q] # s
  BY DEF Pool!Free, ForeignBar, HeldBar
<1>2. ASSUME busy[s], s \notin ForeignBar PROVE \E q \in Req : HeldBar[q] = s
  BY <1>2 DEF ForeignBar, HeldBar, Holds
<1>3. ASSUME ~busy[s] PROVE s \notin ForeignBar /\ \A q \in Req : HeldBar[q] # s
  BY <1>0, <1>3 DEF ForeignBar, HeldBar, Ownership, GuardedSlotsStayBusy
<1> QED
  BY <1>1, <1>2, <1>3

\* The slots a hint admits: what SlotPool calls the wants of a request.
Wants(h) == IF Usable(h) THEN {h.preferred} ELSE SlotIds

\* A claim takes for r a slot that its hint admits, and nothing else.
LEMMA ClaimTakes ==
  ASSUME TypeOK, Ownership, Ownership', NEW r \in Req, NEW h,
         NEW s \in Candidates(h), Claim(r, h, s),
         pc[r] \in {"new", "woken"}
  PROVE  /\ s \in Wants(h)
         /\ Pool!Take(r, s)
         /\ UNCHANGED ForeignBar
<1>1. s \in SlotIds /\ ~busy[s] /\ s \in Wants(h)
  BY CandidatesAreFree DEF Wants
<1>2. Pool!Free(s)
  BY <1>1, FreeIsNotBusy
<1>3. /\ pc' = [pc EXCEPT ![r] = "admitted"]
      /\ slot' = [slot EXCEPT ![r] = s]
      /\ busy' = [busy EXCEPT ![s] = TRUE]
      /\ seeded_unowned' = [seeded_unowned EXCEPT ![s] = FALSE]
  BY DEF Claim
<1>4. PhaseBar' = [PhaseBar EXCEPT ![r] = "holding"]
  BY <1>3 DEF PhaseBar, PoolPhase, TypeOK
<1>5. HeldBar' = [HeldBar EXCEPT ![r] = s]
  BY <1>3 DEF HeldBar, TypeOK
<1>6. ForeignBar' = ForeignBar
  <2>1. ForeignBar = {t \in SlotIds : busy[t] /\ seeded_unowned[t]}
    BY ForeignIsSeeded
  <2>2. ForeignBar' = {t \in SlotIds : busy'[t] /\ seeded_unowned'[t]}
    BY DEF Ownership, GuardedSlotsStayBusy, NoLeakedSlot, ForeignBar, Holds
  <2> QED
    BY <1>1, <1>3, <2>1, <2>2 DEF TypeOK
<1> QED
  BY <1>1, <1>2, <1>4, <1>5, <1>6 DEF Pool!Take, PhaseBar, HeldBar

\* A step that changes neither the slot table nor who is admitted changes
\* neither what is held nor what is foreign.
LEMMA SameHolders ==
  ASSUME UNCHANGED <<busy, slot>>,
         \A q \in Req : pc'[q] = "admitted" <=> pc[q] = "admitted"
  PROVE  UNCHANGED <<HeldBar, ForeignBar>>
<1> QED
  BY DEF HeldBar, ForeignBar, Holds

\* An attempt that queues r happens only while nothing r wants is free.
LEMMA EnqueueWaits ==
  ASSUME TypeOK, Ownership, NEW r \in Req, NEW h, Candidates(h) = {},
         Enqueue(r, h), pc[r] \in {"new", "woken"}
  PROVE  /\ \A s \in Wants(h) : ~Pool!Free(s)
         /\ PhaseBar' = [PhaseBar EXCEPT ![r] = "queued"]
         /\ UNCHANGED <<HeldBar, ForeignBar>>
<1>1. /\ Usable(h) => busy[h.preferred]
      /\ ~Usable(h) => FreeSlots = {}
  BY NoCandidateMeansBusy
<1>2. \A s \in Wants(h) : s \in SlotIds /\ busy[s]
  BY <1>1 DEF Wants, Usable, FreeSlots
<1>3. \A s \in Wants(h) : ~Pool!Free(s)
  BY <1>2, FreeIsNotBusy
<1>4. pc' = [pc EXCEPT ![r] = "waiting"] /\ UNCHANGED <<busy, slot>>
  BY DEF Enqueue, slotVars
<1>5. PhaseBar' = [PhaseBar EXCEPT ![r] = "queued"]
  BY <1>4 DEF PhaseBar, PoolPhase, TypeOK
<1>6. UNCHANGED <<HeldBar, ForeignBar>>
  BY <1>4, SameHolders DEF TypeOK
<1> QED
  BY <1>3, <1>5, <1>6

\* The first lock section of admit() is an Ask: r states what it wants and
\* takes a free slot among it, or queues because there is none.
LEMMA ArriveAsks ==
  ASSUME TypeOK, Ownership, Ownership', NEW r \in Req, NEW h, Arrive(r, h)
  PROVE  Pool!Next
<1>1. Wants(h) \in SUBSET SlotIds
  BY DEF Wants, Usable
<1>2. PhaseBar[r] = "idle"
  BY DEF Arrive, PhaseBar, PoolPhase
<1>3. WantBar' = [WantBar EXCEPT ![r] = Wants(h)]
  <2>1. pc'[r] # "new" /\ \A q \in Req : q # r => pc'[q] = pc[q]
    BY DEF Arrive, TryAdmit, Claim, Enqueue, TypeOK
  <2>2. hint'[r] = h /\ \A q \in Req : q # r => hint'[q] = hint[q]
    BY DEF Arrive, TypeOK
  <2>3. PoolWant(r)' = Wants(h)
    BY <2>1, <2>2 DEF PoolWant, Wants, Usable
  <2>4. \A q \in Req : q # r => PoolWant(q)' = PoolWant(q)
    BY <2>1, <2>2 DEF PoolWant, Usable
  <2> QED
    BY <2>3, <2>4 DEF WantBar
<1>4. ASSUME NEW s \in Candidates(h), Claim(r, h, s) PROVE Pool!Ask(r, Wants(h))
  <2>1. s \in Wants(h) /\ Pool!Take(r, s) /\ UNCHANGED ForeignBar
    BY <1>4, ClaimTakes DEF Arrive
  <2> QED
    BY <1>2, <1>3, <2>1 DEF Pool!Ask, PhaseBar, WantBar, ForeignBar
<1>5. ASSUME Candidates(h) = {}, Enqueue(r, h) PROVE Pool!Ask(r, Wants(h))
  <2>1. /\ \A s \in Wants(h) : ~Pool!Free(s)
        /\ PhaseBar' = [PhaseBar EXCEPT ![r] = "queued"]
        /\ UNCHANGED <<HeldBar, ForeignBar>>
    BY <1>5, EnqueueWaits DEF Arrive
  <2> QED
    BY <1>2, <1>3, <2>1 DEF Pool!Ask, PhaseBar, WantBar, HeldBar, ForeignBar
<1> QED
  BY <1>1, <1>4, <1>5 DEF Arrive, TryAdmit, Pool!Next

\* A later lock section of admit() is a Grant, or changes nothing that
\* SlotPool sees: a signalled request that finds its slot taken is queued as
\* before.
LEMMA RetryGrants ==
  ASSUME TypeOK, Ownership, Ownership', NEW r \in Req, Retry(r)
  PROVE  Pool!Next \/ UNCHANGED Pool!vars
<1>1. pc[r] = "woken" /\ hint' = hint
  BY DEF Retry
<1>2. PhaseBar[r] = "queued" /\ WantBar[r] = Wants(hint[r])
  BY <1>1 DEF PhaseBar, PoolPhase, WantBar, PoolWant, Wants
<1>3. WantBar' = WantBar
  <2>1. \A q \in Req : pc'[q] = "new" <=> pc[q] = "new"
    BY <1>1 DEF Retry, TryAdmit, Claim, Enqueue, TypeOK
  <2>2. \A q \in Req : PoolWant(q)' = PoolWant(q)
    BY <1>1, <2>1 DEF PoolWant, Usable
  <2> QED
    BY <2>2 DEF WantBar
<1>4. ASSUME NEW s \in Candidates(hint[r]), Claim(r, hint[r], s) PROVE Pool!Grant(r)
  <2>1. s \in Wants(hint[r]) /\ Pool!Take(r, s) /\ UNCHANGED ForeignBar
    BY <1>1, <1>4, ClaimTakes
  <2> QED
    BY <1>2, <1>3, <2>1 DEF Pool!Grant, PhaseBar, WantBar, ForeignBar
<1>5. ASSUME Candidates(hint[r]) = {}, Enqueue(r, hint[r]) PROVE UNCHANGED Pool!vars
  <2>1. /\ PhaseBar' = [PhaseBar EXCEPT ![r] = "queued"]
        /\ UNCHANGED <<HeldBar, ForeignBar>>
    BY <1>1, <1>5, EnqueueWaits
  <2>2. PhaseBar' = PhaseBar
    BY <1>2, <2>1 DEF PhaseBar
  <2> QED
    BY <1>3, <2>1, <2>2 DEF Pool!vars, PhaseBar, WantBar, HeldBar, ForeignBar
<1> QED
  BY <1>4, <1>5 DEF Retry, TryAdmit, Pool!Next

\* A request that times out or hangs up in the queue leaves, and takes
\* nothing with it.
LEMMA GoneLeaves ==
  ASSUME TypeOK, NEW r \in Req, TimeOut(r) \/ HangUp(r)
  PROVE  Pool!Next
<1>1. /\ pc[r] \in {"waiting", "woken"}
      /\ pc'[r] \in {"timed_out", "left", "left_woken"}
      /\ \A q \in Req : q # r => pc'[q] = pc[q]
      /\ UNCHANGED <<busy, slot, hint>>
  BY DEF TimeOut, HangUp, TypeOK, slotVars
<1>2. PhaseBar[r] = "queued" /\ PhaseBar' = [PhaseBar EXCEPT ![r] = "gone"]
  BY <1>1 DEF PhaseBar, PoolPhase
<1>3. WantBar' = WantBar
  <2>1. \A q \in Req : PoolWant(q)' = PoolWant(q)
    BY <1>1 DEF PoolWant, Usable
  <2> QED
    BY <2>1 DEF WantBar
<1>4. UNCHANGED <<HeldBar, ForeignBar>>
  BY <1>1, SameHolders
<1>5. Pool!Leave(r)
  BY <1>2, <1>3, <1>4 DEF Pool!Leave, PhaseBar, WantBar, HeldBar, ForeignBar
<1> QED
  BY <1>5 DEF Pool!Next

\* What a wake of the waiters for a slot means for SlotPool: a signalled
\* request is still queued.
LEMMA WakeIsInvisible ==
  ASSUME TypeOK, NEW s \in SlotIds, NEW status0 \in [Req -> Status],
         WakeWaitersFor(s, status0), hint' = hint,
         \A q \in Req : status0[q] = pc[q] \/ (pc[q] = "admitted" /\ status0[q] = "done")
  PROVE  /\ \A q \in Req : status0[q] = pc[q] => PoolPhase(q)' = PoolPhase(q)
         /\ WantBar' = WantBar
<1>1. \A q \in Req : pc'[q] = status0[q] \/ (pc[q] = "waiting" /\ pc'[q] = "woken")
  BY WakeEffect
<1>2. ASSUME NEW q \in Req, status0[q] = pc[q] PROVE PoolPhase(q)' = PoolPhase(q)
  BY <1>1, <1>2 DEF PoolPhase
<1>3. \A q \in Req : PoolWant(q)' = PoolWant(q)
  BY <1>1 DEF PoolWant, Usable
<1> QED
  BY <1>2, <1>3 DEF WantBar

\* release() gives the slot back: it becomes free, and the signals it sends
\* reserve it for nobody.
LEMMA ReleaseGivesBack ==
  ASSUME TypeOK, Ownership, Ownership', NEW r \in Req, Release(r)
  PROVE  Pool!Next
<1> DEFINE status0 == [pc EXCEPT ![r] = "done"]
<1>1. pc[r] = "admitted" /\ slot[r] \in SlotIds
  BY DEF Release, Ownership, AdmittedHasSlot
<1>2. /\ status0 \in [Req -> Status]
      /\ status0[r] = "done"
      /\ \A q \in Req : q # r => status0[q] = pc[q]
  BY DEF TypeOK, Status
<1>3. /\ WakeWaitersFor(slot[r], status0)
      /\ busy' = [busy EXCEPT ![slot[r]] = FALSE]
      /\ UNCHANGED <<seeded_unowned, hint, slot>>
  BY DEF Release
<1> HIDE DEF status0
<1>4. \A q \in Req : pc'[q] = status0[q] \/ (pc[q] = "waiting" /\ pc'[q] = "woken")
  BY <1>1, <1>2, <1>3, WakeEffect
<1>5. /\ \A q \in Req : q # r => PoolPhase(q)' = PoolPhase(q)
      /\ WantBar' = WantBar
  BY <1>1, <1>2, <1>3, WakeIsInvisible
<1>6. pc'[r] = "done" /\ \A q \in Req : q # r => (pc'[q] = "admitted" <=> pc[q] = "admitted")
  BY <1>1, <1>2, <1>4
<1>7. PhaseBar[r] = "holding" /\ PhaseBar' = [PhaseBar EXCEPT ![r] = "done"]
  <2>1. PoolPhase(r) = "holding" /\ PoolPhase(r)' = "done"
    BY <1>1, <1>6 DEF PoolPhase
  <2> QED
    BY <1>5, <2>1 DEF PhaseBar
<1>8. HeldBar' = [HeldBar EXCEPT ![r] = NoSlot]
  BY <1>3, <1>6 DEF HeldBar
<1>9. ForeignBar' = ForeignBar
  <2>1. ForeignBar = {t \in SlotIds : busy[t] /\ seeded_unowned[t]}
    BY ForeignIsSeeded
  <2>2. ForeignBar' = {t \in SlotIds : busy'[t] /\ seeded_unowned'[t]}
    BY DEF Ownership, GuardedSlotsStayBusy, NoLeakedSlot, ForeignBar, Holds
  <2>3. ~seeded_unowned[slot[r]]
    BY <1>1 DEF Ownership, GuardedSlotsStayBusy
  <2> QED
    BY <1>3, <2>1, <2>2, <2>3 DEF TypeOK
<1>10. Pool!GiveBack(r)
  BY <1>5, <1>7, <1>8, <1>9 DEF Pool!GiveBack, PhaseBar, WantBar, HeldBar, ForeignBar
<1> QED
  BY <1>10 DEF Pool!Next

\* The reconciliation of a slot that is still busy with seeded work reclaims
\* it; of one that is free already, it changes nothing SlotPool sees.
LEMMA ReconcileReclaims ==
  ASSUME TypeOK, Ownership, Ownership', NEW s \in SlotIds, ReconcileSeededIdle(s)
  PROVE  Pool!Next \/ UNCHANGED Pool!vars
<1>1. /\ pc \in [Req -> Status]
      /\ seeded_unowned[s]
      /\ WakeWaitersFor(s, pc)
      /\ busy' = [busy EXCEPT ![s] = FALSE]
      /\ UNCHANGED <<seeded_unowned, hint, slot>>
  BY DEF ReconcileSeededIdle, TypeOK
<1>2. \A q \in Req : pc'[q] = pc[q] \/ (pc[q] = "waiting" /\ pc'[q] = "woken")
  BY <1>1, WakeEffect
<1>3. PhaseBar' = PhaseBar /\ WantBar' = WantBar
  BY <1>1, WakeIsInvisible DEF PhaseBar
<1>4. HeldBar' = HeldBar
  BY <1>1, <1>2 DEF HeldBar
<1>5. ForeignBar = {t \in SlotIds : busy[t] /\ seeded_unowned[t]}
  BY ForeignIsSeeded
<1>6. ForeignBar' = {t \in SlotIds : busy'[t] /\ seeded_unowned'[t]}
  BY DEF Ownership, GuardedSlotsStayBusy, NoLeakedSlot, ForeignBar, Holds
<1>7. ForeignBar' = ForeignBar \ {s}
  BY <1>1, <1>5, <1>6 DEF TypeOK
<1>8. CASE busy[s]
  <2>1. Pool!Reclaim(s)
    BY <1>1, <1>3, <1>4, <1>5, <1>7, <1>8
       DEF Pool!Reclaim, PhaseBar, WantBar, HeldBar, ForeignBar
  <2> QED
    BY <2>1 DEF Pool!Next
<1>9. CASE ~busy[s]
  <2>1. ForeignBar' = ForeignBar
    BY <1>5, <1>7, <1>9
  <2> QED
    BY <1>3, <1>4, <2>1 DEF Pool!vars, PhaseBar, WantBar, HeldBar, ForeignBar
<1> QED
  BY <1>8, <1>9

-----------------------------------------------------------------------------
\* Every step of the scheduler is a step of SlotPool or invisible to it.
LEMMA PoolStep ==
  TypeOK /\ Ownership /\ Ownership' /\ [Next]_vars => [Pool!Next]_(Pool!vars)
<1> SUFFICES ASSUME TypeOK, Ownership, Ownership', [Next]_vars
             PROVE  Pool!Next \/ UNCHANGED Pool!vars
  OBVIOUS
<1>1. ASSUME NEW r \in Req, NEW h \in Hints, Arrive(r, h) PROVE Pool!Next
  BY <1>1, ArriveAsks
<1>2. ASSUME NEW r \in Req, Retry(r) PROVE Pool!Next \/ UNCHANGED Pool!vars
  BY <1>2, RetryGrants
<1>3. ASSUME NEW r \in Req, TimeOut(r) \/ HangUp(r) PROVE Pool!Next
  BY <1>3, GoneLeaves
<1>4. ASSUME NEW r \in Req, Release(r) PROVE Pool!Next
  BY <1>4, ReleaseGivesBack
<1>5. ASSUME UNCHANGED <<busy, pc, hint, slot>> PROVE UNCHANGED Pool!vars
  <2>1. UNCHANGED <<PhaseBar, HeldBar, ForeignBar>>
    BY <1>5 DEF PhaseBar, PoolPhase, HeldBar, ForeignBar, Holds
  <2>2. \A q \in Req : PoolWant(q)' = PoolWant(q)
    BY <1>5 DEF PoolWant, Usable
  <2> QED
    BY <2>1, <2>2 DEF Pool!vars, PhaseBar, WantBar, HeldBar, ForeignBar
<1>6. ASSUME NEW r \in Req, MarkResident(r) \/ ClearResident(r)
      PROVE  UNCHANGED <<busy, pc, hint, slot>>
  BY <1>6 DEF MarkResident, ClearResident, reqVars
<1>7. ASSUME NEW s \in SlotIds, ReconcileSeededIdle(s)
      PROVE  Pool!Next \/ UNCHANGED Pool!vars
  BY <1>7, ReconcileReclaims
<1>8. CASE UNCHANGED vars
  BY <1>5, <1>8 DEF vars, slotVars, reqVars
<1> QED
  BY <1>1, <1>2, <1>3, <1>4, <1>5, <1>6, <1>7, <1>8 DEF Next

\* Initially nobody has asked and only seeded slots are taken.
LEMMA PoolInit == Init => Pool!Init
<1> SUFFICES ASSUME Init PROVE Pool!Init
  OBVIOUS
<1>1. /\ pc = [r \in Req |-> "new"]
      /\ hint = [r \in Req |-> NoHint]
      /\ slot = [r \in Req |-> NoSlot]
  BY DEF Init
<1>2. \A r \in Req : PoolPhase(r) = "idle" /\ PoolWant(r) = {}
  BY <1>1 DEF PoolPhase, PoolWant, Usable
<1> QED
  BY <1>1, <1>2 DEF Pool!Init

\* admit(), release() and the reconciliation poll implement SlotPool: a
\* request queues only if nothing it may take is free, gets only a free slot
\* that it asked for, at most once, and a signal to a waiter reserves nothing.
THEOREM SchedulerImplementsSlotPool == Spec => ImplementsSlotPool
<1> QED
  BY TypeInit, TypeStep, OwnershipInit, OwnershipStep, PoolInit, PoolStep, PTL
     DEF Spec, ImplementsSlotPool, Pool!Spec
=============================================================================
