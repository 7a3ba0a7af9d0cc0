---------------------------- MODULE BrokerProofs ----------------------------
(***************************************************************************)
(* Proofs about the forwarding task composed with the scheduler, the       *)
(* reconciliation task and restarts of the broker, for every number of     *)
(* slots, requests, hints and crashes.                                     *)
(***************************************************************************)
EXTENDS Broker, SchedulerProofs, SequenceTheorems

-----------------------------------------------------------------------------
\* What the properties need besides themselves to be inductive.

\* Stages in which llama-server may have something for the request.
Sent ==
  { "restoring", "warm", "warming", "saving", "mark", "send", "stream",
    "unprepared", "failed" }

\* The stages in which a call of each kind may be pending still: from when it
\* was sent until the task has seen the answer to a later one.
PendingIn(kind) ==
  CASE kind = "restore" -> {"restoring", "warm", "warming", "unprepared"}
    [] kind = "warmup" -> {"warming", "unprepared"}
    [] kind = "save" -> {"saving", "mark", "send", "stream", "failed"}
    [] kind = "chat" -> {"stream", "failed"}

\* The broker that knew of what llama-server has for q gave up on it or died.
GivenUp(q) == Failed(q) \/ q \in missed

\* q's task still has its slot.
Held(q) == pc[q] = "admitted"

\* A task runs only for a request that was given a slot, and a slot is only
\* prepared for a hint.
JobShape ==
  \A r \in Req :
    /\ job[r] # "none" =>
         pc[r] \in {"admitted", "done", "left"} /\ slot[r] \in SlotIds
    /\ job[r] \in {"restore", "restoring", "warm", "warming", "save", "saving",
                  "mark", "unprepared"} => hint[r] # NoHint
    /\ r \in missed => job[r] # "none"

\* What is pending for a slot was sent for it; its task still has the slot, or
\* it was given up.  What a task waits for is the last thing pending, and what
\* the same task sent before that is a restore or a save that failed.
QueueShape ==
  \A s \in SlotIds : \A i \in 1 .. Len(pending[s]) :
    LET call == pending[s][i]
        q == call.req
    IN  /\ slot[q] = s /\ job[q] \in PendingIn(call.kind) /\ q \notin work
        /\ GivenUp(q) \/ Held(q)
        /\ Awaited(call) => i = Len(pending[s])
        /\ \A j \in 1 .. Len(pending[s]) : j < i /\ pending[s][j].req = q =>
             pending[s][j].kind \in {"restore", "save"}

\* What llama-server works on has its slot held by its task, was given up, or
\* keeps its slot seeded.
WorkShape ==
  \A q \in work :
    /\ job[q] \in {"warming", "stream", "unprepared", "failed"}
    /\ \/ GivenUp(q) \/ Held(q)
       \/ busy[slot[q]] /\ seeded_unowned[slot[q]]

\* A stale poll is harmless: a seeded slot that was idle when polled has by
\* now at most work that was given up.
PollShape ==
  \A s \in polled : seeded_unowned[s] =>
    \A q \in work : slot[q] = s => GivenUp(q)

\* The slot of r has r's prefix.
HoldsOwn(r) == kv[slot[r]] = Content(hint[r])

\* Nothing is pending for s that could overwrite it.
OnlySaves(s) == \A i \in 1 .. Len(pending[s]) : pending[s][i].kind = "save"

\* What r's task waits for has not been begun.
StillQueued(r) ==
  \E i \in 1 .. Len(pending[slot[r]]) :
    pending[slot[r]][i].req = r /\ Awaited(pending[slot[r]][i])

\* A slot that is about to be saved or recorded holds what it was prepared
\* for, and nothing pending overwrites it.
PreparedFor(r) ==
  /\ job[r] = "save" => pending[slot[r]] = <<>> /\ HoldsOwn(r)
  /\ job[r] \in {"saving", "mark"} => OnlySaves(slot[r]) /\ HoldsOwn(r)
  /\ job[r] \in {"restoring", "warming"} =>
       StillQueued(r) \/ (pending[slot[r]] = <<>> /\ HoldsOwn(r))

Prepared == \A r \in Req : pc[r] = "admitted" => PreparedFor(r)

\* A save is the first thing pending, and the slot still holds what it is for.
SavesOwn ==
  \A s \in SlotIds : \A i \in 1 .. Len(pending[s]) :
    LET call == pending[s][i]
    IN  call.kind = "save" =>
          i = 1 /\ hint[call.req] # NoHint /\ kv[s] = Content(hint[call.req])

\* What the occupancy table records of a hint.
Named(h) == [prefix |-> h.prefix, model |-> h.model]

\* While a request is forwarded, the occupancy table has its prefix.
Recorded ==
  \A r \in Req : pc[r] = "admitted" =>
    /\ hint[r] # NoHint /\ ( \/ job[r] \in {"send", "stream", "end", "failed"}
                             \/ job[r] = "none" /\ cache_ready[r] )
       => resident[slot[r]] = Named(hint[r])
    /\ hint[r] = NoHint /\ job[r] # "none" => resident[slot[r]] = NoResident

\* The occupancy table is right about slot s, or its content was left behind.
Backed(s) ==
  resident[s] = NoResident \/ kv[s] = Computed(resident[s]) \/ LeftBehind(s)

\* Slot s is being prepared for r, and has r's prefix already.
Fresh(r, s) ==
  /\ Holds(r, s)
  /\ job[r] \in {"restoring", "warm", "warming", "save", "saving", "mark"}
  /\ kv[s] = Content(hint[r])

\* The occupancy table is right about every slot, but for one that is being
\* prepared and has the new prefix already.
Tracked == \A s \in SlotIds : Backed(s) \/ \E r \in Req : Fresh(r, s)

-----------------------------------------------------------------------------
\* The scheduler underneath.

\* Every step of the broker but a restart is a step of the scheduler, or none.
LEMMA SchedulerStep == [BrokerNext]_allVars => [Next]_vars \/ Restart
<1> SUFFICES ASSUME [BrokerNext]_allVars PROVE [Next]_vars \/ Restart
  OBVIOUS
<1>1. ASSUME NEW r \in Req, Admit(r) PROVE [Next]_vars
  BY <1>1 DEF Admit, Next
<1>2. ASSUME NEW r \in Req, JobStep(r) PROVE [Next]_vars
  <2>1. ASSUME Begin(r) PROVE [Next]_vars
    BY <2>1 DEF Begin, Next
  <2>2. ASSUME Mark(r) PROVE [Next]_vars
    BY <2>2 DEF Mark, Next
  <2>3. ASSUME DropGuard(r) PROVE [Next]_vars
    BY <2>3 DEF DropGuard, Next
  <2>4. CASE ~(Begin(r) \/ Mark(r) \/ DropGuard(r))
    BY <1>2, <2>4 DEF JobStep, TaskStep, Restore, Restored, RestoreFails, Warm,
       Warmed, Save, Saved, SaveFails, Send, StreamEnd, Fail
  <2> QED
    BY <2>1, <2>2, <2>3, <2>4
<1>3. ASSUME NEW s \in SlotIds, Reconcile(s) PROVE [Next]_vars
  BY <1>3 DEF Reconcile, Next
<1>4. ASSUME NEW r \in Req, LlamaFinish(r) PROVE UNCHANGED vars
  BY <1>4 DEF LlamaFinish
<1>5. ASSUME NEW s \in SlotIds, LlamaStep(s) PROVE UNCHANGED vars
  BY <1>5 DEF LlamaStep, LlamaStart, LlamaRestore, LlamaSave, LlamaDrop
<1>6. ASSUME NEW k \in CacheKeys, Evict(k) PROVE UNCHANGED vars
  BY <1>6 DEF Evict
<1>7. CASE Poll
  BY <1>7 DEF Poll
<1>8. CASE UNCHANGED allVars
  BY <1>8 DEF allVars
<1> QED
  BY <1>1, <1>2, <1>3, <1>4, <1>5, <1>6, <1>7, <1>8 DEF BrokerNext

\* A starting broker's scheduler has the right types, and owns nothing.
LEMMA RestartScheduler ==
  ASSUME TypeOK, Restart
  PROVE  TypeOK' /\ Ownership'
<1> DEFINE processing == {s \in SlotIds : Processing(s)}
<1>1. NewScheduler(processing)
  BY DEF Restart
<1> HIDE DEF processing
<1>2. TypeOK'
  <2>1. "new" \in Status /\ "left" \in Status
    BY DEF Status
  <2> QED
    BY <1>1, <2>1 DEF NewScheduler, TypeOK
<1>3. \A r \in Req : pc'[r] # "admitted"
  BY <1>1 DEF NewScheduler
<1>4. NoLeakedSlot'
  BY <1>1 DEF NewScheduler, NoLeakedSlot
<1> QED
  BY <1>2, <1>3, <1>4 DEF Ownership, AdmittedHasSlot, MutualExclusion,
                          GuardedSlotsStayBusy

\* The scheduler's types and slot ownership survive every step of the broker.
LEMMA SchedulerKept ==
  ASSUME TypeOK, Ownership, [BrokerNext]_allVars
  PROVE  TypeOK' /\ Ownership'
<1>1. CASE [Next]_vars
  BY <1>1, TypeStep, OwnershipStep
<1>2. CASE Restart
  BY <1>2, RestartScheduler
<1> QED
  BY <1>1, <1>2, SchedulerStep

\* A request that was given a slot.
Settled(q) == pc[q] \in {"admitted", "done", "left"}

\* What an attempt leaves alone, and what it finds when it takes a slot.
LEMMA TryAdmitEffect ==
  ASSUME TypeOK, NEW r \in Req, NEW h, TryAdmit(r, h),
         pc[r] \in {"new", "woken"}
  PROVE  /\ resident' = resident
         /\ \A q \in Req : q # r =>
              pc'[q] = pc[q] /\ slot'[q] = slot[q] /\ cache_ready'[q] = cache_ready[q]
         /\ pc'[r] # "admitted" => UNCHANGED <<busy, seeded_unowned, slot>>
         /\ pc'[r] # "left"
         /\ pc'[r] = "admitted" =>
              LET s == slot'[r]
              IN  /\ s \in SlotIds /\ ~busy[s]
                  /\ busy' = [busy EXCEPT ![s] = TRUE]
                  /\ seeded_unowned' = [seeded_unowned EXCEPT ![s] = FALSE]
                  /\ cache_ready'[r] = IsResidentIn(h, s)
<1>1. ASSUME NEW s \in Candidates(h), Claim(r, h, s)
      PROVE  /\ resident' = resident
             /\ \A q \in Req : q # r =>
                  pc'[q] = pc[q] /\ slot'[q] = slot[q] /\ cache_ready'[q] = cache_ready[q]
             /\ pc'[r] = "admitted" /\ slot'[r] = s
             /\ s \in SlotIds /\ ~busy[s]
             /\ busy' = [busy EXCEPT ![s] = TRUE]
             /\ seeded_unowned' = [seeded_unowned EXCEPT ![s] = FALSE]
             /\ cache_ready'[r] = IsResidentIn(h, s)
  <2>1. s \in SlotIds /\ ~busy[s]
    BY CandidatesAreFree
  <2> QED
    BY <1>1, <2>1 DEF Claim, TypeOK
<1>2. ASSUME Enqueue(r, h)
      PROVE  /\ resident' = resident
             /\ \A q \in Req : q # r => pc'[q] = pc[q]
             /\ pc'[r] = "waiting"
             /\ UNCHANGED <<busy, seeded_unowned, slot, cache_ready>>
  BY <1>2 DEF Enqueue, TypeOK, slotVars
<1> QED
  BY <1>1, <1>2 DEF TryAdmit

\* The requests before and after a step: one that was given a slot keeps its
\* hint and slot for good, and one is given a slot only by an attempt.
LEMMA SettledStays ==
  ASSUME TypeOK, Ownership, [Next]_vars \/ Restart
  PROVE  \A q \in Req : Settled(q) =>
           /\ hint'[q] = hint[q] /\ slot'[q] = slot[q]
           /\ cache_ready'[q] = cache_ready[q]
           /\ pc'[q] \in {"admitted", "done", "left"}
           /\ pc[q] # "admitted" => pc'[q] # "admitted"
<1> SUFFICES ASSUME NEW q \in Req, Settled(q)
             PROVE  /\ hint'[q] = hint[q] /\ slot'[q] = slot[q]
                    /\ cache_ready'[q] = cache_ready[q]
                    /\ pc'[q] \in {"admitted", "done", "left"}
                    /\ pc[q] # "admitted" => pc'[q] # "admitted"
  OBVIOUS
<1> USE DEF Settled
<1>1. ASSUME NEW r \in Req, NEW h \in Hints, Arrive(r, h)
      PROVE  UNCHANGED <<hint[q], slot[q], cache_ready[q], pc[q]>>
  <2>1. q # r /\ pc[r] = "new" /\ hint'[q] = hint[q]
    BY <1>1 DEF Arrive, TypeOK
  <2> QED
    BY <1>1, <2>1, TryAdmitEffect DEF Arrive
<1>2. ASSUME NEW r \in Req, Retry(r)
      PROVE  UNCHANGED <<hint[q], slot[q], cache_ready[q], pc[q]>>
  <2>1. q # r /\ pc[r] = "woken" /\ hint'[q] = hint[q]
    BY <1>2 DEF Retry
  <2> QED
    BY <1>2, <2>1, TryAdmitEffect DEF Retry
<1>3. ASSUME NEW r \in Req, TimeOut(r) \/ HangUp(r)
      PROVE  UNCHANGED <<hint[q], slot[q], cache_ready[q], pc[q]>>
  BY <1>3 DEF TimeOut, HangUp, TypeOK
<1>4. ASSUME NEW r \in Req, Release(r)
      PROVE  /\ UNCHANGED <<hint, slot, cache_ready>>
             /\ pc'[q] = pc[q] \/ pc'[q] = "done"
  <2>1. slot[r] \in SlotIds
    BY <1>4 DEF Release, Ownership, AdmittedHasSlot
  <2>2. [pc EXCEPT ![r] = "done"] \in [Req -> Status]
    BY DEF TypeOK, Status
  <2>3. pc'[q] = [pc EXCEPT ![r] = "done"][q] \/ pc[q] = "waiting"
    BY <1>4, <2>1, <2>2, WakeEffect DEF Release
  <2> QED
    BY <1>4, <2>3 DEF Release, TypeOK
<1>5. ASSUME NEW r \in Req, MarkResident(r) \/ ClearResident(r)
      PROVE  UNCHANGED <<hint, slot, cache_ready, pc>>
  BY <1>5 DEF MarkResident, ClearResident, reqVars
<1>6. ASSUME NEW s \in SlotIds, ReconcileSeededIdle(s)
      PROVE  UNCHANGED <<hint, slot, cache_ready>> /\ pc'[q] = pc[q]
  <2>1. pc \in [Req -> Status]
    BY DEF TypeOK
  <2>2. pc'[q] = pc[q] \/ pc[q] = "waiting"
    BY <1>6, <2>1, WakeEffect DEF ReconcileSeededIdle
  <2> QED
    BY <1>6, <2>2 DEF ReconcileSeededIdle
<1>7. CASE UNCHANGED vars
  BY <1>7 DEF vars, reqVars
<1>8. CASE Restart
  BY <1>8 DEF Restart, NewScheduler
<1> QED
  BY <1>1, <1>2, <1>3, <1>4, <1>5, <1>6, <1>7, <1>8 DEF Next

-----------------------------------------------------------------------------
\* Types, and which requests have a task.

\* What hints name: keys of the store and contents of slots, which match.
LEMMA HintTypes ==
  ASSUME NEW h \in {NoHint} \cup SlotHint
  PROVE  /\ Content(h) \in KVContent
         /\ h # NoHint => /\ h \in SlotHint /\ h.prefix \in Prefix /\ h.model \in Model
                          /\ Key(h) \in CacheKeys /\ Content(h) = Key(h)
                          /\ Computed(WarmUp(h)) = Content(h)
                          /\ Named(h) \in Resident /\ Computed(Named(h)) = Content(h)
<1>1. h # NoHint => h \in SlotHint /\ h.prefix \in Prefix /\ h.model \in Model
  BY DEF SlotHint
<1>2. h # NoHint => Key(h) \in CacheKeys
  BY <1>1 DEF Key, CacheKeys
<1>3. h # NoHint => Content(h) = Key(h)
  BY DEF Content, Computed, Key
<1>4. h # NoHint => Computed(WarmUp(h)) = Content(h) /\ Computed(Named(h)) = Content(h)
  BY DEF Content, Computed, WarmUp, Named
<1>5. h # NoHint => Named(h) \in Resident
  BY <1>1 DEF Named, Resident
<1>6. Content(h) \in KVContent
  BY <1>2, <1>3 DEF Content, KVContent
<1> QED
  BY <1>1, <1>2, <1>3, <1>4, <1>5, <1>6

\* The first of what is pending for a slot.
LEMMA QueueHead ==
  ASSUME BrokerTypeOK, NEW s \in SlotIds, pending[s] # <<>>
  PROVE  /\ Len(pending[s]) \in Nat \ {0}
         /\ Head(pending[s]) = pending[s][1] /\ Head(pending[s]) \in Call
         /\ Head(pending[s]).req \in Req
         /\ Tail(pending[s]) \in Seq(Call)
         /\ Len(Tail(pending[s])) = Len(pending[s]) - 1
         /\ \A i \in 1 .. Len(pending[s]) - 1 : Tail(pending[s])[i] = pending[s][i + 1]
<1>1. pending[s] \in Seq(Call)
  BY DEF BrokerTypeOK
<1>2. Head(pending[s]) = pending[s][1]
  BY <1>1
<1>3. Head(pending[s]) \in Call
  BY <1>1, HeadTailProperties
<1>4. Head(pending[s]).req \in Req
  BY <1>3 DEF Call
<1> QED
  BY <1>1, <1>2, <1>3, <1>4, EmptySeq, HeadTailProperties

\* Every step keeps the types.
LEMMA BrokerTypeStep ==
  ASSUME BrokerTypeOK, Ownership, JobShape, QueueShape, [BrokerNext]_allVars
  PROVE  BrokerTypeOK'
<1>0. TypeOK'
  BY SchedulerKept DEF BrokerTypeOK
<1> DEFINE Rest == /\ job \in [Req -> Stage]
                   /\ kv \in [SlotIds -> KVContent]
                   /\ pending \in [SlotIds -> Seq(Call)]
                   /\ work \in SUBSET Req
                   /\ saved \in [CacheKeys -> KVContent]
                   /\ polled \in SUBSET SlotIds
                   /\ restarts \in 0 .. MaxRestarts
                   /\ missed \in SUBSET Req
<1>1. Rest /\ TypeOK
  BY DEF BrokerTypeOK
<1> SUFFICES Rest'
  BY <1>0 DEF BrokerTypeOK
<1>2. ASSUME NEW r \in Req, NEW st \in Stage, Goto(r, st)
      PROVE  job' \in [Req -> Stage]
  BY <1>1, <1>2 DEF Goto
<1>3. ASSUME NEW r \in Req, NEW kind \in {"restore", "warmup", "save", "chat"},
             SendFor(r, kind)
      PROVE  pending' \in [SlotIds -> Seq(Call)]
  <2>1. [req |-> r, kind |-> kind] \in Call
    BY DEF Call
  <2> QED
    BY <1>1, <1>3, <2>1, AppendProperties DEF SendFor
<1>4. {"none", "restore", "restoring", "warm", "warming", "save", "saving", "mark",
       "send", "stream", "end", "unprepared", "failed"} = Stage
  BY DEF Stage
<1>10. ASSUME NEW r \in Req, Admit(r) PROVE Rest'
  BY <1>1, <1>10 DEF Admit, brokerVars, llamaVars, crashVars
<1>11. ASSUME NEW r \in Req, JobStep(r) PROVE Rest'
  <2>1. CASE Begin(r)
    BY <1>1, <1>2, <1>4, <2>1 DEF Begin, llamaVars, crashVars
  <2>2. CASE Restore(r) \/ Warm(r) \/ Save(r) \/ Send(r)
    <3>1. job' \in [Req -> Stage]
      BY <1>2, <1>4, <2>2 DEF Restore, Warm, Save, Send
    <3>2. pending' \in [SlotIds -> Seq(Call)]
      BY <1>1, <1>3, <2>2 DEF Restore, Warm, Save, Send
    <3> QED
      BY <1>1, <2>2, <3>1, <3>2 DEF Restore, Warm, Save, Send, crashVars
  <2>3. CASE \/ Restored(r) \/ RestoreFails(r) \/ Warmed(r) \/ Saved(r) \/ SaveFails(r)
             \/ StreamEnd(r) \/ Fail(r)
    BY <1>1, <1>2, <1>4, <2>3 DEF Restored, RestoreFails, Warmed, Saved, SaveFails,
       StreamEnd, Fail, llamaVars, crashVars
  <2>4. CASE Mark(r)
    BY <1>1, <1>2, <1>4, <2>4 DEF Mark, llamaVars, crashVars
  <2>5. CASE DropGuard(r)
    BY <1>1, <2>5 DEF DropGuard, brokerVars, llamaVars, crashVars
  <2> QED
    BY <1>11, <2>1, <2>2, <2>3, <2>4, <2>5 DEF JobStep, TaskStep
<1>12. CASE Poll
  BY <1>1, <1>12 DEF Poll, llamaVars, crashVars
<1>13. ASSUME NEW s \in SlotIds, Reconcile(s) PROVE Rest'
  BY <1>1, <1>13 DEF Reconcile, llamaVars, crashVars
<1>14. ASSUME NEW s \in SlotIds, LlamaStep(s) PROVE Rest'
  <2>1. pending[s] # <<>> /\ Dequeue(s)
    BY <1>14 DEF LlamaStep, LlamaStart, LlamaRestore, LlamaSave, LlamaDrop, Ready
  <2> DEFINE q == Head(pending[s]).req
  <2>2. q \in Req /\ Tail(pending[s]) \in Seq(Call)
    BY <2>1, QueueHead
  <2>9. Head(pending[s]).kind \in {"restore", "warmup"} => hint[q] # NoHint
    <3>1. 1 \in 1 .. Len(pending[s]) /\ Head(pending[s]) = pending[s][1]
      BY <2>1, QueueHead
    <3>2. job[q] \in PendingIn(Head(pending[s]).kind)
      BY <3>1 DEF QueueShape
    <3> QED
      BY <2>2, <3>2 DEF JobShape, PendingIn
  <2>3. pending' \in [SlotIds -> Seq(Call)]
    BY <1>1, <2>1, <2>2 DEF Dequeue
  <2>4. hint[q] \in {NoHint} \cup SlotHint
    BY <1>1, <2>2 DEF TypeOK
  <2> HIDE DEF q
  <2>5. CASE LlamaStart(s)
    <3>1. \/ Prompt(Head(pending[s])) = Content(hint[q])
          \/ hint[q] # NoHint /\ Prompt(Head(pending[s])) = Computed(WarmUp(hint[q]))
      BY <2>9 DEF Prompt, q
    <3>2. Prompt(Head(pending[s])) \in KVContent
      BY <2>4, <3>1, HintTypes
    <3> QED
      BY <1>1, <2>2, <2>3, <2>5, <3>2 DEF LlamaStart, crashVars, q
  <2>6. CASE LlamaRestore(s)
    <3>1. hint[q] # NoHint
      BY <2>6, <2>9 DEF LlamaRestore, Ready
    <3>2. Key(hint[q]) \in CacheKeys
      BY <2>4, <3>1, HintTypes
    <3>3. saved[Key(hint[q])] \in KVContent
      BY <1>1, <3>2
    <3>4. kv' = [kv EXCEPT ![s] = saved[Key(hint[q])]]
      BY <2>6 DEF LlamaRestore, q
    <3> QED
      BY <1>1, <2>3, <2>6, <3>3, <3>4 DEF LlamaRestore, crashVars
  <2>7. CASE LlamaSave(s)
    <3>1. kv[s] \in KVContent
      BY <1>1
    <3>2. saved' \in [CacheKeys -> KVContent]
      BY <1>1, <2>7, <3>1 DEF LlamaSave
    <3> QED
      BY <1>1, <2>3, <2>7, <3>2 DEF LlamaSave, crashVars
  <2>8. CASE LlamaDrop(s)
    BY <1>1, <2>3, <2>8 DEF LlamaDrop, crashVars
  <2> QED
    BY <1>14, <2>5, <2>6, <2>7, <2>8 DEF LlamaStep
<1>16. ASSUME NEW r \in Req, LlamaFinish(r) PROVE Rest'
  BY <1>1, <1>16 DEF LlamaFinish, crashVars
<1>17. ASSUME NEW k \in CacheKeys, Evict(k) PROVE Rest'
  BY <1>1, <1>17 DEF Evict, llamaVars, crashVars, KVContent
<1>18. CASE Restart
  BY <1>1, <1>18, BrokerAssumption DEF Restart, llamaVars
<1>19. CASE UNCHANGED allVars
  BY <1>1, <1>19 DEF allVars, brokerVars, llamaVars, crashVars
<1> QED
  BY <1>10, <1>11, <1>12, <1>13, <1>14, <1>16, <1>17, <1>18, <1>19 DEF BrokerNext

\* What a step does to the tasks: at most one goes on, and that of an
\* admitted request.
LEMMA JobMoves ==
  ASSUME BrokerTypeOK, [BrokerNext]_allVars
  PROVE  \/ job' = job
         \/ \E r \in Req : /\ pc[r] = "admitted"
                           /\ \A q \in Req : q # r => job'[q] = job[q]
                           /\ JobStep(r)
<1>1. ASSUME NEW r \in Req, JobStep(r)
      PROVE  job' = job \/ /\ pc[r] = "admitted"
                           /\ \A q \in Req : q # r => job'[q] = job[q]
  <2>1. job \in [Req -> Stage]
    BY DEF BrokerTypeOK
  <2> QED
    BY <1>1, <2>1 DEF JobStep, TaskStep, Begin, Restore, Restored, RestoreFails, Warm,
       Warmed, Save, Saved, SaveFails, Mark, Send, StreamEnd, Fail, DropGuard, Running, Goto, brokerVars
<1>2. CASE \E r \in Req : Admit(r) \/ LlamaFinish(r)
  BY <1>2 DEF Admit, LlamaFinish, brokerVars
<1>3. CASE Poll \/ Restart \/ \E k \in CacheKeys : Evict(k)
  BY <1>3 DEF Poll, Restart, Evict
<1>4. CASE \E s \in SlotIds : Reconcile(s) \/ LlamaStep(s)
  BY <1>4 DEF Reconcile, LlamaStep, LlamaStart, LlamaRestore, LlamaSave, LlamaDrop
<1>5. CASE UNCHANGED allVars
  BY <1>5 DEF allVars, brokerVars
<1> QED
  BY <1>1, <1>2, <1>3, <1>4, <1>5 DEF BrokerNext

\* Every step keeps the tasks' shape.
LEMMA JobShapeStep ==
  ASSUME BrokerTypeOK, Ownership, JobShape, QueueShape, [BrokerNext]_allVars
  PROVE  JobShape'
<1>0. TypeOK /\ job \in [Req -> Stage]
  BY DEF BrokerTypeOK
<1>1. \A q \in Req : Settled(q) =>
        /\ hint'[q] = hint[q] /\ slot'[q] = slot[q]
        /\ pc'[q] \in {"admitted", "done", "left"}
  BY <1>0, SchedulerStep, SettledStays
<1>2. \A q \in Req : q \in missed' => q \in missed \/ job'[q] # "none"
  <2>1. CASE missed' = missed
    BY <2>1
  <2>2. CASE Restart
    <3> SUFFICES ASSUME NEW q \in Req, q \in missed', q \notin missed
                 PROVE  job'[q] # "none"
      OBVIOUS
    <3>1. PICK s \in SlotIds : \E i \in 1 .. Len(pending[s]) : pending[s][i].req = q
      BY <2>2 DEF Restart, Unanswered
    <3>2. PICK i \in 1 .. Len(pending[s]) : pending[s][i].req = q
      BY <3>1
    <3>3. job[q] \in PendingIn(pending[s][i].kind) /\ pending[s][i] \in Call
      BY <3>2, ElementOfSeq DEF QueueShape, BrokerTypeOK
    <3>4. job[q] # "none"
      BY <3>3 DEF PendingIn, Call
    <3> QED
      BY <2>2, <3>4 DEF Restart
  <2> QED
    <3>1. ASSUME NEW r \in Req, JobStep(r) PROVE missed' = missed
      BY <3>1 DEF JobStep, TaskStep, Begin, Restore, Restored, RestoreFails, Warm,
       Warmed, Save, Saved, SaveFails, Mark, Send, StreamEnd, Fail, DropGuard, brokerVars, crashVars
    <3>2. CASE UNCHANGED allVars
      BY <3>2 DEF allVars, brokerVars, crashVars
    <3> QED
      BY <2>1, <2>2, <3>1, <3>2 DEF BrokerNext, Admit, LlamaFinish, Poll, Reconcile,
         LlamaStep, LlamaStart, LlamaRestore, LlamaSave, LlamaDrop, Evict, brokerVars, crashVars
<1>3. ASSUME job' = job PROVE JobShape'
  BY <1>1, <1>2, <1>3 DEF JobShape, Settled
<1>4. ASSUME NEW r \in Req, pc[r] = "admitted", JobStep(r),
             \A q \in Req : q # r => job'[q] = job[q]
      PROVE  JobShape'
  <2>1. slot[r] \in SlotIds
    BY <1>4 DEF Ownership, AdmittedHasSlot
  <2>2. /\ job'[r] \in {"restore", "restoring", "warm", "warming", "save", "saving",
                        "mark", "unprepared"} => hint[r] # NoHint
        /\ job'[r] # "none" \/ job' = job
    BY <1>0, <1>4 DEF JobStep, TaskStep, Begin, Restore, Restored, RestoreFails, Warm,
       Warmed, Save, Saved, SaveFails, Mark, Send, StreamEnd, Fail, DropGuard, Running, Goto, JobShape, brokerVars
  <2> QED
    BY <1>1, <1>2, <1>3, <1>4, <2>1, <2>2 DEF JobShape, Settled
<1> QED
  BY <1>3, <1>4, JobMoves

-----------------------------------------------------------------------------
\* What llama-server still has for the requests.

\* The requests that were given a slot are left alone.
Undisturbed ==
  \A q \in Req : Settled(q) =>
    /\ pc'[q] = pc[q] /\ hint'[q] = hint[q]
    /\ slot'[q] = slot[q] /\ cache_ready'[q] = cache_ready[q]

\* What an admission step does to slots and requests.
LEMMA AdmitEffect ==
  ASSUME TypeOK, Ownership, NEW r \in Req, Admit(r)
  PROVE  /\ Undisturbed
         /\ resident' = resident
         /\ \A s \in SlotIds : /\ busy[s] => busy'[s] /\ seeded_unowned'[s] = seeded_unowned[s]
                               /\ seeded_unowned'[s] => seeded_unowned[s]
         /\ \A q \in Req : pc'[q] = "admitted" /\ pc[q] # "admitted" =>
              /\ pc[q] \in {"new", "woken"}
              /\ slot'[q] \in SlotIds /\ ~busy[slot'[q]]
              /\ cache_ready'[q] => IsResidentIn(hint'[q], slot'[q])
<1>1. ASSUME NEW h, TryAdmit(r, h), pc[r] \in {"new", "woken"},
             hint'[r] = h, \A q \in Req : q # r => hint'[q] = hint[q]
      PROVE  /\ Undisturbed
             /\ resident' = resident
             /\ \A s \in SlotIds : /\ busy[s] => busy'[s] /\ seeded_unowned'[s] = seeded_unowned[s]
                                   /\ seeded_unowned'[s] => seeded_unowned[s]
             /\ \A q \in Req : pc'[q] = "admitted" /\ pc[q] # "admitted" =>
                  /\ pc[q] \in {"new", "woken"}
                  /\ slot'[q] \in SlotIds /\ ~busy[slot'[q]]
                  /\ cache_ready'[q] => IsResidentIn(hint'[q], slot'[q])
  <2>1. /\ resident' = resident
        /\ \A q \in Req : q # r =>
             pc'[q] = pc[q] /\ slot'[q] = slot[q] /\ cache_ready'[q] = cache_ready[q]
        /\ pc'[r] # "admitted" => UNCHANGED <<busy, seeded_unowned, slot>>
        /\ pc'[r] = "admitted" =>
             /\ slot'[r] \in SlotIds /\ ~busy[slot'[r]]
             /\ busy' = [busy EXCEPT ![slot'[r]] = TRUE]
             /\ seeded_unowned' = [seeded_unowned EXCEPT ![slot'[r]] = FALSE]
             /\ cache_ready'[r] = IsResidentIn(h, slot'[r])
    BY <1>1, TryAdmitEffect
  <2>2. Undisturbed
    BY <1>1, <2>1 DEF Undisturbed, Settled
  <2>3. \A s \in SlotIds : /\ busy[s] => busy'[s] /\ seeded_unowned'[s] = seeded_unowned[s]
                           /\ seeded_unowned'[s] => seeded_unowned[s]
    <3>1. busy \in [SlotIds -> BOOLEAN] /\ seeded_unowned \in [SlotIds -> BOOLEAN]
      BY DEF TypeOK
    <3> QED
      BY <2>1, <3>1
  <2> QED
    BY <1>1, <2>1, <2>2, <2>3
<1>2. CASE TimeOut(r) \/ HangUp(r)
  <2>1. /\ UNCHANGED <<slotVars, hint, slot, cache_ready>>
        /\ pc[r] \in {"waiting", "woken"} /\ pc'[r] # "admitted"
        /\ \A q \in Req : q # r => pc'[q] = pc[q]
    BY <1>2 DEF TimeOut, HangUp, TypeOK
  <2> QED
    BY <2>1 DEF Undisturbed, Settled, slotVars
<1>3. ASSUME NEW h \in Hints, Arrive(r, h)
      PROVE  /\ TryAdmit(r, h) /\ pc[r] \in {"new", "woken"}
             /\ hint'[r] = h /\ \A q \in Req : q # r => hint'[q] = hint[q]
  BY <1>3 DEF Arrive, TypeOK
<1>4. ASSUME Retry(r)
      PROVE  /\ TryAdmit(r, hint[r]) /\ pc[r] \in {"new", "woken"}
             /\ hint'[r] = hint[r] /\ \A q \in Req : q # r => hint'[q] = hint[q]
  BY <1>4 DEF Retry
<1> QED
  BY <1>1, <1>2, <1>3, <1>4 DEF Admit

\* What a release does to slots and requests.
LEMMA ReleaseEffect ==
  ASSUME TypeOK, Ownership, NEW r \in Req, Release(r)
  PROVE  /\ slot[r] \in SlotIds /\ ~seeded_unowned[slot[r]]
         /\ pc'[r] = "done"
         /\ \A q \in Req : /\ q # r /\ Settled(q) => pc'[q] = pc[q]
                           /\ pc'[q] = "admitted" => pc[q] = "admitted" /\ q # r
         /\ \A s \in SlotIds : s # slot[r] => busy'[s] = busy[s]
         /\ UNCHANGED <<seeded_unowned, resident, hint, slot, cache_ready>>
<1>1. slot[r] \in SlotIds /\ ~seeded_unowned[slot[r]]
  BY DEF Release, Ownership, AdmittedHasSlot, GuardedSlotsStayBusy
<1>2. [pc EXCEPT ![r] = "done"] \in [Req -> Status]
  BY DEF TypeOK, Status
<1>3. \A q \in Req : \/ pc'[q] = [pc EXCEPT ![r] = "done"][q]
                     \/ pc[q] = "waiting" /\ pc'[q] = "woken"
  BY <1>1, <1>2, WakeEffect DEF Release
<1>4. /\ pc'[r] = "done"
      /\ \A q \in Req : /\ q # r /\ Settled(q) => pc'[q] = pc[q]
                        /\ pc'[q] = "admitted" => pc[q] = "admitted" /\ q # r
  BY <1>3 DEF Release, Settled, TypeOK
<1> QED
  BY <1>1, <1>4 DEF Release, TypeOK

\* What a reconciliation does to slots and requests.
LEMMA ReconcileEffect ==
  ASSUME TypeOK, Ownership, NEW s \in SlotIds, Reconcile(s)
  PROVE  /\ Undisturbed
         /\ \A q \in Req : pc'[q] = "admitted" => pc[q] = "admitted"
         /\ \A t \in SlotIds : t # s => busy'[t] = busy[t]
         /\ UNCHANGED <<seeded_unowned, resident, hint, slot, cache_ready>>
<1>1. CASE seeded_unowned[s]
  <2>1. ReconcileSeededIdle(s) /\ pc \in [Req -> Status]
    BY <1>1 DEF Reconcile, TypeOK
  <2>2. \A q \in Req : pc'[q] = pc[q] \/ (pc[q] = "waiting" /\ pc'[q] = "woken")
    BY <2>1, WakeEffect DEF ReconcileSeededIdle
  <2> QED
    BY <2>1, <2>2 DEF ReconcileSeededIdle, Undisturbed, Settled, TypeOK
<1>2. CASE ~seeded_unowned[s]
  BY <1>2 DEF Reconcile, vars, slotVars, reqVars, Undisturbed
<1> QED
  BY <1>1, <1>2

\* Where a step may leave the task of a request that llama-server has
\* something for: it goes on without an answer only by failing or by sending.
Onward(stage) ==
  CASE stage = "restoring" -> {"warm"}
    [] stage = "warm" -> {"warming", "unprepared"}
    [] stage = "warming" -> {"unprepared"}
    [] stage = "saving" -> {"mark"}
    [] stage = "mark" -> {"send"}
    [] stage = "send" -> {"stream", "failed"}
    [] stage = "stream" -> {"failed"}
    [] OTHER -> {}

\* What a step leaves true of a request llama-server has something for.
Kept(q) ==
  /\ slot'[q] = slot[q] /\ hint'[q] = hint[q]
  /\ job'[q] = job[q] \/ job'[q] \in Onward(job[q])
  /\ GivenUp(q) => GivenUp(q)'
  /\ Held(q)' => Held(q)
  /\ Held(q) => Held(q)' \/ GivenUp(q)' \/ (Restart /\ q \in work)

\* Requests whose tasks stay where they are are kept.
LEMMA StayKept ==
  ASSUME BrokerTypeOK, JobShape, Undisturbed, missed' = missed,
         NEW q \in Req, job'[q] = job[q], job[q] \in Sent
  PROVE  Kept(q)
<1>1. Settled(q)
  BY DEF JobShape, Settled, Sent
<1> QED
  BY <1>1 DEF Kept, Undisturbed, GivenUp, Failed, Held

\* A request that llama-server has something for is at a stage where it may.
LEMMA OwedSent ==
  ASSUME BrokerTypeOK, QueueShape, WorkShape, NEW q \in Req, Unanswered(q)
  PROVE  job[q] \in Sent
<1>1. CASE q \in work
  BY <1>1 DEF WorkShape, Sent
<1>2. ASSUME NEW s \in SlotIds, NEW i \in 1 .. Len(pending[s]), pending[s][i].req = q
      PROVE  job[q] \in Sent
  <2>1. job[q] \in PendingIn(pending[s][i].kind) /\ pending[s][i] \in Call
    BY <1>2, ElementOfSeq DEF QueueShape, BrokerTypeOK
  <2> QED
    BY <2>1 DEF PendingIn, Call, Sent
<1> QED
  BY <1>1, <1>2 DEF Unanswered

\* What llama-server has for a request belongs to the same slot, whatever step
\* is taken, and its task has that slot until the broker gives up on it.
LEMMA OwedKept ==
  ASSUME BrokerTypeOK, Ownership, JobShape, QueueShape, WorkShape,
         [BrokerNext]_allVars
  PROVE  \A q \in Req : Unanswered(q) => Kept(q)
<1> SUFFICES ASSUME NEW q \in Req, Unanswered(q) PROVE Kept(q)
  OBVIOUS
<1>0. TypeOK /\ job \in [Req -> Stage]
  BY DEF BrokerTypeOK
<1>1. job[q] \in Sent
  BY OwedSent
<1>2. Settled(q) /\ slot[q] \in SlotIds
  BY <1>1 DEF JobShape, Settled, Sent
<1>3. ASSUME UNCHANGED vars PROVE Undisturbed
  BY <1>3 DEF vars, reqVars, Undisturbed
<1>4. ASSUME NEW r \in Req, Admit(r) PROVE Kept(q)
  BY <1>0, <1>1, <1>4, AdmitEffect, StayKept DEF Admit, brokerVars, crashVars
<1>5. ASSUME NEW r \in Req, JobStep(r) PROVE Kept(q)
  <2>1. CASE Begin(r)
    <3>1. Undisturbed
      BY <1>3, <2>1 DEF Begin, ClearResident, reqVars, Undisturbed
    <3>2. q # r
      BY <1>1, <2>1 DEF Begin, Running, Sent
    <3> QED
      BY <1>0, <1>1, <2>1, <3>1, <3>2, StayKept DEF Begin, Goto, crashVars
  <2>2. CASE Mark(r)
    <3>1. Undisturbed /\ missed' = missed
      BY <2>2 DEF Mark, MarkResident, reqVars, Undisturbed, crashVars
    <3>2. CASE q # r
      BY <1>0, <1>1, <2>2, <3>1, <3>2, StayKept DEF Mark, Goto
    <3>3. CASE q = r
      <4>1. job[q] = "mark" /\ job'[q] = "send"
        BY <1>0, <2>2, <3>3 DEF Mark, Running, Goto
      <4> QED
        BY <1>2, <3>1, <4>1 DEF Kept, Onward, Undisturbed, GivenUp, Failed, Held
    <3> QED
      BY <3>2, <3>3
  <2>3. CASE DropGuard(r)
    <3>1. Release(r) /\ job' = job /\ missed' = missed
      BY <2>3 DEF DropGuard, brokerVars, crashVars
    <3>2. slot' = slot /\ hint' = hint /\ (q # r => pc'[q] = pc[q]) /\ pc'[r] = "done"
      BY <1>0, <1>2, <3>1, ReleaseEffect
    <3>3. job[r] \in {"end", "unprepared", "failed"}
      BY <2>3 DEF DropGuard, Running
    <3> QED
      BY <1>1, <3>1, <3>2, <3>3 DEF Kept, GivenUp, Failed, Held, Sent
  <2>4. CASE ~(Begin(r) \/ Mark(r) \/ DropGuard(r))
    <3>1. UNCHANGED <<vars, missed>> /\ \A p \in Req : p # r => job'[p] = job[p]
      BY <1>0, <1>5, <2>4 DEF JobStep, TaskStep, Restore, Restored, RestoreFails,
         Warm, Warmed, Save, Saved, SaveFails, Send, StreamEnd, Fail, Goto, crashVars
    <3>2. CASE q # r
      BY <1>1, <1>3, <3>1, <3>2, StayKept
    <3>3. CASE q = r
      <4>1. Restore(r) \/ Save(r) => job[q] \notin Sent
        BY <3>3 DEF Restore, Save, Running, Sent
      <4>2. ~(Restored(r) \/ Warmed(r) \/ Saved(r) \/ StreamEnd(r))
        BY <3>3 DEF Restored, Warmed, Saved, StreamEnd
      <4>3. RestoreFails(r) \/ Warm(r) \/ SaveFails(r) \/ Send(r) \/ Fail(r)
        BY <1>1, <1>5, <2>4, <4>1, <4>2 DEF JobStep, TaskStep
      <4>4. job'[q] \in Onward(job[q])
        BY <1>0, <3>3, <4>3 DEF RestoreFails, Warm, SaveFails, Send, Fail, Running,
           Goto, Onward
      <4>5. ~Failed(q)
        BY <3>3, <4>3 DEF RestoreFails, Warm, SaveFails, Send, Fail, Running, Failed
      <4> QED
        BY <3>1, <4>4, <4>5 DEF Kept, GivenUp, Held, vars, reqVars
    <3> QED
      BY <3>2, <3>3
  <2> QED
    BY <2>1, <2>2, <2>3, <2>4
<1>6. ASSUME NEW s \in SlotIds, Reconcile(s) PROVE Kept(q)
  BY <1>0, <1>1, <1>6, ReconcileEffect, StayKept DEF Reconcile, crashVars
<1>7. ASSUME UNCHANGED <<vars, job, crashVars>> PROVE Kept(q)
  BY <1>1, <1>3, <1>7, StayKept DEF crashVars
<1>8. CASE Restart
  <2>1. /\ slot' = slot /\ hint' = hint /\ job' = job /\ missed \subseteq missed'
        /\ pc'[q] # "admitted" /\ (q \notin work => q \in missed')
    BY <1>8 DEF Restart, NewScheduler
  <2> QED
    BY <1>8, <2>1 DEF Kept, GivenUp, Failed, Held
<1>9. CASE UNCHANGED allVars
  BY <1>7, <1>9 DEF allVars, brokerVars
<1>10. ASSUME NEW r \in Req, LlamaFinish(r) PROVE Kept(q)
  BY <1>7, <1>10 DEF LlamaFinish
<1>11. ASSUME NEW s \in SlotIds, LlamaStep(s) PROVE Kept(q)
  BY <1>7, <1>11 DEF LlamaStep, LlamaStart, LlamaRestore, LlamaSave, LlamaDrop
<1>12. ASSUME NEW k \in CacheKeys, Evict(k) PROVE Kept(q)
  BY <1>7, <1>12 DEF Evict
<1>13. CASE Poll
  BY <1>7, <1>13 DEF Poll
<1> QED
  BY <1>4, <1>5, <1>6, <1>8, <1>9, <1>10, <1>11, <1>12, <1>13 DEF BrokerNext

\* A task sends a call of the given kind, and waits for it from then on.
Sending(r, kind) ==
  /\ pc[r] = "admitted" /\ SendFor(r, kind)
  /\ UNCHANGED <<vars, kv, work, saved, polled, missed>>
  /\ \/ kind = "restore" /\ job[r] = "restore" /\ job'[r] = "restoring"
     \/ kind = "warmup" /\ job[r] = "warm" /\ job'[r] = "warming"
     \/ kind = "save" /\ job[r] = "save" /\ job'[r] = "saving"
     \/ kind = "chat" /\ job[r] = "send" /\ job'[r] = "stream"

\* The steps of a task send a call or leave llama-server alone.
LEMMA JobSends ==
  ASSUME BrokerTypeOK, NEW r \in Req, JobStep(r)
  PROVE  \/ UNCHANGED llamaVars
         \/ \E kind \in {"restore", "warmup", "save", "chat"} : Sending(r, kind)
<1>0. job \in [Req -> Stage]
  BY DEF BrokerTypeOK
<1>1. CASE Restore(r) \/ Warm(r) \/ Save(r) \/ Send(r)
  BY <1>0, <1>1 DEF Restore, Warm, Save, Send, Sending, Running, Goto, llamaVars, crashVars
<1>2. CASE ~(Restore(r) \/ Warm(r) \/ Save(r) \/ Send(r))
  BY <1>2 DEF JobStep, TaskStep, Begin, Restored, RestoreFails, Warmed, Saved,
     SaveFails, Mark, StreamEnd, Fail, DropGuard, brokerVars
<1> QED
  BY <1>1, <1>2

\* How a step changes what llama-server has: not at all, by one call that is
\* sent, by one step of llama-server on a slot, or by one end of its work.
LEMMA LlamaMoves ==
  ASSUME BrokerTypeOK, [BrokerNext]_allVars
  PROVE  \/ UNCHANGED llamaVars
         \/ \E r \in Req : \E kind \in {"restore", "warmup", "save", "chat"} :
              JobStep(r) /\ Sending(r, kind)
         \/ \E s \in SlotIds : LlamaStep(s)
         \/ \E r \in Req : LlamaFinish(r)
<1>1. ASSUME NEW r \in Req, JobStep(r)
      PROVE  \/ UNCHANGED llamaVars
             \/ \E kind \in {"restore", "warmup", "save", "chat"} : Sending(r, kind)
  BY <1>1, JobSends
<1>2. CASE UNCHANGED allVars
  BY <1>2 DEF allVars, brokerVars
<1>3. ASSUME NEW r \in Req, Admit(r) PROVE UNCHANGED llamaVars
  BY <1>3 DEF Admit, brokerVars
<1>4. ASSUME NEW s \in SlotIds, Reconcile(s) PROVE UNCHANGED llamaVars
  BY <1>4 DEF Reconcile
<1>5. ASSUME NEW k \in CacheKeys, Evict(k) PROVE UNCHANGED llamaVars
  BY <1>5 DEF Evict
<1>6. CASE Poll \/ Restart
  BY <1>6 DEF Poll, Restart
<1> QED
  BY <1>1, <1>2, <1>3, <1>4, <1>5, <1>6 DEF BrokerNext

\* What a step of llama-server on a slot does to its queue and its work.
LEMMA LlamaStepEffect ==
  ASSUME BrokerTypeOK, NEW s \in SlotIds, LlamaStep(s)
  PROVE  /\ pending[s] # <<>>
         /\ pending'[s] = Tail(pending[s])
         /\ \A t \in SlotIds : t # s => pending'[t] = pending[t] /\ kv'[t] = kv[t]
         /\ UNCHANGED <<vars, job, polled, missed>>
         /\ \/ work' = work
            \/ /\ LlamaStart(s) /\ Head(pending[s]).kind \in {"warmup", "chat"}
               /\ work' = work \cup {Head(pending[s]).req}
<1>1. pending \in [SlotIds -> Seq(Call)] /\ kv \in [SlotIds -> KVContent]
  BY DEF BrokerTypeOK
<1>2. pending[s] # <<>> /\ Dequeue(s) /\ UNCHANGED <<vars, job, polled, missed>>
  BY DEF LlamaStep, LlamaStart, LlamaRestore, LlamaSave, LlamaDrop, Ready, crashVars
<1>3. \A t \in SlotIds : t # s => pending'[t] = pending[t] /\ kv'[t] = kv[t]
  BY <1>1, <1>2 DEF LlamaStep, LlamaStart, LlamaRestore, LlamaSave, LlamaDrop, Dequeue
<1>4. \/ work' = work
      \/ /\ LlamaStart(s) /\ Head(pending[s]).kind \in {"warmup", "chat"}
         /\ work' = work \cup {Head(pending[s]).req}
  BY DEF LlamaStep, LlamaStart, LlamaRestore, LlamaSave, LlamaDrop, Ready
<1> QED
  BY <1>1, <1>2, <1>3, <1>4 DEF Dequeue

\* A pending call, and what it is kept with.
Entry(s, i, call) ==
  /\ slot[call.req] = s /\ job[call.req] \in PendingIn(call.kind) /\ call.req \notin work
  /\ GivenUp(call.req) \/ Held(call.req)
  /\ Awaited(call) => i = Len(pending[s])
  /\ \A j \in 1 .. Len(pending[s]) : j < i /\ pending[s][j].req = call.req =>
       pending[s][j].kind \in {"restore", "save"}

\* Every pending call is such an entry.
LEMMA Entries ==
  ASSUME BrokerTypeOK, QueueShape
  PROVE  \A s \in SlotIds : /\ Len(pending[s]) \in Nat
                            /\ \A i \in 1 .. Len(pending[s]) :
                                 /\ pending[s][i] \in Call
                                 /\ pending[s][i].req \in Req
                                 /\ Unanswered(pending[s][i].req)
                                 /\ Entry(s, i, pending[s][i])
<1> SUFFICES ASSUME NEW s \in SlotIds
             PROVE  /\ Len(pending[s]) \in Nat
                    /\ \A i \in 1 .. Len(pending[s]) :
                         /\ pending[s][i] \in Call
                         /\ pending[s][i].req \in Req
                         /\ Unanswered(pending[s][i].req)
                         /\ Entry(s, i, pending[s][i])
  OBVIOUS
<1>1. pending[s] \in Seq(Call)
  BY DEF BrokerTypeOK
<1>2. /\ Len(pending[s]) \in Nat
      /\ \A i \in 1 .. Len(pending[s]) : pending[s][i] \in Call
  BY <1>1, LenProperties, ElementOfSeq
<1>3. \A i \in 1 .. Len(pending[s]) : pending[s][i].req \in Req
  BY <1>2 DEF Call
<1>4. \A i \in 1 .. Len(pending[s]) : Unanswered(pending[s][i].req)
  BY DEF Unanswered
<1>5. \A i \in 1 .. Len(pending[s]) : Entry(s, i, pending[s][i])
  BY DEF QueueShape, Entry
<1> QED
  BY <1>2, <1>3, <1>4, <1>5

\* What one send does to the queues.
LEMMA SendForEffect ==
  ASSUME BrokerTypeOK, NEW r \in Req, slot[r] \in SlotIds,
         NEW kind \in {"restore", "warmup", "save", "chat"}, SendFor(r, kind)
  PROVE  /\ \A t \in SlotIds : t # slot[r] => pending'[t] = pending[t]
         /\ Len(pending[slot[r]]) \in Nat
         /\ Len(pending'[slot[r]]) = Len(pending[slot[r]]) + 1
         /\ \A i \in 1 .. Len(pending[slot[r]]) : pending'[slot[r]][i] = pending[slot[r]][i]
         /\ pending'[slot[r]][Len(pending[slot[r]]) + 1] = [req |-> r, kind |-> kind]
<1>1. pending \in [SlotIds -> Seq(Call)] /\ pending[slot[r]] \in Seq(Call)
  BY DEF BrokerTypeOK
<1>2. [req |-> r, kind |-> kind] \in Call
  BY DEF Call
<1>3. /\ \A t \in SlotIds : t # slot[r] => pending'[t] = pending[t]
      /\ pending'[slot[r]] = Append(pending[slot[r]], [req |-> r, kind |-> kind])
  BY <1>1 DEF SendFor
<1> QED
  BY <1>1, <1>2, <1>3, AppendProperties, LenProperties

\* How a step leaves what was pending before it.
LEMMA EntryKept ==
  ASSUME BrokerTypeOK, Ownership, JobShape, QueueShape, WorkShape,
         [BrokerNext]_allVars, NEW s \in SlotIds, NEW j \in 1 .. Len(pending[s]),
         NEW call \in Call, call = pending[s][j]
  PROVE  /\ Entry(s, j, call) /\ Kept(call.req)
         /\ slot'[call.req] = s /\ job'[call.req] \in PendingIn(call.kind)
         /\ GivenUp(call.req)' \/ Held(call.req)'
         /\ Awaited(call)' => Awaited(call)
<1>1. Unanswered(call.req) /\ Entry(s, j, call) /\ call.req \in Req
  BY Entries
<1>2. Kept(call.req)
  BY <1>1, OwedKept
<1>3. call.kind \in {"restore", "warmup", "save", "chat"}
  BY DEF Call
<1>4. \/ job'[call.req] = job[call.req]
      \/ job'[call.req] \in Onward(job[call.req])
  BY <1>2 DEF Kept
<1>5. job[call.req] \in PendingIn(call.kind)
  BY <1>1 DEF Entry
<1>6. job'[call.req] \in PendingIn(call.kind)
  BY <1>3, <1>4, <1>5 DEF PendingIn, Onward
<1>7. Awaited(call)' => Awaited(call)
  <2> DEFINE W == [k \in {"restore", "warmup", "save", "chat"} |->
                    IF k = "restore" THEN "restoring" ELSE IF k = "warmup" THEN "warming"
                    ELSE IF k = "save" THEN "saving" ELSE "stream"]
  <2>1. Awaited(call)' <=> Held(call.req)' /\ job'[call.req] = W[call.kind]
    BY <1>3 DEF Awaited, Running, Held
  <2>2. Awaited(call) <=> Held(call.req) /\ job[call.req] = W[call.kind]
    BY <1>3 DEF Awaited, Running, Held
  <2>3. job'[call.req] = W[call.kind] => job[call.req] = W[call.kind]
    BY <1>3, <1>4, <1>5 DEF PendingIn, Onward
  <2> HIDE DEF W
  <2> QED
    BY <1>2, <2>1, <2>2, <2>3 DEF Kept
<1> QED
  BY <1>1, <1>2, <1>6, <1>7 DEF Entry, Kept

\* Every step keeps the queues' shape.
LEMMA QueueShapeStep ==
  ASSUME BrokerTypeOK, Ownership, JobShape, QueueShape, WorkShape,
         [BrokerNext]_allVars
  PROVE  QueueShape'
<1>0. BrokerTypeOK'
  BY BrokerTypeStep
<1> SUFFICES ASSUME NEW s \in SlotIds, NEW i \in 1 .. Len(pending'[s]),
                    NEW call \in Call, call = pending'[s][i]
             PROVE  Entry(s, i, call)'
  <2>1. \A s \in SlotIds : pending'[s] \in Seq(Call)
    BY <1>0 DEF BrokerTypeOK
  <2>2. \A s \in SlotIds : \A i \in 1 .. Len(pending'[s]) : pending'[s][i] \in Call
    BY <2>1, ElementOfSeq
  <2> QED
    BY <2>2 DEF QueueShape, Entry
<1> DEFINE q == call.req
<1>1. Len(pending'[s]) \in Nat /\ Len(pending[s]) \in Nat /\ q \in Req
  <2>1. pending'[s] \in Seq(Call)
    BY <1>0 DEF BrokerTypeOK
  <2> QED
    BY <2>1, LenProperties, Entries DEF Call
<1>2. ASSUME NEW j \in 1 .. Len(pending[s]), call = pending[s][j]
      PROVE  /\ Entry(s, j, call) /\ Kept(q)
             /\ slot'[q] = s /\ job'[q] \in PendingIn(call.kind)
             /\ GivenUp(q)' \/ Held(q)'
             /\ Awaited(call)' => Awaited(call)
  BY <1>2, EntryKept
<1>3. CASE pending' = pending /\ work' \subseteq work
  <2>1. i \in 1 .. Len(pending[s]) /\ call = pending[s][i]
    BY <1>3
  <2> QED
    BY <1>2, <1>3, <2>1 DEF Entry
<1>4. ASSUME NEW r \in Req, NEW kind \in {"restore", "warmup", "save", "chat"},
             Sending(r, kind)
      PROVE  Entry(s, i, call)'
  <2>1. /\ pc[r] = "admitted" /\ SendFor(r, kind) /\ UNCHANGED <<vars, work>>
        /\ \/ kind = "restore" /\ job[r] = "restore" /\ job'[r] = "restoring"
           \/ kind = "warmup" /\ job[r] = "warm" /\ job'[r] = "warming"
           \/ kind = "save" /\ job[r] = "save" /\ job'[r] = "saving"
           \/ kind = "chat" /\ job[r] = "send" /\ job'[r] = "stream"
    BY <1>4 DEF Sending
  <2>2. slot[r] \in SlotIds
    BY <2>1 DEF Ownership, AdmittedHasSlot
  <2>3. /\ \A t \in SlotIds : t # slot[r] => pending'[t] = pending[t]
        /\ Len(pending'[slot[r]]) = Len(pending[slot[r]]) + 1
        /\ \A k \in 1 .. Len(pending[slot[r]]) : pending'[slot[r]][k] = pending[slot[r]][k]
        /\ pending'[slot[r]][Len(pending[slot[r]]) + 1] = [req |-> r, kind |-> kind]
    BY <2>1, <2>2, SendForEffect
  <2>4. CASE s # slot[r]
    <3>1. pending'[s] = pending[s] /\ work' = work
      BY <2>1, <2>3, <2>4
    <3>2. i \in 1 .. Len(pending[s]) /\ call = pending[s][i]
      BY <3>1
    <3> QED
      BY <1>2, <3>1, <3>2 DEF Entry
  <2>5. CASE s = slot[r] /\ i <= Len(pending[s])
    <3>1. i \in 1 .. Len(pending[s]) /\ call = pending[s][i]
      BY <1>1, <2>3, <2>5
    <3>2. /\ Entry(s, i, call) /\ Kept(q)
          /\ slot'[q] = s /\ job'[q] \in PendingIn(call.kind)
          /\ GivenUp(q)' \/ Held(q)'
          /\ Awaited(call)' => Awaited(call)
      BY <1>2, <3>1
    <3>3. ~Awaited(call)'
      <4> SUFFICES ASSUME Awaited(call) PROVE FALSE
        BY <3>2
      <4>1. pc[q] = "admitted" /\ job[q] \in {"restoring", "warming", "saving", "stream"}
        BY DEF Awaited, Running
      <4>2. q = r
        BY <1>1, <2>1, <2>5, <3>2, <4>1 DEF Entry, Ownership, MutualExclusion
      <4> QED
        BY <2>1, <4>1, <4>2
    <3>4. \A j \in 1 .. Len(pending'[s]) : j < i => pending'[s][j] = pending[s][j]
      BY <1>1, <2>3, <2>5
    <3>5. \A j \in 1 .. Len(pending'[s]) : j < i => j \in 1 .. Len(pending[s])
      BY <1>1, <2>3, <2>5
    <3> QED
      BY <2>1, <3>2, <3>3, <3>4, <3>5 DEF Entry
  <2>6. CASE s = slot[r] /\ i > Len(pending[s])
    <3>1. i = Len(pending[s]) + 1 /\ i = Len(pending'[s]) /\ call = [req |-> r, kind |-> kind]
      BY <1>1, <2>3, <2>6
    <3>2. \A j \in 1 .. Len(pending'[s]) : j < i /\ pending'[s][j].req = r =>
            pending'[s][j].kind \in {"restore", "save"}
      <4> SUFFICES ASSUME NEW j \in 1 .. Len(pending'[s]), j < i, pending'[s][j].req = r
                   PROVE  pending'[s][j].kind \in {"restore", "save"}
        OBVIOUS
      <4>1. j \in 1 .. Len(pending[s])
        BY <1>1, <3>1
      <4>2. pending'[s][j] = pending[s][j]
        BY <2>3, <2>6, <4>1
      <4>3. pending[s][j] \in Call /\ Entry(s, j, pending[s][j])
        BY <4>1, Entries
      <4>4. job[r] \in PendingIn(pending[s][j].kind)
        BY <4>2, <4>3 DEF Entry
      <4>5. pending[s][j].kind \in {"restore", "warmup", "save", "chat"}
        BY <4>3 DEF Call
      <4> QED
        BY <2>1, <4>2, <4>4, <4>5 DEF PendingIn
    <3>3. r \notin work'
      BY <2>1 DEF WorkShape
    <3>4. slot'[r] = s /\ job'[r] \in PendingIn(kind) /\ Held(r)'
      BY <2>1, <2>6 DEF PendingIn, Held, vars, reqVars
    <3>5. call.req = r /\ call.kind = kind
      BY <3>1
    <3> QED
      BY <3>1, <3>2, <3>3, <3>4, <3>5 DEF Entry
  <2> QED
    BY <1>1, <2>4, <2>5, <2>6
<1>5. ASSUME NEW t \in SlotIds, LlamaStep(t) PROVE Entry(s, i, call)'
  <2>1. /\ pending[t] # <<>> /\ pending'[t] = Tail(pending[t])
        /\ \A u \in SlotIds : u # t => pending'[u] = pending[u]
        /\ \/ work' = work
           \/ /\ Head(pending[t]).kind \in {"warmup", "chat"}
              /\ work' = work \cup {Head(pending[t]).req}
    BY <1>5, LlamaStepEffect
  <2>2. /\ Len(pending[t]) \in Nat \ {0}
        /\ Head(pending[t]) = pending[t][1]
        /\ Len(Tail(pending[t])) = Len(pending[t]) - 1
        /\ \A k \in 1 .. Len(pending[t]) - 1 : Tail(pending[t])[k] = pending[t][k + 1]
    BY <2>1, QueueHead
  <2>3. 1 \in 1 .. Len(pending[t]) /\ slot[Head(pending[t]).req] = t
    BY <2>2, Entries DEF Entry
  <2>4. CASE s # t
    <3>1. pending'[s] = pending[s] /\ i \in 1 .. Len(pending[s]) /\ call = pending[s][i]
      BY <2>1, <2>4
    <3>2. /\ Entry(s, i, call) /\ slot'[q] = s /\ job'[q] \in PendingIn(call.kind)
          /\ GivenUp(q)' \/ Held(q)'
          /\ Awaited(call)' => Awaited(call)
      BY <1>2, <3>1
    <3>3. q \notin work'
      BY <2>1, <2>3, <2>4, <3>2 DEF Entry
    <3> QED
      BY <3>1, <3>2, <3>3 DEF Entry
  <2>5. CASE s = t
    <3>1. Len(pending'[s]) = Len(pending[s]) - 1 /\ Len(pending[s]) \in Nat
      BY <2>1, <2>2, <2>5
    <3>2. \A k \in 1 .. Len(pending'[s]) :
            k + 1 \in 1 .. Len(pending[s]) /\ pending'[s][k] = pending[s][k + 1]
      <4> SUFFICES ASSUME NEW k \in 1 .. Len(pending'[s])
                   PROVE  /\ k + 1 \in 1 .. Len(pending[s])
                          /\ pending'[s][k] = pending[s][k + 1]
        OBVIOUS
      <4>1. k \in 1 .. Len(pending[t]) - 1
        BY <2>5, <3>1
      <4>2. Tail(pending[t])[k] = pending[t][k + 1]
        BY <2>2, <4>1
      <4>3. k + 1 \in 1 .. Len(pending[s])
        BY <3>1
      <4>4. pending'[s] = Tail(pending[t]) /\ pending[t] = pending[s]
        BY <2>1, <2>5
      <4> QED
        BY <4>2, <4>3, <4>4
    <3>3. i + 1 \in 1 .. Len(pending[s]) /\ call = pending[s][i + 1]
      BY <3>2
    <3>4. /\ Entry(s, i + 1, call) /\ slot'[q] = s /\ job'[q] \in PendingIn(call.kind)
          /\ GivenUp(q)' \/ Held(q)'
          /\ Awaited(call)' => Awaited(call)
      BY <1>2, <3>3
    <3>5. \A j \in 1 .. Len(pending[s]) : j < i + 1 /\ pending[s][j].req = q =>
            pending[s][j].kind \in {"restore", "save"}
      BY <3>4 DEF Entry
    <3>6. q \notin work'
      <4>1. q \notin work
        BY <3>4 DEF Entry
      <4>2. Head(pending[t]).req = q => Head(pending[t]).kind \in {"restore", "save"}
        <5>1. 1 < i + 1 /\ Head(pending[t]) = pending[s][1] /\ 1 \in 1 .. Len(pending[s])
          BY <1>1, <2>2, <2>3, <2>5
        <5> QED
          BY <3>5, <5>1
      <4> QED
        BY <2>1, <4>1, <4>2
    <3>7. Awaited(call)' => i = Len(pending'[s])
      BY <1>1, <3>1, <3>4 DEF Entry
    <3>8. \A j \in 1 .. Len(pending'[s]) : j < i /\ pending'[s][j].req = q =>
            pending'[s][j].kind \in {"restore", "save"}
      <4> SUFFICES ASSUME NEW j \in 1 .. Len(pending'[s]), j < i, pending'[s][j].req = q
                   PROVE  pending'[s][j].kind \in {"restore", "save"}
        OBVIOUS
      <4>1. j + 1 \in 1 .. Len(pending[s]) /\ pending'[s][j] = pending[s][j + 1]
        BY <3>2
      <4>2. j + 1 < i + 1
        OBVIOUS
      <4> QED
        BY <3>5, <4>1, <4>2
    <3> QED
      BY <3>4, <3>6, <3>7, <3>8 DEF Entry
  <2> QED
    BY <2>4, <2>5
<1>6. ASSUME NEW r \in Req, LlamaFinish(r) PROVE Entry(s, i, call)'
  BY <1>3, <1>6 DEF LlamaFinish
<1>7. CASE UNCHANGED llamaVars
  BY <1>3, <1>7 DEF llamaVars
<1> QED
  BY <1>4, <1>5, <1>6, <1>7, LlamaMoves

\* What llama-server works on was sent for the slot it works on.
LEMMA Works ==
  ASSUME BrokerTypeOK, JobShape, WorkShape, NEW q \in work
  PROVE  /\ q \in Req /\ Unanswered(q)
         /\ job[q] \in {"warming", "stream", "unprepared", "failed"}
         /\ Settled(q) /\ slot[q] \in SlotIds
         /\ \/ GivenUp(q) \/ Held(q)
            \/ busy[slot[q]] /\ seeded_unowned[slot[q]]
<1>1. q \in Req
  BY DEF BrokerTypeOK
<1>2. /\ job[q] \in {"warming", "stream", "unprepared", "failed"}
      /\ \/ GivenUp(q) \/ Held(q)
         \/ busy[slot[q]] /\ seeded_unowned[slot[q]]
  BY DEF WorkShape
<1> QED
  BY <1>1, <1>2 DEF Unanswered, JobShape, Settled

\* How a step changes the seeded slots: a slot stays seeded and busy unless
\* the broker restarts or the reconciliation task frees it after a poll.
LEMMA SeededStays ==
  ASSUME BrokerTypeOK, Ownership, [BrokerNext]_allVars, ~Restart
  PROVE  \A s \in SlotIds :
           /\ seeded_unowned'[s] => seeded_unowned[s]
           /\ busy[s] /\ seeded_unowned[s] =>
                (busy'[s] /\ seeded_unowned'[s]) \/ (s \in polled /\ Reconcile(s))
<1>0. TypeOK
  BY DEF BrokerTypeOK
<1> SUFFICES ASSUME NEW s \in SlotIds
             PROVE  /\ seeded_unowned'[s] => seeded_unowned[s]
                    /\ busy[s] /\ seeded_unowned[s] =>
                         (busy'[s] /\ seeded_unowned'[s]) \/ (s \in polled /\ Reconcile(s))
  OBVIOUS
<1>1. ASSUME NEW r \in Req, Admit(r)
      PROVE  /\ seeded_unowned'[s] => seeded_unowned[s]
             /\ busy[s] /\ seeded_unowned[s] => busy'[s] /\ seeded_unowned'[s]
  BY <1>0, <1>1, AdmitEffect
<1>2. ASSUME NEW r \in Req, JobStep(r)
      PROVE  /\ seeded_unowned'[s] => seeded_unowned[s]
             /\ busy[s] /\ seeded_unowned[s] => busy'[s] /\ seeded_unowned'[s]
  <2>1. CASE DropGuard(r)
    <3>1. Release(r)
      BY <2>1 DEF DropGuard
    <3> QED
      BY <1>0, <3>1, ReleaseEffect
  <2>2. CASE ~DropGuard(r)
    <3>1. UNCHANGED <<busy, seeded_unowned>>
      BY <1>2, <2>2 DEF JobStep, TaskStep, Begin, Restore, Restored, RestoreFails, Warm,
       Warmed, Save, Saved, SaveFails, Mark, Send, StreamEnd, Fail, ClearResident, MarkResident, vars, slotVars
    <3> QED
      BY <3>1
  <2> QED
    BY <2>1, <2>2
<1>3. ASSUME NEW t \in SlotIds, Reconcile(t)
      PROVE  /\ seeded_unowned'[s] => seeded_unowned[s]
             /\ busy[s] /\ seeded_unowned[s] =>
                  (busy'[s] /\ seeded_unowned'[s]) \/ (s \in polled /\ Reconcile(s))
  <2>1. t \in polled
    BY <1>3 DEF Reconcile
  <2> QED
    BY <1>0, <1>3, <2>1, ReconcileEffect
<1>4. CASE UNCHANGED vars
  BY <1>4 DEF vars, slotVars
<1> QED
  <2>1. ASSUME NEW t \in SlotIds, LlamaStep(t) PROVE UNCHANGED vars
    BY <2>1 DEF LlamaStep, LlamaStart, LlamaRestore, LlamaSave, LlamaDrop
  <2>2. ASSUME NEW r \in Req, LlamaFinish(r) PROVE UNCHANGED vars
    BY <2>2 DEF LlamaFinish
  <2>3. ASSUME NEW k \in CacheKeys, Evict(k) PROVE UNCHANGED vars
    BY <2>3 DEF Evict
  <2>4. CASE Poll
    BY <1>4, <2>4 DEF Poll
  <2>5. CASE UNCHANGED allVars
    BY <1>4, <2>5 DEF allVars
  <2> QED
    BY <1>1, <1>2, <1>3, <1>4, <2>1, <2>2, <2>3, <2>4, <2>5 DEF BrokerNext

\* Work that begins was pending: it is given up, or its task has the slot.
LEMMA NewWork ==
  ASSUME BrokerTypeOK, QueueShape, [BrokerNext]_allVars,
         NEW q \in Req, q \in work', q \notin work
  PROVE  /\ Unanswered(q) /\ slot[q] \in SlotIds
         /\ job[q] \in {"warming", "stream", "unprepared", "failed"}
         /\ GivenUp(q) \/ Held(q)
         /\ ~Restart /\ UNCHANGED <<vars, job, missed, polled>>
<1>1. PICK s \in SlotIds : LlamaStep(s) /\ work' # work
  BY LlamaMoves DEF LlamaFinish, Sending, llamaVars
<1>2. /\ LlamaStart(s) /\ pending[s] # <<>> /\ Head(pending[s]).kind \in {"warmup", "chat"}
      /\ work' = work \cup {Head(pending[s]).req}
      /\ UNCHANGED <<vars, job, missed, polled>>
  BY <1>1, LlamaStepEffect
<1>3. /\ 1 \in 1 .. Len(pending[s]) /\ q = pending[s][1].req
      /\ pending[s][1].kind \in {"warmup", "chat"}
  BY <1>2, QueueHead
<1>4. Unanswered(q) /\ Entry(s, 1, pending[s][1])
  BY <1>3, Entries
<1>5. ~Restart
  BY <1>1 DEF Restart, llamaVars
<1>6. job[q] \in {"warming", "stream", "unprepared", "failed"}
  BY <1>3, <1>4 DEF Entry, PendingIn
<1> QED
  BY <1>2, <1>3, <1>4, <1>5, <1>6 DEF Entry

\* Every step keeps the shape of llama-server's work.
LEMMA WorkShapeStep ==
  ASSUME BrokerTypeOK, Ownership, JobShape, QueueShape, WorkShape, PollShape,
         [BrokerNext]_allVars
  PROVE  WorkShape'
<1>0. BrokerTypeOK'
  BY BrokerTypeStep
<1> SUFFICES ASSUME NEW q \in Req, q \in work'
             PROVE  /\ job'[q] \in {"warming", "stream", "unprepared", "failed"}
                    /\ \/ GivenUp(q)' \/ Held(q)'
                       \/ busy'[slot'[q]] /\ seeded_unowned'[slot'[q]]
  BY <1>0 DEF WorkShape, BrokerTypeOK
<1>1. CASE q \notin work
  <2>1. /\ Unanswered(q) /\ job[q] \in {"warming", "stream", "unprepared", "failed"}
        /\ GivenUp(q) \/ Held(q)
        /\ UNCHANGED job /\ ~Restart
    BY <1>1, NewWork
  <2> QED
    BY <2>1, OwedKept DEF Kept
<1>2. CASE q \in work
  <2>1. /\ Unanswered(q) /\ slot[q] \in SlotIds
        /\ job[q] \in {"warming", "stream", "unprepared", "failed"}
        /\ \/ GivenUp(q) \/ Held(q)
           \/ busy[slot[q]] /\ seeded_unowned[slot[q]]
    BY <1>2, Works
  <2>2. Kept(q)
    BY <2>1, OwedKept
  <2>5. job'[q] \in {"warming", "stream", "unprepared", "failed"}
    BY <2>1, <2>2 DEF Kept, Onward
  <2>3. CASE Restart
    <3>1. Processing(slot[q])
      BY <1>2 DEF Processing
    <3>2. busy'[slot[q]] /\ seeded_unowned'[slot[q]]
      BY <2>1, <2>3, <3>1 DEF Restart, NewScheduler
    <3> QED
      BY <2>2, <2>5, <3>2 DEF Kept
  <2>4. CASE ~Restart
    <3>1. CASE GivenUp(q) \/ Held(q)
      BY <2>2, <2>4, <2>5, <3>1 DEF Kept
    <3>2. CASE busy[slot[q]] /\ seeded_unowned[slot[q]]
      <4>1. \/ busy'[slot[q]] /\ seeded_unowned'[slot[q]]
            \/ slot[q] \in polled
        BY <2>1, <2>4, <3>2, SeededStays
      <4>2. slot[q] \in polled => GivenUp(q)
        BY <1>2, <3>2 DEF PollShape
      <4> QED
        BY <2>2, <2>5, <4>1, <4>2 DEF Kept
    <3> QED
      BY <2>1, <3>1, <3>2
  <2> QED
    BY <2>3, <2>4
<1> QED
  BY <1>1, <1>2

\* Every step keeps stale polls harmless.
LEMMA PollShapeStep ==
  ASSUME BrokerTypeOK, Ownership, JobShape, QueueShape, WorkShape, PollShape,
         [BrokerNext]_allVars
  PROVE  PollShape'
<1>0. BrokerTypeOK'
  BY BrokerTypeStep
<1> SUFFICES ASSUME NEW s \in SlotIds, s \in polled', seeded_unowned'[s],
                    NEW q \in Req, q \in work', slot'[q] = s
             PROVE  GivenUp(q)'
  BY <1>0 DEF PollShape, BrokerTypeOK
<1>1. CASE Restart
  BY <1>1 DEF Restart
<1>2. CASE Poll
  <2>1. ~Processing(s) /\ UNCHANGED <<vars, work>>
    BY <1>2 DEF Poll, llamaVars
  <2> QED
    BY <2>1 DEF Processing, vars, reqVars
<1>3. CASE ~Restart /\ ~Poll
  <2>1. polled' \subseteq polled
    <3>1. ASSUME NEW r \in Req, JobStep(r) PROVE polled' = polled
      BY <3>1 DEF JobStep, TaskStep, Begin, Restore, Restored, RestoreFails, Warm,
       Warmed, Save, Saved, SaveFails, Mark, Send, StreamEnd, Fail, DropGuard, brokerVars
    <3>2. CASE UNCHANGED allVars
      BY <3>2 DEF allVars, brokerVars
    <3> QED
      BY <1>3, <3>1, <3>2 DEF BrokerNext, Admit, LlamaFinish, Reconcile,
         LlamaStep, LlamaStart, LlamaRestore, LlamaSave, LlamaDrop, Evict, brokerVars
  <2>2. s \in polled /\ seeded_unowned[s]
    BY <1>3, <2>1, SeededStays
  <2>3. CASE q \in work
    <3>1. Unanswered(q)
      BY <2>3, Works
    <3>2. Kept(q)
      BY <3>1, OwedKept
    <3>3. GivenUp(q)
      BY <2>2, <2>3, <3>2 DEF Kept, PollShape
    <3> QED
      BY <3>2, <3>3 DEF Kept
  <2>4. CASE q \notin work
    <3>1. /\ Unanswered(q) /\ (GivenUp(q) \/ Held(q))
          /\ UNCHANGED vars
      BY <2>4, NewWork
    <3>2. Kept(q)
      BY <3>1, OwedKept
    <3>3. ~Held(q)
      BY <2>2, <3>1 DEF Held, Ownership, GuardedSlotsStayBusy, vars, reqVars
    <3> QED
      BY <3>1, <3>2, <3>3 DEF Kept
  <2> QED
    BY <2>3, <2>4
<1> QED
  BY <1>1, <1>2, <1>3

-----------------------------------------------------------------------------
\* Types and overlap, from the invariants so far.

\* What is known of the requests llama-server has something for.
Owed == BrokerTypeOK /\ Ownership /\ JobShape /\ QueueShape /\ WorkShape /\ PollShape

\* A starting llama-server has nothing.
LEMMA OwedInit == BrokerInit => Owed
<1> SUFFICES ASSUME BrokerInit PROVE Owed
  OBVIOUS
<1>1. TypeOK /\ Ownership
  BY TypeInit, OwnershipInit DEF BrokerInit
<1>2. BrokerTypeOK
  <2>1. <<>> \in Seq(Call)
    BY EmptySeq
  <2> QED
    BY <1>1, <2>1, BrokerAssumption DEF BrokerInit, BrokerTypeOK, Stage, KVContent
<1>3. \A s \in SlotIds : Len(pending[s]) = 0
  BY EmptySeq DEF BrokerInit
<1>4. JobShape /\ QueueShape /\ WorkShape /\ PollShape
  BY <1>3 DEF BrokerInit, JobShape, QueueShape, WorkShape, PollShape
<1> QED
  BY <1>1, <1>2, <1>4 DEF Owed

\* Every step keeps what is known of the requests llama-server has.
LEMMA OwedStep == Owed /\ [BrokerNext]_allVars => Owed'
<1> SUFFICES ASSUME Owed, [BrokerNext]_allVars PROVE Owed'
  OBVIOUS
<1>1. /\ BrokerTypeOK /\ Ownership /\ JobShape /\ QueueShape /\ WorkShape
      /\ PollShape /\ TypeOK
  BY DEF Owed, BrokerTypeOK
<1>2. Ownership'
  BY <1>1, SchedulerKept
<1>3. BrokerTypeOK' /\ JobShape' /\ QueueShape'
  BY <1>1, BrokerTypeStep, JobShapeStep, QueueShapeStep
<1>4. WorkShape' /\ PollShape'
  BY <1>1, WorkShapeStep, PollShapeStep
<1> QED
  BY <1>2, <1>3, <1>4 DEF Owed

\* The forwarding tasks, llama-server's queues and the KV store always have
\* the types the code gives them, across restarts of the broker.
THEOREM BrokerTypeCorrect == BrokerSpec => []BrokerTypeOK
<1>1. Owed => BrokerTypeOK
  BY DEF Owed
<1> QED
  BY <1>1, OwedInit, OwedStep, PTL DEF BrokerSpec

\* A request is never put onto a slot where llama-server works for another
\* one that the broker did not give up on, or know nothing of at a restart.
THEOREM WorkNeverOverlaps == BrokerSpec => []NoOverlappingWork
<1>1. Owed => NoOverlappingWork
  <2> SUFFICES ASSUME Owed, NEW r \in Req, pc[r] = "admitted",
                      NEW q \in work, q # r, slot[q] = slot[r]
               PROVE  GivenUp(q)
    BY DEF NoOverlappingWork, GivenUp
  <2>1. /\ q \in Req
        /\ \/ GivenUp(q) \/ Held(q)
           \/ busy[slot[q]] /\ seeded_unowned[slot[q]]
    BY Works DEF Owed
  <2>2. ~Held(q)
    BY <2>1 DEF Held, Owed, Ownership, MutualExclusion
  <2>3. ~seeded_unowned[slot[q]]
    BY DEF Owed, Ownership, GuardedSlotsStayBusy
  <2> QED
    BY <2>1, <2>2, <2>3
<1> QED
  BY <1>1, OwedInit, OwedStep, PTL DEF BrokerSpec

\* What llama-server has for a request was given up, or the request's slot is
\* held by its task or seeded.
LEMMA OwedHolder ==
  ASSUME Owed, NEW q \in Req, Unanswered(q)
  PROVE  /\ job[q] \in Sent /\ slot[q] \in SlotIds
         /\ \/ GivenUp(q) \/ Held(q)
            \/ q \in work /\ seeded_unowned[slot[q]]
<1>0. BrokerTypeOK /\ JobShape /\ QueueShape /\ WorkShape
  BY DEF Owed
<1>1. job[q] \in Sent
  BY <1>0, OwedSent
<1>2. slot[q] \in SlotIds
  BY <1>0, <1>1 DEF JobShape, Sent
<1>3. CASE q \in work
  BY <1>0, <1>1, <1>2, <1>3, Works
<1>4. ASSUME NEW s \in SlotIds, NEW i \in 1 .. Len(pending[s]), pending[s][i].req = q
      PROVE  GivenUp(q) \/ Held(q)
  BY <1>0, <1>4, Entries DEF Entry
<1> QED
  BY <1>1, <1>2, <1>3, <1>4 DEF Unanswered

\* What was pending in a crash stays on record.
LEMMA MissedGrows == [BrokerNext]_allVars => missed \subseteq missed'
<1>1. ASSUME NEW r \in Req, JobStep(r) PROVE missed' = missed
  BY <1>1 DEF JobStep, TaskStep, Begin, Restore, Restored, RestoreFails, Warm,
     Warmed, Save, Saved, SaveFails, Mark, Send, StreamEnd, Fail, DropGuard,
     brokerVars, crashVars
<1>2. CASE UNCHANGED allVars
  BY <1>2 DEF allVars, brokerVars, crashVars
<1>3. CASE Restart
  BY <1>3 DEF Restart
<1> QED
  BY <1>1, <1>2, <1>3 DEF BrokerNext, Admit, LlamaFinish, Poll, Reconcile,
     LlamaStep, LlamaStart, LlamaRestore, LlamaSave, LlamaDrop, Evict, brokerVars,
     crashVars

\* Who gives a slot back, restarts aside.
LEMMA WhoFrees ==
  ASSUME Owed, [BrokerNext]_allVars, ~Restart, NEW s \in SlotIds, busy[s], ~busy'[s]
  PROVE  \/ \E r \in Req : DropGuard(r) /\ pc[r] = "admitted" /\ slot[r] = s
         \/ s \in polled /\ seeded_unowned[s]
<1>0. TypeOK /\ Ownership
  BY DEF Owed, BrokerTypeOK
<1>1. ASSUME NEW r \in Req, JobStep(r)
      PROVE  DropGuard(r) /\ pc[r] = "admitted" /\ slot[r] = s
  <2>1. DropGuard(r)
    BY <1>1 DEF JobStep, TaskStep, Begin, Restore, Restored, RestoreFails, Warm,
       Warmed, Save, Saved, SaveFails, Mark, Send, StreamEnd, Fail, ClearResident,
       MarkResident, vars, slotVars
  <2>2. Release(r)
    BY <2>1 DEF DropGuard
  <2>3. pc[r] = "admitted"
    BY <2>2 DEF Release
  <2> QED
    BY <1>0, <2>1, <2>2, <2>3, ReleaseEffect
<1>2. ASSUME NEW t \in SlotIds, Reconcile(t) PROVE s \in polled /\ seeded_unowned[s]
  <2>1. t = s
    BY <1>0, <1>2, ReconcileEffect
  <2> QED
    BY <1>2, <2>1 DEF Reconcile, vars, slotVars
<1>3. ASSUME NEW r \in Req, Admit(r) PROVE FALSE
  BY <1>0, <1>3, AdmitEffect
<1>4. CASE UNCHANGED vars
  BY <1>4 DEF vars, slotVars
<1>5. CASE UNCHANGED allVars
  BY <1>4, <1>5 DEF allVars
<1> QED
  BY <1>1, <1>2, <1>3, <1>4, <1>5 DEF BrokerNext, LlamaFinish, Poll, LlamaStep,
     LlamaStart, LlamaRestore, LlamaSave, LlamaDrop, Evict

\* A slot is given back only when llama-server has answered all that was sent
\* for it, failed calls and calls pending in a crash aside
\* (SlotFreedOnlyWhenDone): neither a guard, nor a reconciliation from a stale
\* poll, nor the seeding of a new broker frees it before.
THEOREM SlotsAreFreedOnlyWhenDone == BrokerSpec => SlotFreedOnlyWhenDone
<1>1. Owed /\ [BrokerNext]_allVars =>
        [ \A q \in Req : Unanswered(q) /\ busy[slot[q]] /\ ~busy'[slot[q]] =>
            Failed(q) \/ q \in missed' ]_allVars
  <2> SUFFICES ASSUME Owed, [BrokerNext]_allVars, NEW q \in Req, Unanswered(q),
                      busy[slot[q]], ~busy'[slot[q]]
               PROVE  Failed(q) \/ q \in missed'
    OBVIOUS
  <2>1. /\ job[q] \in Sent /\ slot[q] \in SlotIds
        /\ \/ GivenUp(q) \/ Held(q)
           \/ q \in work /\ seeded_unowned[slot[q]]
    BY OwedHolder
  <2>2. CASE GivenUp(q)
    BY <2>2, MissedGrows DEF GivenUp
  <2>3. CASE Restart
    <3>1. q \in work => busy'[slot[q]]
      BY <2>1, <2>3 DEF Restart, NewScheduler, Processing
    <3> QED
      BY <2>3, <3>1 DEF Restart
  <2>4. CASE ~Restart /\ ~GivenUp(q)
    <3>1. \/ \E r \in Req : DropGuard(r) /\ pc[r] = "admitted" /\ slot[r] = slot[q]
          \/ slot[q] \in polled /\ seeded_unowned[slot[q]]
      BY <2>1, <2>4, WhoFrees
    <3>2. ASSUME NEW r \in Req, DropGuard(r), pc[r] = "admitted", slot[r] = slot[q]
          PROVE  Failed(q)
      <4>1. ~seeded_unowned[slot[q]]
        BY <3>2 DEF Owed, Ownership, GuardedSlotsStayBusy
      <4>2. r = q
        BY <2>1, <2>4, <3>2, <4>1 DEF Held, Owed, Ownership, MutualExclusion
      <4> QED
        BY <2>1, <3>2, <4>2 DEF DropGuard, Running, Sent, Failed
    <3>3. CASE slot[q] \in polled /\ seeded_unowned[slot[q]]
      <4>1. ~Held(q)
        BY <3>3 DEF Held, Owed, Ownership, GuardedSlotsStayBusy
      <4>2. q \in work
        BY <2>1, <2>4, <4>1
      <4> QED
        BY <2>4, <3>3, <4>2 DEF Owed, PollShape
    <3> QED
      BY <3>1, <3>2, <3>3
  <2> QED
    BY <2>2, <2>3, <2>4
<1> QED
  BY <1>1, OwedInit, OwedStep, PTL DEF BrokerSpec, SlotFreedOnlyWhenDone

-----------------------------------------------------------------------------
\* What the slots and the store contain.

\* What a hit restores is the prefix of the hint, computed by its model.
LEMMA RestoredContent ==
  ASSUME BrokerTypeOK, SavedMatchesKey, NEW r \in Req, hint[r] # NoHint,
         saved[Key(hint[r])] # NoKV
  PROVE  saved[Key(hint[r])] = Content(hint[r])
<1>1. Key(hint[r]) \in CacheKeys /\ Content(hint[r]) = Key(hint[r])
  BY HintTypes DEF BrokerTypeOK, TypeOK
<1> QED
  BY <1>1 DEF SavedMatchesKey

\* A slot's content is changed only by llama-server, by new work or a restore.
LEMMA ContentMoves ==
  ASSUME BrokerTypeOK, [BrokerNext]_allVars
  PROVE  kv' = kv \/ \E s \in SlotIds : LlamaStart(s) \/ LlamaRestore(s)
<1>1. ASSUME NEW s \in SlotIds, LlamaStep(s)
      PROVE  kv' = kv \/ LlamaStart(s) \/ LlamaRestore(s)
  BY <1>1 DEF LlamaStep, LlamaSave, LlamaDrop
<1> QED
  BY <1>1, LlamaMoves DEF LlamaFinish, Sending, llamaVars

\* The occupancy table is changed only by a task, or by a restart.
LEMMA RecordMoves ==
  ASSUME TypeOK, Ownership, [BrokerNext]_allVars
  PROVE  \/ resident' = resident
         \/ \E r \in Req : Mark(r) \/ Begin(r)
         \/ Restart
<1>1. ASSUME NEW r \in Req, JobStep(r) PROVE resident' = resident \/ Mark(r) \/ Begin(r)
  BY <1>1 DEF JobStep, TaskStep, Restore, Restored, RestoreFails, Warm, Warmed,
     Save, Saved, SaveFails, Send, StreamEnd, Fail, DropGuard, Release, vars, slotVars
<1>2. ASSUME NEW r \in Req, Admit(r) PROVE resident' = resident
  BY <1>2, AdmitEffect
<1>3. ASSUME NEW s \in SlotIds, Reconcile(s) PROVE resident' = resident
  BY <1>3, ReconcileEffect
<1>4. CASE UNCHANGED allVars
  BY <1>4 DEF allVars, vars, slotVars
<1> QED
  BY <1>1, <1>2, <1>3, <1>4 DEF BrokerNext, LlamaFinish, Poll, LlamaStep, LlamaStart, LlamaRestore, LlamaSave, LlamaDrop, Evict, vars, slotVars

\* An admitted request with a task under way was admitted before the step.
LEMMA HolderStays ==
  ASSUME Owed, [BrokerNext]_allVars
  PROVE  \A r \in Req :
           /\ pc'[r] = "admitted" /\ job'[r] # "none" => pc[r] = "admitted"
           /\ pc[r] = "admitted" =>
                /\ hint'[r] = hint[r] /\ slot'[r] = slot[r]
                /\ cache_ready'[r] = cache_ready[r] /\ slot[r] \in SlotIds
<1>0. TypeOK /\ BrokerTypeOK /\ Ownership /\ JobShape
  BY DEF Owed, BrokerTypeOK
<1>1. \A q \in Req : Settled(q) =>
        /\ hint'[q] = hint[q] /\ slot'[q] = slot[q]
        /\ cache_ready'[q] = cache_ready[q]
        /\ pc[q] # "admitted" => pc'[q] # "admitted"
  BY <1>0, SchedulerStep, SettledStays
<1>2. \A r \in Req : job[r] # "none" => Settled(r)
  BY <1>0 DEF JobShape, Settled
<1>3. \A r \in Req : job'[r] # job[r] => pc[r] = "admitted"
  BY <1>0, JobMoves
<1>4. \A r \in Req : pc[r] = "admitted" => slot[r] \in SlotIds
  BY <1>0 DEF Ownership, AdmittedHasSlot
<1> QED
  BY <1>1, <1>2, <1>3, <1>4 DEF Settled

\* Two admitted requests have different slots.
LEMMA OtherSlot ==
  ASSUME Owed, NEW r \in Req, NEW q \in Req, r # q,
         pc[r] = "admitted", pc[q] = "admitted"
  PROVE  slot[r] # slot[q]
<1> QED
  BY DEF Owed, Ownership, MutualExclusion

\* A task other than r's leaves r's slot alone, and r's task where it is.
LEMMA OthersAlone ==
  ASSUME Owed, NEW r \in Req, NEW p \in Req, r # p, pc[r] = "admitted", JobStep(p)
  PROVE  /\ job'[r] = job[r]
         /\ pending'[slot[r]] = pending[slot[r]]
         /\ kv'[slot[r]] = kv[slot[r]]
         /\ resident'[slot[r]] = resident[slot[r]]
<1>0. /\ job \in [Req -> Stage] /\ TypeOK /\ BrokerTypeOK /\ Ownership
      /\ slot[r] \in SlotIds
  BY DEF Owed, BrokerTypeOK, Ownership, AdmittedHasSlot
<1>1. pc[p] = "admitted"
  BY DEF JobStep, TaskStep, Begin, Restore, Restored, RestoreFails, Warm,
       Warmed, Save, Saved, SaveFails, Mark, Send, StreamEnd, Fail, DropGuard, Running
<1>2. slot[p] # slot[r] /\ slot[p] \in SlotIds
  BY <1>0, <1>1, OtherSlot DEF Ownership, AdmittedHasSlot
<1>3. job'[r] = job[r]
  BY <1>0 DEF JobStep, TaskStep, Begin, Restore, Restored, RestoreFails, Warm,
       Warmed, Save, Saved, SaveFails, Mark, Send, StreamEnd, Fail, DropGuard, Goto, brokerVars
<1>4. UNCHANGED llamaVars \/ \E kind \in {"restore", "warmup", "save", "chat"} :
                              SendFor(p, kind) /\ kv' = kv
  BY <1>0, JobSends DEF Sending
<1>5. pending'[slot[r]] = pending[slot[r]] /\ kv'[slot[r]] = kv[slot[r]]
  <2>1. ASSUME NEW kind \in {"restore", "warmup", "save", "chat"}, SendFor(p, kind)
        PROVE  pending'[slot[r]] = pending[slot[r]]
    BY <1>0, <1>2, <2>1, SendForEffect
  <2> QED
    BY <1>4, <2>1 DEF llamaVars
<1>6. resident'[slot[r]] = resident[slot[r]]
  BY <1>0, <1>2 DEF JobStep, TaskStep, Begin, Restore, Restored, RestoreFails, Warm,
       Warmed, Save, Saved, SaveFails, Mark, Send, StreamEnd, Fail, DropGuard, Release, MarkResident, ClearResident, vars,
     slotVars, TypeOK
<1> QED
  BY <1>3, <1>5, <1>6

\* What is known of the contents of slots and store.
Contents == Prepared /\ SavesOwn /\ Recorded /\ Tracked /\ SavedMatchesKey

\* An empty queue is one of length zero.
LEMMA EmptyQueue ==
  ASSUME NEW queue \in Seq(Call)
  PROVE  queue = <<>> <=> Len(queue) = 0
  BY EmptySeq

\* Steps of llama-server keep prepared slots prepared: what a task waits for is
\* the last thing pending, so what it computes or loads stays.
LEMMA LlamaPrepared ==
  ASSUME Owed, Prepared, SavedMatchesKey, NEW s \in SlotIds, LlamaStep(s)
  PROVE  Prepared'
<1>0. /\ BrokerTypeOK /\ TypeOK /\ QueueShape /\ JobShape /\ Ownership
      /\ kv \in [SlotIds -> KVContent]
  BY DEF Owed, BrokerTypeOK
<1>1. /\ pending[s] # <<>> /\ pending'[s] = Tail(pending[s])
      /\ \A t \in SlotIds : t # s => pending'[t] = pending[t] /\ kv'[t] = kv[t]
      /\ UNCHANGED <<pc, hint, slot, job>>
  BY <1>0, LlamaStepEffect DEF vars, reqVars
<1>2. /\ Len(pending[s]) \in Nat \ {0}
      /\ Head(pending[s]) = pending[s][1]
      /\ Tail(pending[s]) \in Seq(Call)
      /\ Len(Tail(pending[s])) = Len(pending[s]) - 1
      /\ \A i \in 1 .. Len(pending[s]) - 1 : Tail(pending[s])[i] = pending[s][i + 1]
  BY <1>0, <1>1, QueueHead
<1> SUFFICES ASSUME NEW r \in Req, pc[r] = "admitted" PROVE PreparedFor(r)'
  BY <1>1 DEF Prepared
<1>3. PreparedFor(r) /\ slot[r] \in SlotIds
  BY <1>0 DEF Prepared, Ownership, AdmittedHasSlot
<1>4. CASE slot[r] # s
  <2>1. pending'[slot[r]] = pending[slot[r]] /\ kv'[slot[r]] = kv[slot[r]]
    BY <1>1, <1>3, <1>4
  <2>2. HoldsOwn(r) => HoldsOwn(r)'
    BY <1>1, <2>1 DEF HoldsOwn, Content, Computed
  <2>3. OnlySaves(slot[r]) => OnlySaves(slot[r])'
    BY <1>1, <2>1 DEF OnlySaves
  <2>4. StillQueued(r) => StillQueued(r)'
    BY <1>1, <2>1 DEF StillQueued, Awaited, Running
  <2> QED
    BY <1>1, <1>3, <2>1, <2>2, <2>3, <2>4 DEF PreparedFor
<1>5. CASE slot[r] = s
  <2>1. job[r] # "save"
    BY <1>1, <1>3, <1>5 DEF PreparedFor
  <2>2. CASE job[r] \in {"saving", "mark"}
    <3>1. OnlySaves(s) /\ HoldsOwn(r)
      BY <1>3, <1>5, <2>2 DEF PreparedFor
    <3>2. Head(pending[s]).kind = "save"
      BY <1>2, <3>1 DEF OnlySaves
    <3>3. kv' = kv
      BY <3>2 DEF LlamaStep, LlamaStart, LlamaRestore, LlamaSave, LlamaDrop, Ready
    <3>4. HoldsOwn(r)'
      BY <1>1, <3>1, <3>3 DEF HoldsOwn, Content, Computed
    <3>5. OnlySaves(s)'
      <4> SUFFICES ASSUME NEW i \in 1 .. Len(pending'[s]) PROVE pending'[s][i].kind = "save"
        BY DEF OnlySaves
      <4>1. i \in 1 .. Len(pending[s]) - 1 /\ i + 1 \in 1 .. Len(pending[s])
        BY <1>1, <1>2
      <4>2. pending'[s][i] = pending[s][i + 1]
        BY <1>1, <1>2, <4>1
      <4> QED
        BY <3>1, <4>1, <4>2 DEF OnlySaves
    <3> QED
      BY <1>1, <1>5, <2>2, <3>4, <3>5 DEF PreparedFor
  <2>3. CASE job[r] \in {"restoring", "warming"}
    <3>1. StillQueued(r)
      BY <1>1, <1>3, <1>5, <2>3 DEF PreparedFor
    <3>2. PICK j \in 1 .. Len(pending[s]) : pending[s][j].req = r /\ Awaited(pending[s][j])
      BY <1>5, <3>1 DEF StillQueued
    <3>3. j = Len(pending[s])
      BY <1>0, <3>2, Entries DEF Entry
    <3>4. CASE j = 1
      <4>1. Head(pending[s]).req = r /\ Awaited(Head(pending[s]))
        BY <1>2, <3>2, <3>4
      <4>2. Head(pending[s]).kind \in {"restore", "warmup"} /\ hint[r] # NoHint
        BY <1>0, <2>3, <4>1 DEF Awaited, Running, JobShape
      <4>3. hint[r] \in {NoHint} \cup SlotHint
        BY <1>0 DEF TypeOK
      <4>4. kv'[s] = Content(hint[r])
        <5>1. CASE LlamaStart(s)
          <6>1. kv'[s] = Prompt(Head(pending[s])) /\ Head(pending[s]).kind = "warmup"
            BY <1>0, <4>2, <5>1 DEF LlamaStart, Ready
          <6>2. Computed(WarmUp(hint[r])) = Content(hint[r])
            BY <4>2, <4>3, HintTypes
          <6> QED
            BY <4>1, <6>1, <6>2 DEF Prompt
        <5>2. CASE LlamaRestore(s)
          <6>1. saved[Key(hint[r])] # NoKV /\ kv'[s] = saved[Key(hint[r])]
            BY <1>0, <4>1, <5>2 DEF LlamaRestore
          <6> QED
            BY <1>0, <4>2, <6>1, RestoredContent
        <5> QED
          BY <4>1, <4>2, <5>1, <5>2 DEF LlamaStep, LlamaSave, LlamaDrop, Ready
      <4>5. pending'[s] = <<>>
        <5>1. Len(Tail(pending[s])) = 0
          BY <1>2, <3>3, <3>4
        <5> QED
          BY <1>1, <1>2, <5>1, EmptyQueue
      <4>6. HoldsOwn(r)'
        BY <1>1, <1>5, <4>4 DEF HoldsOwn, Content, Computed
      <4> QED
        BY <1>1, <1>5, <2>3, <4>5, <4>6 DEF PreparedFor
    <3>5. CASE j # 1
      <4>1. /\ j - 1 \in 1 .. Len(pending[s]) - 1
            /\ Tail(pending[s])[j - 1] = pending[s][(j - 1) + 1]
            /\ (j - 1) + 1 = j
        BY <1>2, <3>5
      <4>2. j - 1 \in 1 .. Len(pending'[s]) /\ pending'[s][j - 1] = pending[s][j]
        BY <1>1, <1>2, <4>1
      <4>3. StillQueued(r)'
        BY <1>1, <1>5, <3>2, <4>2 DEF StillQueued, Awaited, Running
      <4> QED
        BY <1>1, <2>3, <4>3 DEF PreparedFor
    <3> QED
      BY <3>4, <3>5
  <2>4. CASE job[r] \notin {"save", "saving", "mark", "restoring", "warming"}
    BY <1>1, <2>4 DEF PreparedFor
  <2> QED
    BY <2>1, <2>2, <2>3, <2>4
<1> QED
  BY <1>4, <1>5

\* Every step keeps prepared slots prepared.
LEMMA PreparedStep ==
  ASSUME Owed, Contents, [BrokerNext]_allVars
  PROVE  Prepared'
<1>0. /\ BrokerTypeOK /\ JobShape /\ QueueShape /\ Ownership
      /\ Prepared /\ SavedMatchesKey /\ job \in [Req -> Stage]
  BY DEF Owed, Contents, BrokerTypeOK
<1>1. ASSUME NEW s \in SlotIds, LlamaStep(s) PROVE Prepared'
  BY <1>0, <1>1, LlamaPrepared
<1>2. CASE ~ \E s \in SlotIds : LlamaStep(s)
  <2> SUFFICES ASSUME NEW r \in Req, pc'[r] = "admitted",
                      job'[r] \in {"save", "saving", "mark", "restoring", "warming"}
               PROVE  PreparedFor(r)'
    BY DEF Prepared, PreparedFor
  <2>1. /\ pc[r] = "admitted" /\ hint'[r] = hint[r] /\ slot'[r] = slot[r]
        /\ slot[r] \in SlotIds /\ PreparedFor(r)
    BY <1>0, HolderStays DEF Prepared
  <2>2. ASSUME kv'[slot[r]] = kv[slot[r]], HoldsOwn(r) PROVE HoldsOwn(r)'
    BY <2>1, <2>2 DEF HoldsOwn, Content, Computed
  <2>3. ASSUME pending'[slot[r]] = pending[slot[r]], OnlySaves(slot[r])
        PROVE  OnlySaves(slot[r])'
    BY <2>1, <2>3 DEF OnlySaves
  <2>4. ASSUME job'[r] = job[r], kv'[slot[r]] = kv[slot[r]],
               pending'[slot[r]] = pending[slot[r]]
        PROVE  PreparedFor(r)'
    <3>1. StillQueued(r) => StillQueued(r)'
      <4>1. ASSUME NEW call, call.req = r PROVE Awaited(call) => Awaited(call)'
        BY <2>1, <2>4, <4>1 DEF Awaited, Running
      <4> QED
        BY <2>1, <2>4, <4>1 DEF StillQueued
    <3> QED
      BY <2>1, <2>2, <2>3, <2>4, <3>1 DEF PreparedFor
  <2>5. ASSUME JobStep(r) PROVE PreparedFor(r)'
    <3>1. ASSUME NEW kind \in {"restore", "warmup", "save", "chat"}, Sending(r, kind)
          PROVE  PreparedFor(r)'
      <4>1. /\ Len(pending[slot[r]]) \in Nat
            /\ Len(pending'[slot[r]]) = Len(pending[slot[r]]) + 1
            /\ pending'[slot[r]][Len(pending[slot[r]]) + 1] = [req |-> r, kind |-> kind]
        BY <1>0, <2>1, <3>1, SendForEffect DEF Sending
      <4>2. Len(pending[slot[r]]) + 1 \in 1 .. Len(pending'[slot[r]])
        BY <4>1
      <4>3. CASE job'[r] \in {"restoring", "warming"}
        <5>1. \/ kind = "restore" /\ job'[r] = "restoring"
              \/ kind = "warmup" /\ job'[r] = "warming"
          BY <3>1, <4>3 DEF Sending
        <5>2. PICK n \in 1 .. Len(pending'[slot[r]]) :
                  pending'[slot[r]][n] = [req |-> r, kind |-> kind]
          BY <4>1, <4>2
        <5>3. StillQueued(r)'
          BY <2>1, <5>1, <5>2 DEF StillQueued, Awaited, Running
        <5> QED
          BY <4>3, <5>3 DEF PreparedFor
      <4>4. CASE job'[r] \notin {"restoring", "warming"}
        <5>1. job[r] = "save" /\ job'[r] = "saving" /\ kind = "save" /\ kv' = kv
          BY <3>1, <4>4 DEF Sending
        <5>2. pending[slot[r]] = <<>> /\ HoldsOwn(r)
          BY <2>1, <5>1 DEF PreparedFor
        <5>3. Len(pending[slot[r]]) = 0
          BY <1>0, <2>1, <5>2, EmptyQueue DEF BrokerTypeOK
        <5>4. Len(pending'[slot[r]]) = 1 /\ pending'[slot[r]][1] = [req |-> r, kind |-> kind]
          BY <4>1, <5>3
        <5>5. \A i \in 1 .. 1 : pending'[slot[r]][i].kind = "save"
          BY <5>1, <5>4
        <5>6. OnlySaves(slot[r])'
          BY <2>1, <5>4, <5>5 DEF OnlySaves
        <5> QED
          BY <2>1, <2>2, <5>1, <5>2, <5>6 DEF PreparedFor
      <4> QED
        BY <4>3, <4>4
    <3>2. CASE UNCHANGED llamaVars
      <4>1. kv' = kv /\ pending' = pending
        BY <3>2 DEF llamaVars
      <4>2. ~(Warm(r) \/ Send(r))
        <5>1. ASSUME Warm(r) \/ Send(r) PROVE FALSE
          <6>1. PICK kind \in {"restore", "warmup", "save", "chat"} : SendFor(r, kind)
            BY <5>1 DEF Warm, Send
          <6>2. /\ Len(pending[slot[r]]) \in Nat
                /\ Len(pending'[slot[r]]) = Len(pending[slot[r]]) + 1
            BY <1>0, <2>1, <6>1, SendForEffect
          <6> QED
            BY <4>1, <6>2
        <5> QED
          BY <5>1
      <4>3. CASE Restored(r) \/ Warmed(r)
        <5>1. ~Unanswered(r) /\ job[r] \in {"restoring", "warming"}
          BY <4>3 DEF Restored, Warmed, Running
        <5>2. ~StillQueued(r)
          BY <2>1, <5>1 DEF StillQueued, Unanswered
        <5>3. pending[slot[r]] = <<>> /\ HoldsOwn(r)
          BY <2>1, <5>1, <5>2 DEF PreparedFor
        <5>4. OnlySaves(slot[r])
          BY <1>0, <2>1, <5>3, EmptyQueue DEF OnlySaves, BrokerTypeOK
        <5>5. job'[r] \in {"mark", "save"}
          BY <1>0, <4>3 DEF Restored, Warmed, Goto
        <5> QED
          BY <2>1, <2>2, <2>3, <4>1, <5>3, <5>4, <5>5 DEF PreparedFor
      <4>4. CASE Save(r) \/ Saved(r) \/ SaveFails(r)
        <5>1. job[r] \in {"save", "saving"} /\ job'[r] \in {"mark", "saving"}
          BY <1>0, <4>4 DEF Save, Saved, SaveFails, Running, Goto
        <5>2. HoldsOwn(r)
          BY <2>1, <5>1 DEF PreparedFor
        <5>3. OnlySaves(slot[r])
          <6>1. CASE job[r] = "save"
            BY <1>0, <2>1, <6>1, EmptyQueue DEF PreparedFor, OnlySaves, BrokerTypeOK
          <6> QED
            BY <2>1, <5>1, <6>1 DEF PreparedFor
        <5> QED
          BY <2>1, <2>2, <2>3, <4>1, <5>1, <5>2, <5>3 DEF PreparedFor
      <4>5. CASE Restore(r)
        <5>1. ~ SendFor(r, "restore")
          <6>1. ASSUME SendFor(r, "restore") PROVE FALSE
            <7>1. Len(pending'[slot[r]]) = Len(pending[slot[r]]) + 1
                  /\ Len(pending[slot[r]]) \in Nat
              BY <1>0, <2>1, <6>1, SendForEffect
            <7> QED
              BY <4>1, <7>1
          <6> QED
            BY <6>1
        <5>2. job'[r] = "warm"
          BY <1>0, <4>5, <5>1 DEF Restore, Goto
        <5> QED
          BY <5>2
      <4> QED
        BY <1>0, <2>5, <4>2, <4>3, <4>4, <4>5 DEF JobStep, TaskStep, Begin,
           RestoreFails, Mark, StreamEnd, Fail, DropGuard, Running, Goto, brokerVars
    <3> QED
      BY <1>0, <2>5, <3>1, <3>2, JobSends
  <2>6. ASSUME NEW p \in Req, p # r, JobStep(p) PROVE PreparedFor(r)'
    BY <2>1, <2>4, <2>6, OthersAlone
  <2>7. CASE ~ \E p \in Req : JobStep(p)
    <3>1. job' = job
      BY <1>0, <2>7, JobMoves
    <3>2. kv' = kv /\ pending' = pending
      BY <1>0, <1>2, <2>7, LlamaMoves DEF LlamaFinish, llamaVars
    <3> QED
      BY <2>4, <3>1, <3>2
  <2> QED
    BY <2>5, <2>6, <2>7
<1> QED
  BY <1>1, <1>2

\* Every step keeps pending saves first, and their slots as they were.
LEMMA SavesOwnStep ==
  ASSUME Owed, Contents, [BrokerNext]_allVars
  PROVE  SavesOwn'
<1>0. /\ BrokerTypeOK /\ JobShape /\ QueueShape /\ WorkShape /\ Ownership
      /\ Prepared /\ SavesOwn
  BY DEF Owed, Contents
<1>1. BrokerTypeOK'
  BY <1>0, BrokerTypeStep
<1> SUFFICES ASSUME NEW s \in SlotIds, NEW i \in 1 .. Len(pending'[s]),
                    NEW call \in Call, call = pending'[s][i], call.kind = "save"
             PROVE  i = 1 /\ hint'[call.req] # NoHint /\ kv'[s] = Content(hint'[call.req])
  <2>1. \A s \in SlotIds : pending'[s] \in Seq(Call)
    BY <1>1 DEF BrokerTypeOK
  <2>2. \A s \in SlotIds : \A i \in 1 .. Len(pending'[s]) : pending'[s][i] \in Call
    BY <2>1, ElementOfSeq
  <2> QED
    BY <2>2 DEF SavesOwn, Content, Computed
<1>2. Len(pending'[s]) \in Nat /\ Len(pending[s]) \in Nat
  <2>1. pending'[s] \in Seq(Call)
    BY <1>1 DEF BrokerTypeOK
  <2> QED
    BY <1>0, <2>1, LenProperties, Entries
<1>3. ASSUME NEW j \in 1 .. Len(pending[s]), call = pending[s][j]
      PROVE  /\ j = 1 /\ hint[call.req] # NoHint /\ kv[s] = Content(hint[call.req])
             /\ hint'[call.req] = hint[call.req]
  BY <1>0, <1>3, EntryKept DEF SavesOwn, Kept
<1>4. CASE pending'[s] = pending[s] /\ kv'[s] = kv[s]
  BY <1>3, <1>4
<1>5. ASSUME NEW t \in SlotIds, LlamaStep(t)
      PROVE  i = 1 /\ hint'[call.req] # NoHint /\ kv'[s] = Content(hint'[call.req])
  <2>1. /\ pending[t] # <<>> /\ pending'[t] = Tail(pending[t])
        /\ \A u \in SlotIds : u # t => pending'[u] = pending[u] /\ kv'[u] = kv[u]
    BY <1>0, <1>5, LlamaStepEffect
  <2>2. CASE s = t
    <3>1. /\ i \in 1 .. Len(pending[s]) - 1
          /\ Tail(pending[s])[i] = pending[s][i + 1]
      BY <1>0, <2>1, <2>2, QueueHead
    <3>2. i + 1 \in 1 .. Len(pending[s])
      BY <1>2, <3>1
    <3>3. call = pending[s][i + 1]
      <4>1. pending'[s] = Tail(pending[s])
        BY <2>1, <2>2
      <4> QED
        BY <3>1, <4>1, Zenon
    <3>4. i + 1 = 1
      BY <1>3, <3>2, <3>3
    <3> QED
      BY <1>2, <3>1, <3>4
  <2> QED
    BY <1>4, <2>1, <2>2
<1>6. ASSUME NEW r \in Req, NEW kind \in {"restore", "warmup", "save", "chat"},
             Sending(r, kind)
      PROVE  i = 1 /\ hint'[call.req] # NoHint /\ kv'[s] = Content(hint'[call.req])
  <2>1. slot[r] \in SlotIds /\ pc[r] = "admitted" /\ kv' = kv /\ hint' = hint
    BY <1>0, <1>6 DEF Sending, Ownership, AdmittedHasSlot, vars, reqVars
  <2>2. /\ \A t \in SlotIds : t # slot[r] => pending'[t] = pending[t]
        /\ Len(pending'[slot[r]]) = Len(pending[slot[r]]) + 1
        /\ \A k \in 1 .. Len(pending[slot[r]]) : pending'[slot[r]][k] = pending[slot[r]][k]
        /\ pending'[slot[r]][Len(pending[slot[r]]) + 1] = [req |-> r, kind |-> kind]
    BY <1>0, <1>6, <2>1, SendForEffect DEF Sending
  <2>3. CASE s # slot[r]
    BY <1>4, <2>1, <2>2, <2>3
  <2>4. CASE s = slot[r] /\ i <= Len(pending[s])
    <3>1. i \in 1 .. Len(pending[s]) /\ call = pending[s][i]
      BY <1>2, <2>2, <2>4
    <3> QED
      BY <1>3, <2>1, <3>1
  <2>5. CASE s = slot[r] /\ i > Len(pending[s])
    <3>1. i = Len(pending[s]) + 1 /\ call = [req |-> r, kind |-> kind]
      BY <1>2, <2>2, <2>5
    <3>2. call.req = r /\ kind = "save"
      BY <3>1
    <3>3. job[r] = "save"
      BY <1>6, <3>2 DEF Sending
    <3>4. pending[s] = <<>> /\ kv[s] = Content(hint[r])
      BY <1>0, <2>1, <2>5, <3>3 DEF Prepared, PreparedFor, HoldsOwn
    <3>5. Len(pending[s]) = 0
      BY <1>0, <3>4, EmptyQueue DEF BrokerTypeOK
    <3>6. hint[r] # NoHint
      BY <1>0, <3>3 DEF JobShape
    <3> QED
      BY <2>1, <3>1, <3>2, <3>4, <3>5, <3>6
  <2> QED
    BY <1>2, <2>3, <2>4, <2>5
<1>7. CASE UNCHANGED <<pending, kv>>
  BY <1>4, <1>7
<1> QED
  BY <1>0, <1>5, <1>6, <1>7, LlamaMoves DEF LlamaFinish, llamaVars

\* Every step keeps the store's contents matching their keys.
LEMMA SavedStep ==
  ASSUME Owed, Contents, [BrokerNext]_allVars
  PROVE  SavedMatchesKey'
<1>0. /\ BrokerTypeOK /\ TypeOK /\ QueueShape /\ SavesOwn /\ SavedMatchesKey
      /\ saved \in [CacheKeys -> KVContent]
  BY DEF Owed, Contents, BrokerTypeOK
<1>1. CASE saved' = saved
  BY <1>0, <1>1 DEF SavedMatchesKey
<1>2. ASSUME NEW k \in CacheKeys, Evict(k) PROVE SavedMatchesKey'
  BY <1>0, <1>2 DEF Evict, SavedMatchesKey
<1>3. ASSUME NEW s \in SlotIds, LlamaSave(s) PROVE SavedMatchesKey'
  <2>1. pending[s] # <<>> /\ Head(pending[s]).kind = "save"
    BY <1>3 DEF LlamaSave, Ready
  <2>2. /\ 1 \in 1 .. Len(pending[s]) /\ Head(pending[s]) = pending[s][1]
        /\ Head(pending[s]).req \in Req
    BY <1>0, <2>1, QueueHead
  <2> DEFINE h == hint[Head(pending[s]).req]
  <2>3. h # NoHint /\ kv[s] = Content(h)
    BY <1>0, <2>1, <2>2 DEF SavesOwn
  <2>4. h \in {NoHint} \cup SlotHint
    BY <1>0, <2>2 DEF TypeOK
  <2>5. saved' = [saved EXCEPT ![Key(h)] = kv[s]]
    BY <1>3 DEF LlamaSave
  <2> HIDE DEF h
  <2>6. Key(h) \in CacheKeys /\ kv[s] = Key(h)
    BY <2>3, <2>4, HintTypes
  <2> QED
    BY <1>0, <2>5, <2>6 DEF SavedMatchesKey
<1>4. ASSUME NEW s \in SlotIds, LlamaStep(s) PROVE saved' = saved \/ LlamaSave(s)
  BY <1>4 DEF LlamaStep, LlamaStart, LlamaRestore, LlamaDrop
<1>5. ASSUME NEW r \in Req, JobStep(r) PROVE saved' = saved
  BY <1>5 DEF JobStep, TaskStep, Begin, Restore, Restored, RestoreFails, Warm,
     Warmed, Save, Saved, SaveFails, Mark, Send, StreamEnd, Fail, DropGuard, brokerVars
<1>6. CASE UNCHANGED allVars
  BY <1>1, <1>6 DEF allVars, brokerVars
<1> QED
  BY <1>1, <1>2, <1>3, <1>4, <1>5, <1>6 DEF BrokerNext, Admit, LlamaFinish, Poll,
     Reconcile, Restart, brokerVars

\* Every step keeps the occupancy table naming the prefix of the request that
\* is forwarded.
LEMMA RecordedStep ==
  ASSUME Owed, Contents, [BrokerNext]_allVars
  PROVE  Recorded'
<1>0. /\ TypeOK /\ BrokerTypeOK /\ JobShape /\ Ownership /\ Recorded
      /\ job \in [Req -> Stage]
  BY DEF Owed, Contents, BrokerTypeOK
<1> DEFINE Goal(r) ==
      /\ hint'[r] # NoHint /\ ( \/ job'[r] \in {"send", "stream", "end", "failed"}
                                \/ job'[r] = "none" /\ cache_ready'[r] )
         => resident'[slot'[r]] = Named(hint'[r])
      /\ hint'[r] = NoHint /\ job'[r] # "none" => resident'[slot'[r]] = NoResident
<1> SUFFICES ASSUME NEW r \in Req, pc'[r] = "admitted" PROVE Goal(r)
  BY DEF Recorded, Named
<1>1. CASE pc[r] # "admitted"
  <2>1. job'[r] = "none"
    BY <1>1, HolderStays
  <2>2. PICK p \in Req : Admit(p)
    <3>1. CASE Restart
      BY <3>1 DEF Restart, NewScheduler
    <3>2. ASSUME NEW p \in Req, JobStep(p) PROVE pc' = pc \/ pc'[r] # "admitted"
      <4>1. CASE DropGuard(p)
        <5>1. Release(p)
          BY <4>1 DEF DropGuard
        <5> QED
          BY <1>0, <1>1, <5>1, ReleaseEffect
      <4>2. CASE ~DropGuard(p)
        BY <3>2, <4>2 DEF JobStep, TaskStep, Begin, Restore, Restored, RestoreFails, Warm,
       Warmed, Save, Saved, SaveFails, Mark, Send, StreamEnd, Fail, ClearResident, MarkResident, vars, reqVars
      <4> QED
        BY <4>1, <4>2
    <3>3. ASSUME NEW s \in SlotIds, Reconcile(s) PROVE pc'[r] # "admitted"
      BY <1>0, <1>1, <3>3, ReconcileEffect
    <3>4. CASE UNCHANGED allVars
      BY <1>1, <3>4 DEF allVars, vars, reqVars
    <3> QED
      BY <1>1, <3>1, <3>2, <3>3, <3>4 DEF BrokerNext, LlamaFinish, Poll,
         LlamaStep, LlamaStart, LlamaRestore, LlamaSave, LlamaDrop, Evict, vars, reqVars
  <2>3. /\ resident' = resident
        /\ cache_ready'[r] => IsResidentIn(hint'[r], slot'[r])
    BY <1>0, <1>1, <2>2, AdmitEffect
  <2> QED
    BY <2>1, <2>3 DEF IsResidentIn, Named
<1>2. CASE pc[r] = "admitted"
  <2>1. /\ hint'[r] = hint[r] /\ slot'[r] = slot[r] /\ slot[r] \in SlotIds
        /\ cache_ready'[r] = cache_ready[r]
    BY <1>2, HolderStays
  <2>2. ASSUME job'[r] = job[r], resident'[slot[r]] = resident[slot[r]]
        PROVE  Goal(r)
    BY <1>0, <1>2, <2>1, <2>2 DEF Recorded
  <2>3. ASSUME NEW p \in Req, p # r, JobStep(p) PROVE Goal(r)
    BY <1>2, <2>2, <2>3, OthersAlone
  <2>4. ASSUME JobStep(r) PROVE Goal(r)
    <3>1. CASE Begin(r)
      <4>1. CASE hint[r] = NoHint
        <5>1. resident'[slot[r]] = NoResident
          BY <1>0, <2>1, <3>1, <4>1 DEF Begin, ClearResident, TypeOK
        <5> QED
          BY <2>1, <4>1, <5>1
      <4>2. CASE hint[r] # NoHint
        <5>1. /\ job[r] = "none" /\ resident' = resident
              /\ job'[r] = IF cache_ready[r] THEN "send" ELSE "restore"
          BY <1>0, <3>1, <4>2 DEF Begin, Running, Goto, vars, slotVars
        <5> QED
          BY <1>0, <1>2, <2>1, <4>2, <5>1 DEF Recorded
      <4> QED
        BY <4>1, <4>2
    <3>2. CASE Mark(r)
      <4>1. /\ hint[r] # NoHint
            /\ resident'[slot[r]] = [prefix |-> hint[r].prefix, model |-> hint[r].model]
        BY <1>0, <2>1, <3>2 DEF Mark, MarkResident, TypeOK
      <4> QED
        BY <2>1, <4>1 DEF Named
    <3>3. CASE Send(r) \/ StreamEnd(r) \/ Fail(r)
      <4>1. /\ resident' = resident /\ job[r] # "none"
            /\ job'[r] \in {"stream", "end", "failed"} => job[r] \in {"send", "stream"}
            /\ job'[r] \in {"stream", "end", "failed", "unprepared"}
        BY <1>0, <3>3 DEF Send, StreamEnd, Fail, Running, Goto, vars, slotVars
      <4> QED
        BY <1>0, <1>2, <2>1, <4>1 DEF Recorded
    <3>4. CASE \/ Restore(r) \/ Restored(r) \/ RestoreFails(r) \/ Warm(r) \/ Warmed(r)
               \/ Save(r) \/ Saved(r) \/ SaveFails(r)
      <4>1. hint[r] # NoHint
        BY <1>0, <3>4 DEF Restore, Restored, RestoreFails, Warm, Warmed, Save, Saved,
           SaveFails, Running, JobShape
      <4>2. job'[r] \in {"restoring", "warm", "mark", "warming", "save", "saving"}
        BY <1>0, <3>4 DEF Restore, Restored, RestoreFails, Warm, Warmed, Save, Saved,
           SaveFails, Goto
      <4> QED
        BY <2>1, <4>1, <4>2
    <3>5. CASE DropGuard(r)
      <4>1. Release(r)
        BY <3>5 DEF DropGuard
      <4> QED
        BY <1>0, <4>1, ReleaseEffect
    <3> QED
      BY <2>4, <3>1, <3>2, <3>3, <3>4, <3>5 DEF JobStep, TaskStep
  <2>5. CASE Restart
    BY <2>5 DEF Restart, NewScheduler
  <2>6. CASE ~Restart /\ ~ \E p \in Req : JobStep(p)
    <3>1. job' = job
      BY <1>0, <2>6, JobMoves
    <3>2. resident' = resident
      BY <1>0, <2>6, RecordMoves DEF JobStep, TaskStep
    <3> QED
      BY <2>2, <3>1, <3>2
  <2> QED
    BY <2>3, <2>4, <2>5, <2>6
<1> QED
  BY <1>1, <1>2

\* What was left behind stays left behind while the content stays.
LEMMA LeftBehindStays ==
  ASSUME Owed, [BrokerNext]_allVars, NEW s \in SlotIds, kv'[s] = kv[s], LeftBehind(s)
  PROVE  LeftBehind(s)'
<1>0. TypeOK /\ BrokerTypeOK /\ JobShape /\ Ownership /\ QueueShape
  BY DEF Owed, BrokerTypeOK
<1>1. PICK q \in Req : GivenUp(q) /\ slot[q] = s /\ kv[s] = Content(hint[q])
  BY DEF LeftBehind, GivenUp
<1>2. job[q] # "none" /\ Settled(q)
  BY <1>0, <1>1 DEF GivenUp, Failed, JobShape, Settled
<1>3. hint'[q] = hint[q] /\ slot'[q] = slot[q]
  BY <1>0, <1>2, SchedulerStep, SettledStays
<1>4. missed \subseteq missed'
  BY MissedGrows
<1>5. Failed(q) => Failed(q)'
  <2>1. ASSUME NEW r \in Req, JobStep(r), Failed(q), job \in [Req -> Stage]
        PROVE  job'[q] = job[q]
    BY <2>1 DEF JobStep, TaskStep, Begin, Restore, Restored, RestoreFails, Warm,
       Warmed, Save, Saved, SaveFails, Mark, Send, StreamEnd, Fail, DropGuard, Running, Goto, Failed, brokerVars
  <2>2. job \in [Req -> Stage]
    BY <1>0 DEF BrokerTypeOK
  <2> QED
    BY <1>0, <2>1, <2>2, JobMoves DEF Failed
<1>6. GivenUp(q)'
  BY <1>1, <1>4, <1>5 DEF GivenUp
<1> QED
  BY <1>1, <1>3, <1>6 DEF LeftBehind, GivenUp, Content, Computed

\* The occupancy table stays right about a slot that nothing is done to.
LEMMA BackedStays ==
  ASSUME Owed, [BrokerNext]_allVars, NEW s \in SlotIds,
         kv'[s] = kv[s], resident'[s] = resident[s], Backed(s)
  PROVE  Backed(s)'
<1>1. LeftBehind(s) => LeftBehind(s)'
  BY LeftBehindStays
<1> QED
  BY <1>1 DEF Backed, Computed

\* The task that holds a slot keeps the table right about it.
LEMMA HolderTracked ==
  ASSUME Owed, Contents, [BrokerNext]_allVars,
         NEW r \in Req, JobStep(r), NEW s \in SlotIds, Holds(r, s)
  PROVE  Backed(s)' \/ \E q \in Req : Fresh(q, s)'
<1>0. /\ TypeOK /\ BrokerTypeOK /\ JobShape /\ Ownership /\ Prepared /\ SavedMatchesKey
      /\ job \in [Req -> Stage] /\ kv \in [SlotIds -> KVContent]
      /\ pc[r] = "admitted" /\ slot[r] = s
  BY DEF Owed, Contents, BrokerTypeOK, Holds
<1>1. hint'[r] = hint[r] /\ slot'[r] = slot[r]
  BY <1>0, HolderStays
<1>2. Backed(s) \/ Fresh(r, s)
  <2>1. \A q \in Req : Fresh(q, s) => q = r
    BY <1>0, OtherSlot DEF Fresh, Holds
  <2> QED
    BY <2>1 DEF Contents, Tracked
<1>3. CASE Begin(r)
  <2>1. CASE hint[r] = NoHint
    <3>1. resident'[s] = NoResident
      BY <1>0, <1>3, <2>1 DEF Begin, ClearResident, TypeOK
    <3> QED
      BY <3>1 DEF Backed
  <2>2. CASE hint[r] # NoHint
    <3>1. job[r] = "none" /\ resident' = resident /\ kv' = kv
      BY <1>3, <2>2 DEF Begin, Running, vars, slotVars, llamaVars
    <3>2. Backed(s)
      BY <1>2, <3>1 DEF Fresh
    <3> QED
      BY <3>1, <3>2, BackedStays
  <2> QED
    BY <2>1, <2>2
<1>4. CASE Restore(r)
  <2>1. job[r] = "restore" /\ resident' = resident /\ kv' = kv
    BY <1>4 DEF Restore, Running, vars, slotVars
  <2>2. Backed(s)
    BY <1>2, <2>1 DEF Fresh
  <2> QED
    BY <2>1, <2>2, BackedStays
<1>5. CASE \/ Restored(r) \/ RestoreFails(r) \/ Warm(r) \/ Warmed(r) \/ Save(r)
           \/ Saved(r) \/ SaveFails(r)
  <2>1. /\ kv' = kv /\ resident' = resident /\ pc' = pc
        /\ job'[r] \in {"warm", "warming", "save", "saving", "mark"}
    BY <1>0, <1>5 DEF Restored, RestoreFails, Warm, Warmed, Save, Saved, SaveFails,
       Goto, vars, slotVars, reqVars, llamaVars
  <2>2. CASE Fresh(r, s)
    <3>1. Fresh(r, s)'
      BY <1>0, <1>1, <2>1, <2>2 DEF Fresh, Holds, Content, Computed
    <3> QED
      BY <3>1
  <2> QED
    BY <1>2, <2>1, <2>2, BackedStays
<1>6. CASE Mark(r)
  <2>1. job[r] = "mark" /\ hint[r] # NoHint /\ kv' = kv
    BY <1>0, <1>6 DEF Mark, Running, JobShape, llamaVars
  <2>2. kv[s] = Content(hint[r])
    BY <1>0, <2>1 DEF Prepared, PreparedFor, HoldsOwn
  <2>3. resident'[s] = Named(hint[r])
    BY <1>0, <1>6 DEF Mark, MarkResident, Named, TypeOK
  <2>4. Computed(Named(hint[r])) = Content(hint[r])
    BY <1>0, <2>1, HintTypes DEF TypeOK
  <2> QED
    BY <2>1, <2>2, <2>3, <2>4 DEF Backed, Computed
<1>7. CASE Send(r) \/ StreamEnd(r) \/ DropGuard(r)
  <2>1. resident' = resident /\ kv' = kv
    BY <1>7 DEF Send, StreamEnd, DropGuard, Release, vars, slotVars, llamaVars,
       brokerVars
  <2>2. job[r] \in {"send", "stream", "end", "unprepared", "failed"}
    BY <1>7 DEF Send, StreamEnd, DropGuard, Running
  <2>3. Backed(s)
    BY <1>2, <2>2 DEF Fresh
  <2> QED
    BY <2>1, <2>3, BackedStays
<1>8. CASE Fail(r)
  <2>1. /\ kv' = kv /\ resident' = resident
        /\ job'[r] \in {"unprepared", "failed"}
    BY <1>0, <1>8 DEF Fail, Goto, vars, slotVars, llamaVars
  <2>2. CASE Fresh(r, s)
    <3>1. /\ Failed(r)' /\ slot'[r] = s /\ kv'[s] = Content(hint'[r])
      BY <1>0, <1>1, <2>1, <2>2 DEF Fresh, Failed
    <3>2. LeftBehind(s)'
      BY <3>1 DEF LeftBehind, Content, Computed
    <3> QED
      BY <3>2 DEF Backed
  <2> QED
    BY <1>2, <2>1, <2>2, BackedStays
<1> QED
  BY <1>3, <1>4, <1>5, <1>6, <1>7, <1>8 DEF JobStep, TaskStep

\* So does llama-server when it overwrites the slot: for a request that was
\* given up, for one that has the slot prepared, or for the recorded one.
LEMMA LlamaTracked ==
  ASSUME Owed, Contents, NEW s \in SlotIds, LlamaStart(s) \/ LlamaRestore(s)
  PROVE  Backed(s)' \/ \E q \in Req : Fresh(q, s)'
<1>0. /\ TypeOK /\ BrokerTypeOK /\ JobShape /\ QueueShape /\ Recorded /\ SavedMatchesKey
      /\ kv \in [SlotIds -> KVContent]
  BY DEF Owed, Contents, BrokerTypeOK
<1>1. /\ Len(pending[s]) \in Nat \ {0} /\ Head(pending[s]) = pending[s][1]
  BY <1>0, QueueHead DEF LlamaStart, LlamaRestore, Ready
<1>2. PICK call \in Call : call = pending[s][1] /\ call.req \in Req /\ Entry(s, 1, call)
  <2>1. 1 \in 1 .. Len(pending[s])
    BY <1>1
  <2> QED
    BY <1>0, <2>1, Entries
<1> DEFINE q == call.req
<1>3. /\ slot[q] = s /\ job[q] \in PendingIn(call.kind) /\ (GivenUp(q) \/ Held(q))
      /\ q \in Req /\ hint[q] \in {NoHint} \cup SlotHint
  BY <1>0, <1>2 DEF Entry, TypeOK
<1>4. UNCHANGED <<pc, hint, slot, resident, job, missed>>
  BY DEF LlamaStart, LlamaRestore, vars, slotVars, reqVars, crashVars
<1>5. call.kind \in {"restore", "warmup"} => hint[q] # NoHint
  BY <1>0, <1>3 DEF JobShape, PendingIn
<1>6. kv'[s] = Content(hint[q])
  <2>1. CASE LlamaStart(s)
    <3>1. kv'[s] = Prompt(call)
      BY <1>0, <1>1, <1>2, <2>1 DEF LlamaStart
    <3>2. call.kind = "warmup" => Computed(WarmUp(hint[q])) = Content(hint[q])
      BY <1>3, <1>5, HintTypes
    <3> QED
      BY <3>1, <3>2 DEF Prompt
  <2>2. CASE LlamaRestore(s)
    <3>1. /\ call.kind = "restore"
          /\ saved[Key(hint[q])] # NoKV /\ kv'[s] = saved[Key(hint[q])]
      BY <1>0, <1>1, <1>2, <2>2 DEF LlamaRestore, Ready
    <3> QED
      BY <1>0, <1>3, <1>5, <3>1, RestoredContent
  <2> QED
    BY <2>1, <2>2
<1>7. call.kind \in {"restore", "warmup", "chat"}
  BY <1>1, <1>2 DEF LlamaStart, LlamaRestore, Ready
<1> HIDE DEF q
<1>8. CASE GivenUp(q)
  <2>1. /\ Failed(q)' \/ q \in missed'
        /\ slot'[q] = s /\ kv'[s] = Content(hint'[q])
    BY <1>3, <1>4, <1>6, <1>8 DEF GivenUp, Failed
  <2>2. LeftBehind(s)'
    BY <1>3, <2>1 DEF LeftBehind, Content, Computed
  <2> QED
    BY <2>2 DEF Backed
<1>9. CASE ~GivenUp(q) /\ call.kind \in {"restore", "warmup"}
  <2>1. pc[q] = "admitted" /\ job[q] \in {"restoring", "warm", "warming"}
    BY <1>3, <1>9 DEF GivenUp, Failed, Held, PendingIn
  <2>2. Fresh(q, s)'
    BY <1>3, <1>4, <1>6, <2>1 DEF Fresh, Holds, Content, Computed
  <2> QED
    BY <1>3, <2>2
<1>10. CASE ~GivenUp(q) /\ call.kind = "chat"
  <2>1. pc[q] = "admitted" /\ job[q] = "stream"
    BY <1>3, <1>10 DEF GivenUp, Failed, Held, PendingIn
  <2>2. CASE hint[q] = NoHint
    <3>1. resident[s] = NoResident
      BY <1>0, <1>3, <2>1, <2>2 DEF Recorded
    <3> QED
      BY <1>4, <3>1 DEF Backed
  <2>3. CASE hint[q] # NoHint
    <3>1. resident[s] = Named(hint[q])
      BY <1>0, <1>3, <2>1, <2>3 DEF Recorded
    <3>2. Computed(Named(hint[q])) = Content(hint[q])
      BY <1>3, <2>3, HintTypes
    <3> QED
      BY <1>4, <1>6, <3>1, <3>2 DEF Backed, Computed
  <2> QED
    BY <2>2, <2>3
<1> QED
  BY <1>7, <1>8, <1>9, <1>10

\* A request keeps its slot in every step but its own release and a restart.
LEMMA SlotKept ==
  ASSUME Owed, [BrokerNext]_allVars, ~Restart, NEW r \in Req, pc[r] = "admitted",
         ~DropGuard(r)
  PROVE  pc'[r] = "admitted"
<1>0. TypeOK /\ Ownership /\ Settled(r)
  BY DEF Owed, BrokerTypeOK, Settled
<1>1. ASSUME NEW p \in Req, Admit(p) PROVE pc'[r] = "admitted"
  BY <1>0, <1>1, AdmitEffect DEF Undisturbed
<1>2. ASSUME NEW p \in Req, JobStep(p) PROVE pc'[r] = "admitted"
  <2>1. CASE DropGuard(p)
    <3>1. Release(p) /\ p # r
      BY <2>1 DEF DropGuard
    <3> QED
      BY <1>0, <3>1, ReleaseEffect
  <2>2. CASE ~DropGuard(p)
    BY <1>2, <2>2 DEF JobStep, TaskStep, Begin, Restore, Restored, RestoreFails, Warm,
       Warmed, Save, Saved, SaveFails, Mark, Send, StreamEnd, Fail, ClearResident, MarkResident, vars, reqVars
  <2> QED
    BY <2>1, <2>2
<1>3. ASSUME NEW s \in SlotIds, Reconcile(s) PROVE pc'[r] = "admitted"
  BY <1>0, <1>3, ReconcileEffect DEF Undisturbed
<1>4. CASE UNCHANGED allVars
  BY <1>4 DEF allVars, vars, reqVars
<1> QED
  BY <1>1, <1>2, <1>3, <1>4 DEF BrokerNext, LlamaFinish, Poll, LlamaStep, LlamaStart, LlamaRestore, LlamaSave, LlamaDrop, Evict, vars, reqVars

\* Every step keeps the occupancy table right.
LEMMA TrackedStep ==
  ASSUME Owed, Contents, [BrokerNext]_allVars
  PROVE  Tracked'
<1>0. /\ TypeOK /\ BrokerTypeOK /\ Ownership /\ Tracked
      /\ kv \in [SlotIds -> KVContent]
  BY DEF Owed, Contents, BrokerTypeOK
<1> SUFFICES ASSUME NEW s \in SlotIds
             PROVE  Backed(s)' \/ \E q \in Req : Fresh(q, s)'
  BY DEF Tracked
<1>1. CASE Restart
  <2>1. resident'[s] = NoResident
    BY <1>1 DEF Restart, NewScheduler
  <2> QED
    BY <2>1 DEF Backed
<1>2. ASSUME NEW r \in Req, JobStep(r), Holds(r, s)
      PROVE  Backed(s)' \/ \E q \in Req : Fresh(q, s)'
  BY <1>2, HolderTracked
<1>3. CASE LlamaStart(s) \/ LlamaRestore(s)
  BY <1>3, LlamaTracked
<1>4. CASE /\ ~Restart /\ ~LlamaStart(s) /\ ~LlamaRestore(s)
           /\ ~ \E r \in Req : JobStep(r) /\ Holds(r, s)
  <2>1. kv'[s] = kv[s] /\ resident'[s] = resident[s]
    <3>1. ASSUME NEW r \in Req, Mark(r) \/ Begin(r)
          PROVE  kv'[s] = kv[s] /\ resident'[s] = resident[s]
      <4>1. slot[r] # s /\ slot[r] \in SlotIds
        BY <1>0, <1>4, <3>1 DEF JobStep, TaskStep, Mark, Begin, Running, Holds,
           Ownership, AdmittedHasSlot
      <4> QED
        BY <1>0, <3>1, <4>1 DEF Mark, Begin, MarkResident, ClearResident,
           vars, slotVars, llamaVars, TypeOK
    <3>2. ASSUME NEW t \in SlotIds, LlamaStart(t) \/ LlamaRestore(t)
          PROVE  kv'[s] = kv[s] /\ resident'[s] = resident[s]
      <4>1. t # s
        BY <1>4, <3>2
      <4> QED
        BY <1>0, <3>2, <4>1 DEF LlamaStart, LlamaRestore, vars, slotVars
    <3>3. kv' = kv \/ \E t \in SlotIds : LlamaStart(t) \/ LlamaRestore(t)
      BY <1>0, ContentMoves
    <3>4. resident' = resident \/ \E r \in Req : Mark(r) \/ Begin(r)
      BY <1>0, <1>4, RecordMoves
    <3> QED
      BY <3>1, <3>2, <3>3, <3>4
  <2>2. ASSUME NEW r \in Req, Fresh(r, s) PROVE Fresh(r, s)'
    <3>1. pc[r] = "admitted" /\ slot[r] = s /\ ~JobStep(r)
      BY <1>4, <2>2 DEF Fresh, Holds
    <3>2. pc'[r] = "admitted"
      BY <1>4, <3>1, SlotKept DEF JobStep, TaskStep
    <3>3. hint'[r] = hint[r] /\ slot'[r] = slot[r]
      BY <3>1, HolderStays
    <3>4. job'[r] = job[r]
      BY <1>0, <3>1, JobMoves
    <3> QED
      BY <2>1, <2>2, <3>1, <3>2, <3>3, <3>4 DEF Fresh, Holds, Content, Computed
  <2>3. Backed(s) => Backed(s)'
    BY <2>1, BackedStays
  <2> QED
    BY <1>0, <2>2, <2>3 DEF Tracked
<1> QED
  BY <1>1, <1>2, <1>3, <1>4

\* A starting system knows of no content.
LEMMA ContentsInit == BrokerInit => Contents
<1> SUFFICES ASSUME BrokerInit PROVE Contents
  OBVIOUS
<1>1. \A r \in Req : pc[r] # "admitted"
  BY DEF BrokerInit, Init
<1>2. \A s \in SlotIds : resident[s] = NoResident
  BY DEF BrokerInit, Init, Seed
<1>3. \A k \in CacheKeys : saved[k] = NoKV
  BY DEF BrokerInit
<1>4. \A s \in SlotIds : Len(pending[s]) = 0
  BY EmptySeq DEF BrokerInit
<1> QED
  BY <1>1, <1>2, <1>3, <1>4 DEF Contents, Prepared, SavesOwn, Recorded, Tracked,
     Backed, SavedMatchesKey

\* Every step keeps what is known of contents.
LEMMA ContentsStep == Owed /\ Contents /\ [BrokerNext]_allVars => Contents'
  BY PreparedStep, SavesOwnStep, RecordedStep, TrackedStep, SavedStep DEF Contents

\* What is saved under a key was computed for its prefix and by its model,
\* whatever fails, is evicted or dies in between (SavedMatchesKey): a slot is
\* saved only while nothing pending can have overwritten it.
THEOREM SavedContentMatchesKey == BrokerSpec => []SavedMatchesKey
<1>1. Contents => SavedMatchesKey
  BY DEF Contents
<1> QED
  BY <1>1, OwedInit, OwedStep, ContentsInit, ContentsStep, PTL DEF BrokerSpec

\* The occupancy table names only prefixes that the free slots really hold,
\* but for content left behind by an abandoned request (ResidencyIsTrue).
THEOREM ResidencyIsAlwaysTrue == BrokerSpec => []ResidencyIsTrue
<1>1. Owed /\ Contents => ResidencyIsTrue
  <2> SUFFICES ASSUME Owed, Contents, NEW s \in SlotIds, resident[s] # NoResident, ~busy[s]
               PROVE  kv[s] = Computed(resident[s]) \/ LeftBehind(s)
    BY DEF ResidencyIsTrue
  <2>1. \A r \in Req : ~Holds(r, s)
    BY DEF Owed, Ownership, GuardedSlotsStayBusy, Holds
  <2>2. Backed(s)
    BY <2>1 DEF Contents, Tracked, Fresh
  <2> QED
    BY <2>2 DEF Backed
<1> QED
  BY <1>1, OwedInit, OwedStep, ContentsInit, ContentsStep, PTL DEF BrokerSpec

\* A hinted request is sent to a slot that holds its own prefix computed by
\* its own model, or content left behind by an abandoned request
\* (SentOntoOwnPrefix), whichever way the slot was prepared.
THEOREM RequestsRunOnOwnPrefix == BrokerSpec => []SentOntoOwnPrefix
<1>1. Owed /\ Contents => SentOntoOwnPrefix
  <2> SUFFICES ASSUME Owed, Contents, NEW r \in Req, Running(r, "send"), hint[r] # NoHint
               PROVE  kv[slot[r]] = Content(hint[r]) \/ LeftBehind(slot[r])
    BY DEF SentOntoOwnPrefix
  <2>1. pc[r] = "admitted" /\ job[r] = "send" /\ slot[r] \in SlotIds
    BY DEF Running, Owed, Ownership, AdmittedHasSlot
  <2>2. resident[slot[r]] = Named(hint[r])
    BY <2>1 DEF Contents, Recorded
  <2>3. Named(hint[r]) # NoResident /\ Computed(Named(hint[r])) = Content(hint[r])
    <3>1. Named(hint[r]) \in Resident /\ Computed(Named(hint[r])) = Content(hint[r])
      BY HintTypes DEF Owed, BrokerTypeOK, TypeOK
    <3> QED
      BY <3>1, SchedulerAssumption
  <2>4. \A q \in Req : ~Fresh(q, slot[r])
    BY <2>1, OtherSlot DEF Fresh, Holds
  <2>5. Backed(slot[r])
    BY <2>1, <2>4 DEF Contents, Tracked
  <2> QED
    BY <2>2, <2>3, <2>5 DEF Backed
<1> QED
  BY <1>1, OwedInit, OwedStep, ContentsInit, ContentsStep, PTL DEF BrokerSpec

-----------------------------------------------------------------------------
\* What else the scheduler promises, across crashes of the broker.

\* The ownership of slots survives restarts: no slot ever has two owners, an
\* owned slot is busy and out of reach of reconciliation, and every busy slot
\* has a guard or is within reach of it.
THEOREM OwnershipSurvivesCrashes ==
  BrokerSpec => [](MutualExclusion /\ GuardedSlotsStayBusy /\ NoLeakedSlot)
<1>1. Owed => MutualExclusion /\ GuardedSlotsStayBusy /\ NoLeakedSlot
  BY DEF Owed, Ownership
<1> QED
  BY <1>1, OwedInit, OwedStep, PTL DEF BrokerSpec

\* A restart leaves nobody waiting: the clients of the old process are gone.
LEMMA RestartWaiters ==
  ASSUME Restart
  PROVE  Waiters' /\ FreeSlotHasNoQueue'
<1>1. /\ slot_waiters' = [s \in SlotIds |-> {}]
      /\ pc' = [r \in Req |-> IF pc[r] = "new" THEN "new" ELSE "left"]
  BY DEF Restart, NewScheduler
<1>2. \A r \in Req : pc'[r] \in {"new", "left"}
  BY <1>1
<1>3. QueuesMatchHints' /\ FreeSlotHasNoQueue'
  BY <1>1 DEF QueuesMatchHints, FreeSlotHasNoQueue, FreeSlots
<1>4. SpecificWaiterCovered' /\ GlobalWaiterCovered'
  BY <1>2 DEF SpecificWaiterCovered, GlobalWaiterCovered
<1> QED
  BY <1>3, <1>4 DEF Waiters

\* No wake-up is lost with the forwarding tasks, the reconciliation task and
\* restarts around the scheduler either, and no dead sender outlives the busy
\* period it was queued in.
THEOREM WakeUpsSurviveCrashes ==
  BrokerSpec => [](SpecificWaiterCovered /\ GlobalWaiterCovered /\ FreeSlotHasNoQueue)
<1> DEFINE Covered == Waiters /\ FreeSlotHasNoQueue
<1>1. BrokerInit => Covered
  BY WaitersInit DEF BrokerInit, Init, Seed, FreeSlotHasNoQueue, FreeSlots
<1>2. Owed /\ Owed' /\ Covered /\ [BrokerNext]_allVars => Covered'
  <2> SUFFICES ASSUME Owed, Owed', Covered, [BrokerNext]_allVars PROVE Covered'
    OBVIOUS
  <2>1. TypeOK /\ Ownership
    BY DEF Owed, BrokerTypeOK
  <2>2. CASE [Next]_vars
    BY <2>1, <2>2, WaitersStep, NoQueueStep
  <2>3. CASE Restart
    BY <2>3, RestartWaiters
  <2> QED
    BY <2>2, <2>3, SchedulerStep
<1>3. Covered => SpecificWaiterCovered /\ GlobalWaiterCovered /\ FreeSlotHasNoQueue
  BY DEF Waiters
<1> HIDE DEF Covered
<1> QED
  BY <1>1, <1>2, <1>3, OwedInit, OwedStep, PTL DEF BrokerSpec

-----------------------------------------------------------------------------
\* How far what the documents claim is true.

\* The design document's claim about restarts holds as long as no crash met a
\* request that was sent and not begun: the only way to desync.
THEOREM DesyncNeedsAMissedRequest == BrokerSpec => [](missed = {} => NeverDesyncs)
<1>1. NoOverlappingWork => (missed = {} => NeverDesyncs)
  BY DEF NoOverlappingWork, NeverDesyncs
<1> QED
  BY <1>1, WorkNeverOverlaps, PTL

\* The README's claim that models never run on each other's KV state holds as
\* long as no upstream call was given up and no crash met a request that was
\* sent and not begun.
THEOREM ForeignKVNeedsAnAbandonedRequest ==
  BrokerSpec => []((\A q \in Req : ~GivenUp(q)) => NeverOnForeignKV)
<1>1. Owed /\ SentOntoOwnPrefix => ((\A q \in Req : ~GivenUp(q)) => NeverOnForeignKV)
  <2> SUFFICES ASSUME Owed, SentOntoOwnPrefix, \A q \in Req : ~GivenUp(q),
                      NEW r \in Req, Running(r, "send"), hint[r] # NoHint
               PROVE  kv[slot[r]].model = KeyModel(hint[r].model)
    BY DEF NeverOnForeignKV
  <2>1. kv[slot[r]] = Content(hint[r])
    BY DEF SentOntoOwnPrefix, LeftBehind, GivenUp
  <2> QED
    BY <2>1 DEF Content, Computed
<1> QED
  BY <1>1, OwedInit, OwedStep, RequestsRunOnOwnPrefix, PTL DEF BrokerSpec
=============================================================================
