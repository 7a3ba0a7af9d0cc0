------------------------------- MODULE Broker -------------------------------
(***************************************************************************)
(* One broker process in front of one llama-server: the forwarding task of *)
(* src/src/server.rs composed with the Scheduler, the reconciliation task  *)
(* and the startup of src/src/main.rs, and crashes of the broker between   *)
(* any two steps.                                                          *)
(*                                                                         *)
(* An admitted request runs forward(): prepare the slot (restore, or warm  *)
(* up and save), send the request, read the response to its end, drop the  *)
(* ReleaseGuard.  Each upstream call, the KV store's restore and save      *)
(* included, is a step that sends it and a later one that sees its result. *)
(* llama-server and the KV store are external; they are modelled by what   *)
(* the broker relies on: the calls each slot has not begun, in the order   *)
(* they were sent, the request it works on, the content it really holds,   *)
(* and the saved contents.  llama-server defers what is sent for a slot at *)
(* work, as the design document says (24-29 of                             *)
(* src/docs/superpowers/specs/2026-09-07-aivyx-broker-design.md), and      *)
(* takes a request for the model "" as one that names no model.            *)
(***************************************************************************)
EXTENDS Scheduler, Sequences

CONSTANTS
  NoModel,     \* the request names no model; llama-server uses its default
  EmptyModel,  \* the model "", which a client may name too
  NoKV,        \* no content that a hint could name
  MaxRestarts  \* bound on crashes of the broker

VARIABLES
  job,     \* where each request's forward() task is
  kv,      \* llama-server: the prefix each slot really holds
  pending, \* llama-server: per slot, the calls sent and not begun
  work,    \* llama-server: the requests it is processing, on their slots
  saved,   \* the KV store's contents by key
  polled,  \* idle slots of the last /slots poll not yet reconciled
  restarts,\* crashes so far
  missed   \* requests with a call pending in a crash (history)

llamaVars == <<kv, pending, work>>
crashVars == <<restarts, missed>>
brokerVars == <<job, llamaVars, saved, polled, crashVars>>
allVars == <<vars, brokerVars>>

Stage ==
  { "none",       \* task not started
    "restore",    \* about to ask the KV store
    "restoring",  \* restore sent
    "warm",       \* about to warm the slot up
    "warming",    \* warm-up sent
    "save",       \* warm-up done, about to save
    "saving",     \* save sent
    "mark",       \* about to call mark_resident
    "send",       \* slot prepared, about to send the request
    "stream",     \* request sent, reading the response
    "end",        \* response read to its end
    "unprepared", \* the warm-up failed
    "failed" }    \* the request or its response failed

\* What is sent for a slot: a call of the task of a request.
Call == [req : Req, kind : {"restore", "warmup", "save", "chat"}]

\* model.unwrap_or_default()
KeyModel(m) == IF m = NoModel THEN EmptyModel ELSE m

CacheKeys == [prefix : Prefix, model : {KeyModel(m) : m \in Model}]

ASSUME BrokerAssumption ==
  /\ NoModel \in Model
  /\ NoKV \notin CacheKeys
  /\ MaxRestarts \in Nat

KVContent == CacheKeys \cup {NoKV}

\* The CacheKey of a hint.
Key(h) == [prefix |-> h.prefix, model |-> KeyModel(h.model)]

\* What a slot holds once llama-server computed a body's prompt on it: the
\* prefix, by the model the body names or by the default one.
Computed(body) == [prefix |-> body.prefix, model |-> KeyModel(body.model)]

\* The content of a slot that served a request with hint h.
Content(h) == IF h = NoHint THEN NoKV ELSE Computed(h)

\* Faulty variant: the warm-up does not name the model.
WarmUpUnnamed(h) == [prefix |-> h.prefix, model |-> NoModel]

\* The warm-up's body: the prefix (system message and tools) and the model.
WarmUp(h) == [prefix |-> h.prefix, model |-> h.model]

BrokerTypeOK ==
  /\ TypeOK
  /\ job \in [Req -> Stage]
  /\ kv \in [SlotIds -> KVContent]
  /\ pending \in [SlotIds -> Seq(Call)]
  /\ work \in SUBSET Req
  /\ saved \in [CacheKeys -> KVContent]
  /\ polled \in SUBSET SlotIds
  /\ restarts \in 0 .. MaxRestarts
  /\ missed \in SUBSET Req

\* is_processing of llama-server's /slots: what is only pending is not seen.
Processing(s) == \E r \in work : slot[r] = s

\* llama-server has not answered all that was sent for r.
Unanswered(r) ==
  \/ r \in work
  \/ \E s \in SlotIds : \E i \in 1 .. Len(pending[s]) : pending[s][i].req = r

BrokerInit ==
  /\ Init /\ busy = [s \in SlotIds |-> FALSE]
  /\ job = [r \in Req |-> "none"]
  /\ kv = [s \in SlotIds |-> NoKV]
  /\ pending = [s \in SlotIds |-> <<>>]
  /\ work = {}
  /\ saved = [k \in CacheKeys |-> NoKV]
  /\ polled = {}
  /\ restarts = 0
  /\ missed = {}

-----------------------------------------------------------------------------
\* chat_completions up to the admission: the scheduler's own steps.
Admit(r) ==
  /\ \/ \E h \in Hints : Arrive(r, h)
     \/ Retry(r)
     \/ TimeOut(r)
     \/ HangUp(r)
  /\ UNCHANGED brokerVars

Running(r, stage) == pc[r] = "admitted" /\ job[r] = stage

Goto(r, stage) == job' = [job EXCEPT ![r] = stage]

\* Faulty variant: a hint-less request leaves the occupancy table alone.
BeginKeepsResident(r) ==
  /\ Running(r, "none")
  /\ Goto(r, IF hint[r] # NoHint /\ ~cache_ready[r] THEN "restore" ELSE "send")
  /\ UNCHANGED <<vars, llamaVars, saved, polled, crashVars>>

\* The spawned task enters send_upstream: prepare the slot, unless it holds
\* the prefix already; a hint-less request clears the slot's record instead.
Begin(r) ==
  /\ Running(r, "none")
  /\ IF hint[r] = NoHint
     THEN ClearResident(r) /\ Goto(r, "send")
     ELSE /\ Goto(r, IF cache_ready[r] THEN "send" ELSE "restore")
          /\ UNCHANGED vars
  /\ UNCHANGED <<llamaVars, saved, polled, crashVars>>

SendFor(r, kind) ==
  pending' = [pending EXCEPT ![slot[r]] = Append(@, [req |-> r, kind |-> kind])]

\* Faulty variant: an error of the store counts as restored.
RestoreErrorCounts(r) ==
  /\ Running(r, "restore")
  /\ \/ /\ saved[Key(hint[r])] # NoKV
        /\ SendFor(r, "restore")
        /\ Goto(r, "restoring")
     \/ Goto(r, "mark") /\ UNCHANGED pending
  /\ UNCHANGED <<vars, kv, work, saved, polled, crashVars>>

\* kv_store.restore_into_slot looks the key up: a hit is sent for the slot;
\* after a miss or an error the slot is warmed up instead.
Restore(r) ==
  /\ Running(r, "restore")
  /\ \/ /\ saved[Key(hint[r])] # NoKV
        /\ SendFor(r, "restore")
        /\ Goto(r, "restoring")
     \/ Goto(r, "warm") /\ UNCHANGED pending
  /\ UNCHANGED <<vars, kv, work, saved, polled, crashVars>>

\* The restore succeeded.
Restored(r) ==
  /\ Running(r, "restoring") /\ ~Unanswered(r)
  /\ Goto(r, "mark")
  /\ UNCHANGED <<vars, llamaVars, saved, polled, crashVars>>

\* The restore failed after it was sent, whether llama-server has loaded the
\* slot, will load it yet or never does: the slot is warmed up instead.
RestoreFails(r) ==
  /\ Running(r, "restoring")
  /\ Goto(r, "warm")
  /\ UNCHANGED <<vars, llamaVars, saved, polled, crashVars>>

\* The warm-up is sent.
Warm(r) ==
  /\ Running(r, "warm")
  /\ SendFor(r, "warmup")
  /\ Goto(r, "warming")
  /\ UNCHANGED <<vars, kv, work, saved, polled, crashVars>>

\* The warm-up succeeded.
Warmed(r) ==
  /\ Running(r, "warming") /\ ~Unanswered(r)
  /\ Goto(r, "save")
  /\ UNCHANGED <<vars, llamaVars, saved, polled, crashVars>>

\* kv_store.save_from_slot is sent, or fails at once, which is only logged.
Save(r) ==
  /\ Running(r, "save")
  /\ \/ SendFor(r, "save") /\ Goto(r, "saving")
     \/ Goto(r, "mark") /\ UNCHANGED pending
  /\ UNCHANGED <<vars, kv, work, saved, polled, crashVars>>

\* The save succeeded.
Saved(r) ==
  /\ Running(r, "saving") /\ ~Unanswered(r)
  /\ Goto(r, "mark")
  /\ UNCHANGED <<vars, llamaVars, saved, polled, crashVars>>

\* The save failed after it was sent; llama-server may see to it yet.
SaveFails(r) ==
  /\ Running(r, "saving")
  /\ Goto(r, "mark")
  /\ UNCHANGED <<vars, llamaVars, saved, polled, crashVars>>

Mark(r) ==
  /\ Running(r, "mark")
  /\ MarkResident(r)
  /\ Goto(r, "send")
  /\ UNCHANGED <<llamaVars, saved, polled, crashVars>>

\* The request is sent.
Send(r) ==
  /\ Running(r, "send")
  /\ SendFor(r, "chat")
  /\ Goto(r, "stream")
  /\ UNCHANGED <<vars, kv, work, saved, polled, crashVars>>

\* The response stream ends.
StreamEnd(r) ==
  /\ Running(r, "stream") /\ ~Unanswered(r)
  /\ Goto(r, "end")
  /\ UNCHANGED <<vars, llamaVars, saved, polled, crashVars>>

\* An upstream call fails: refused at once or, after it was sent, with an
\* error or a read timeout, whether llama-server has begun or not.  Every such
\* path returns and drops the guard.
Fail(r) ==
  /\ \/ (Running(r, "warm") \/ Running(r, "warming")) /\ Goto(r, "unprepared")
     \/ (Running(r, "send") \/ Running(r, "stream")) /\ Goto(r, "failed")
  /\ UNCHANGED <<vars, llamaVars, saved, polled, crashVars>>

\* Faulty variant: the slot is released by an explicit call on success, not
\* by a guard that early returns drop too.
ReleaseOnSuccess(r) ==
  /\ Running(r, "end")
  /\ Release(r)
  /\ UNCHANGED brokerVars

\* The task ends and drops its ReleaseGuard.
DropGuard(r) ==
  /\ \E stage \in {"end", "unprepared", "failed"} : Running(r, stage)
  /\ Release(r)
  /\ UNCHANGED brokerVars

-----------------------------------------------------------------------------
\* The reconciliation task.

\* Faulty variant: the test of is_processing is inverted.
PollBusy ==
  /\ polled = {}
  /\ polled' = {s \in SlotIds : Processing(s)}
  /\ UNCHANGED <<vars, job, llamaVars, saved, crashVars>>

\* fetch_slots of reconcile_seeded_slots; a failed poll changes nothing.
Poll ==
  /\ polled = {}
  /\ polled' = {s \in SlotIds : ~Processing(s)}
  /\ UNCHANGED <<vars, job, llamaVars, saved, crashVars>>

\* Faulty variant: every slot that was idle when polled is freed.
ReconcileUnchecked(s) ==
  /\ s \in polled
  /\ polled' = polled \ {s}
  /\ busy' = [busy EXCEPT ![s] = FALSE]
  /\ WakeWaitersFor(s, pc)
  /\ UNCHANGED <<seeded_unowned, resident, last_used, clock, hint, slot, cache_ready>>
  /\ UNCHANGED <<job, llamaVars, saved, crashVars>>

\* The loop over the polled slots, whose data may be stale by now.
Reconcile(s) ==
  /\ s \in polled
  /\ polled' = polled \ {s}
  /\ IF seeded_unowned[s] THEN ReconcileSeededIdle(s) ELSE UNCHANGED vars
  /\ UNCHANGED <<job, llamaVars, saved, crashVars>>

-----------------------------------------------------------------------------
\* The environment.

\* The prompt of a warm-up or of a request, once computed.
Prompt(call) ==
  IF call.kind = "warmup" THEN Computed(WarmUp(hint[call.req]))
                          ELSE Content(hint[call.req])

\* The next call for s is of one of these kinds, and the slot is idle.
Ready(s, kinds) ==
  pending[s] # <<>> /\ Head(pending[s]).kind \in kinds /\ ~Processing(s)

Dequeue(s) == pending' = [pending EXCEPT ![s] = Tail(@)]

\* llama-server begins the next request for s and overwrites its content.
LlamaStart(s) ==
  /\ Ready(s, {"warmup", "chat"})
  /\ kv' = [kv EXCEPT ![s] = Prompt(Head(pending[s]))]
  /\ work' = work \cup {Head(pending[s]).req}
  /\ Dequeue(s)
  /\ UNCHANGED <<vars, job, saved, polled, crashVars>>

\* llama-server loads saved content into s, unless it was evicted meanwhile.
LlamaRestore(s) ==
  /\ Ready(s, {"restore"})
  /\ LET k == Key(hint[Head(pending[s]).req])
     IN  saved[k] # NoKV /\ kv' = [kv EXCEPT ![s] = saved[k]]
  /\ Dequeue(s)
  /\ UNCHANGED <<vars, job, work, saved, polled, crashVars>>

\* llama-server saves the content of s.
LlamaSave(s) ==
  /\ Ready(s, {"save"})
  /\ saved' = [saved EXCEPT ![Key(hint[Head(pending[s]).req])] = kv[s]]
  /\ Dequeue(s)
  /\ UNCHANGED <<vars, job, kv, work, polled, crashVars>>

\* The task of the call's request waits for it.
Awaited(call) ==
  \/ call.kind = "restore" /\ Running(call.req, "restoring")
  \/ call.kind = "warmup" /\ Running(call.req, "warming")
  \/ call.kind = "save" /\ Running(call.req, "saving")
  \/ call.kind = "chat" /\ Running(call.req, "stream")

\* llama-server sees that nobody waits for the next call for s any more.
LlamaDrop(s) ==
  /\ pending[s] # <<>> /\ ~Awaited(Head(pending[s]))
  /\ Dequeue(s)
  /\ UNCHANGED <<vars, job, kv, work, saved, polled, crashVars>>

\* llama-server finishes the work it has for r.
LlamaFinish(r) ==
  /\ r \in work
  /\ work' = work \ {r}
  /\ UNCHANGED <<vars, job, kv, pending, saved, polled, crashVars>>

\* The KV store evicts an entry to stay under its byte limit.
Evict(k) ==
  /\ saved[k] # NoKV
  /\ saved' = [saved EXCEPT ![k] = NoKV]
  /\ UNCHANGED <<vars, job, llamaVars, polled, crashVars>>

\* The scheduler a starting broker builds, and what becomes of the requests
\* of the one that died.
NewScheduler(processing) ==
  /\ busy' = [s \in SlotIds |-> s \in processing]
  /\ seeded_unowned' = [s \in SlotIds |-> s \in processing]
  /\ resident' = [s \in SlotIds |-> NoResident]
  /\ last_used' = [s \in SlotIds |-> 0]
  /\ clock' = 0
  /\ slot_waiters' = [s \in SlotIds |-> {}]
  /\ global_waiters' = {}
  /\ pc' = [r \in Req |-> IF pc[r] = "new" THEN "new" ELSE "left"]
  /\ UNCHANGED <<hint, slot, cache_ready>>

\* Faulty variant: the new broker takes every slot for idle.
RestartUnseeded ==
  /\ restarts < MaxRestarts
  /\ NewScheduler({})
  /\ polled' = {}
  /\ restarts' = restarts + 1
  /\ missed' = missed \cup {r \in Req : Unanswered(r) /\ r \notin work}
  /\ UNCHANGED <<job, llamaVars, saved>>

\* The broker dies; llama-server, its slots and the KV store live on.  The
\* new process sizes and seeds its scheduler from llama-server's /slots.
Restart ==
  /\ restarts < MaxRestarts
  /\ NewScheduler({s \in SlotIds : Processing(s)})
  /\ polled' = {}
  /\ restarts' = restarts + 1
  /\ missed' = missed \cup {r \in Req : Unanswered(r) /\ r \notin work}
  /\ UNCHANGED <<job, llamaVars, saved>>

-----------------------------------------------------------------------------
\* The steps of the task that only wait to be polled: what they need is there.
TaskStep(r) ==
  \/ Begin(r)
  \/ Restore(r)
  \/ Restored(r)
  \/ Warm(r)
  \/ Warmed(r)
  \/ Save(r)
  \/ Saved(r)
  \/ Mark(r)
  \/ Send(r)
  \/ StreamEnd(r)
  \/ DropGuard(r)

JobStep(r) == TaskStep(r) \/ RestoreFails(r) \/ SaveFails(r) \/ Fail(r)

LlamaStep(s) == LlamaStart(s) \/ LlamaRestore(s) \/ LlamaSave(s) \/ LlamaDrop(s)

BrokerNext ==
  \/ \E r \in Req : Admit(r) \/ JobStep(r) \/ LlamaFinish(r)
  \/ Poll
  \/ \E s \in SlotIds : Reconcile(s) \/ LlamaStep(s)
  \/ \E k \in CacheKeys : Evict(k)
  \/ Restart

BrokerSpec == BrokerInit /\ [][BrokerNext]_allVars

\* The client's read timeout ends a wait in which llama-server sends nothing:
\* for a warm-up, whose answer comes in one piece, and for a response that has
\* not begun.  A response under way may trickle for ever.
ReadTimeout(r) ==
  /\ Running(r, "warming") \/ (Running(r, "stream") /\ r \notin work)
  /\ Fail(r)

\* Tasks are polled, the read timeout fires, and the reconciliation task keeps
\* polling until /slots is answered.  Nothing else is assumed of llama-server,
\* which need never begin or end a request, nor of the KV store, whose calls
\* have no timeout here.
BrokerFairSpec ==
  /\ BrokerSpec
  /\ \A r \in Req : /\ WF_allVars(TaskStep(r) \/ ReadTimeout(r))
                    /\ WF_allVars(Retry(r) /\ UNCHANGED brokerVars)
  /\ WF_allVars(Poll)
  /\ \A s \in SlotIds : WF_allVars(Reconcile(s))

-----------------------------------------------------------------------------
\* Properties.

\* A job whose upstream call failed, whatever llama-server makes of it.
Failed(q) == job[q] \in {"unprepared", "failed"}

\* A request is never put onto a slot where llama-server works for another
\* one, across crashes and stale polls, unless the broker gave up on that one
\* after a read timeout, or died before llama-server had begun it.
NoOverlappingWork ==
  \A r \in Req : pc[r] = "admitted" =>
    \A q \in work : q # r /\ slot[q] = slot[r] => Failed(q) \/ q \in missed

\* A slot is given back, by a guard, a reconciliation from a stale poll or the
\* seeding of a new broker, only when llama-server has answered all that was
\* sent for it; calls that failed, and those no broker could see because they
\* were pending in a crash, aside.
SlotFreedOnlyWhenDone ==
  [][ \A q \in Req : Unanswered(q) /\ busy[slot[q]] /\ ~busy'[slot[q]] =>
        Failed(q) \/ q \in missed' ]_allVars

\* Slot s holds what llama-server computed or loaded for a request that the
\* broker had given up on, or that had a call pending when it died.
LeftBehind(s) ==
  \E q \in Req : /\ Failed(q) \/ q \in missed
                 /\ slot[q] = s /\ kv[s] = Content(hint[q])

\* The occupancy table names only prefixes that slots really hold: for a slot
\* nobody holds, the recorded prefix and model are those of its real content,
\* or that content was left behind by an abandoned request.
ResidencyIsTrue ==
  \A s \in SlotIds : resident[s] # NoResident /\ ~busy[s] =>
    kv[s] = Computed(resident[s]) \/ LeftBehind(s)

\* A hinted request is sent to a slot that holds its prefix computed by its
\* model, whether it was restored, warmed up or taken for resident, or the
\* slot's content was left behind by an abandoned request.
SentOntoOwnPrefix ==
  \A r \in Req : Running(r, "send") /\ hint[r] # NoHint =>
    kv[slot[r]] = Content(hint[r]) \/ LeftBehind(slot[r])

\* Saved content was computed for the prefix and by the model of its key.
SavedMatchesKey == \A k \in CacheKeys : saved[k] \in {NoKV, k}

\* r waits for a call that the code does not bound: one of the KV store, or a
\* response that llama-server keeps working on.
WaitsUpstream(r) ==
  \/ (Running(r, "restoring") \/ Running(r, "saving")) /\ Unanswered(r)
  \/ Running(r, "stream") /\ r \in work

\* Under BrokerFairSpec: an admitted request gives its slot back, also when
\* llama-server never begins what was sent, or the warm-up hangs; it keeps its
\* slot for ever only in a wait that the code does not bound.
SlotIsGivenBack ==
  \A r \in Req : <>[](pc[r] = "admitted") => <>[]WaitsUpstream(r)

\* Under BrokerFairSpec: a slot seeded busy across a restart becomes
\* available again, unless llama-server works on it over and over.
SeededSlotIsFreed ==
  \A s \in SlotIds : seeded_unowned[s] /\ busy[s] ~> ~busy[s] \/ Processing(s)

\* README.md on the chat route: two models sharing a system prompt never run
\* on each other's KV state.
NeverOnForeignKV ==
  \A r \in Req : Running(r, "send") /\ hint[r] # NoHint =>
    kv[slot[r]] = NoKV \/ kv[slot[r]].model = KeyModel(hint[r].model)

\* The design document on restarts (241-247): a slot still in use is not given
\* to another request, and a restart never desyncs from physical reality.
NeverDesyncs ==
  \A r \in Req : pc[r] = "admitted" =>
    \A q \in work : q # r /\ slot[q] = slot[r] => Failed(q)
=============================================================================
