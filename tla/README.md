# TLA+ models of aivyx-broker

aivyx-broker is a loopback HTTP proxy that lets several processes share one
`llama-server`: it hands out the server's slots, keeps their KV caches warm,
relays responses, and offers an independent lease lock for other GPU work.
This directory models the parts of it in which several tasks, clients, timers
and crashes interleave, checks them with TLC, and proves every safety invariant
and both refinements with TLAPS for every size of the system.

## 1. Inventory

| Part | Source | State | Operations | Module |
|---|---|---|---|---|
| Slot scheduler | `src/src/scheduler.rs` | per slot `busy`, `seeded_unowned`, resident prefix and model, `last_used`; `clock`; one wake queue per slot and a global one | `new`, `seed_busy`, `admit`, `release`, `mark_resident`, `clear_resident`, `reconcile_seeded_idle` (`snapshot` reads) | `Scheduler` |
| Forwarding task, slot side | `src/src/server.rs` 238-589 | the `ReleaseGuard`, `cache_ready`; through it the residency table, the KV store, llama-server's slots | `chat_completions`, `forward`, `send_upstream`, `warm_or_restore` | `Broker` |
| Forwarding task, client side | `src/src/server.rs` 267-459 | head oneshot, bounded chunk channel, `abandoned` flag | relay, give up, drain, release, close | `Relay` |
| Startup and reconciliation | `src/src/main.rs`, `src/src/llama_client.rs` | none of its own | seed from `/slots`, poll it every 10 s | `Broker` |
| GPU lock | `src/src/gpu_lock.rs`, handlers in `server.rs`, reaper in `main.rs` | `held` lease and its grant time, waiters | `acquire`, `release`, `reap_expired` | `GpuLock` |
| VRAM cache | `src/src/server.rs` 40-136 over `src/src/gpu.rs` | last reading, its time and freshness, `in_flight`, a tokio mutex | `get` | `VramCache` |
| GPU probe | `src/src/gpu.rs` | a child process during a call | run `nvidia-smi` under a deadline and sum its lines, pick an AMD card | `GpuProbe` |
| Host guard | `src/src/host_guard.rs`, `build_router` | the allow list | pass a request on, or refuse it by its `Host` header | `HostGuard` |
| `/models`, `/slots` parsing | `src/src/llama_client.rs` | none | JSON to records | what `Broker` uses of it |
| Configuration, read-only routes | `src/src/config.rs`, `server.rs` 163-186 | none | - | not modelled |

Interactions: a chat request is admitted by the scheduler and its guard moves
into a spawned task, which calls the KV store and llama-server and then the
scheduler's `mark_resident` / `clear_resident`, and whose end (by any path)
drops the guard, i.e. calls `release`. The reconciliation task calls
`reconcile_seeded_idle` with an answer of llama-server that may be stale. The
GPU lock and the VRAM cache share nothing with the rest; the cache calls the
GPU probe on a blocking thread. The host guard runs before every route.

What is hard here, and what makes each part correct:

- *Scheduler.* Wakes are bare signals; a signalled waiter may hang up before it
  is polled again, several waiters race for one slot, and slots seeded busy
  after a restart have no owner. Correct: no slot has two owners, none is
  leaked, no waiter sleeps beside a slot it could have.
- *Forwarding.* Any upstream call may fail or time out, the client may leave at
  any point, the broker may crash and leave llama-server at work. Correct: no
  overlapping work on a slot; the residency table and the saved states tell the
  truth about prefix *and* model; the slot comes back once llama-server is done
  with it, and no sooner.
- *Relay.* Ordering of flag, guard and channel against a client that stalls.
  Correct: a truncated body never looks complete, the slot is held exactly
  while llama-server works on it.
- *GPU lock.* Releases arrive late, twice or never. Correct: a client within
  its `max_hold` never loses the lock, and no lease wedges it.
- *VRAM cache.* Probes hang for good and callers are cancelled. Correct: one
  pinned thread at most, no stale reading, every call answered.
- *GPU probe.* `nvidia-smi` hangs, is held by a wedged driver, fills its pipe or
  sees only some of the GPUs. Correct: no process is left behind, no part of
  the memory passes for the whole, the call returns.
- *Host guard.* One host has many spellings. Correct: the verdict on a conformant
  header depends on the host and not on its spelling or port.

`PROJECT.json` lists every hazard at its line with the properties aimed at it.

## 2. Modules

`SlotPool` — what an admission queue promises, without queues, signals and
retries: a party that asks is served at once if a slot it wants is free and
queues only otherwise; it holds a free slot it wants, exclusively and once; it
may leave the queue, and takes nothing with it; a slot given back is free, not
handed on. `Scheduler` implements it with llama-server's slots (`foreign` are
the busy slots without an owner, left from before a restart), `GpuLock` with a
single slot. In both mappings `waiting` and `woken` are one abstract phase, so
signals, failed retries and dead senders are stuttering steps.

`Scheduler` — each method holds one mutex for its body and is one action;
`admit` is cut at its await into `Arrive` (first lock section), `Retry` (a
section after a wake), `TimeOut` and `HangUp`. `pc[r]` follows one call and the
ownership after it: `waiting` means its sender is live in a queue, `woken` that
the signal was sent but the task not polled, `left_woken` that the client hung
up in that window. Queues are sets because the code only ever drains a queue
as a whole. `Candidates` is the choice of `try_admit_locked`: preferred slot,
else first resident free slot, else the least recently used one. The
`last_used` / `clock` counters are u64 in the code and naturals here: they
grow by one per admission. `MarkResident` and `ClearResident` are enabled for
any slot owner; `Broker` says when they really happen.

`Broker` — extends `Scheduler` with the forwarding task's stages, llama-server
(`kv`: what each slot really holds, `pending`: the calls sent for it and not
begun, `work`: requests it is processing), the KV store (`saved`), the poll's
answer (`polled`) and crashes (`Restart`). Every upstream call is a step that
sends it and a later step that sees its result: `Restore` / `Restored` or
`RestoreFails`, `Warm` / `Warmed`, `Save` / `Saved` or `SaveFails`, `Send` /
`StreamEnd`, with `Fail` for the warm-up and the request. A crash, an error or
a timeout may come in between, and the call is then still with llama-server.
The external parts do what `src/` relies on and no more: llama-server sees to
what was sent for a slot in order, one call at a time (it defers the rest, see
the design document, 24-29), late or never; it may drop a call nobody waits
for, or carry it out all the same; entries may be evicted at any time. A body
is abstracted to (prefix, model). The warm-up has a body of its own (`WarmUp`),
and a slot holds what was computed from the body that was sent (`Computed`), by
the model it names or by llama-server's default. The model name `""` is one a
client may send; the code files it under the same key as no name, and
llama-server is assumed to take it as no name. Only `work` shows in `/slots`. `missed`
is a history variable: the requests that were pending in a crash. `Poll` and
the `Reconcile` steps over its answer are separate, so anything may happen
between them.

`Relay` — one response, chunk by chunk. `link` is the task's `client` option,
`chan` the bounded channel. Setting `abandoned` and dropping the sender are two
steps, as are dropping the guard and the sender. Scheduling and preparation are
its stage `upstream`.

`GpuLock` — a lease is named by the client it was granted to (UUIDs are fresh).
Time is a tick that ages granted leases up to `MaxHold + 1`, the first age that
the reaper distinguishes. A `Release` for a lease that is not the current one
is the 404 path and changes nothing. Queues are sets, as above.

`VramCache` — `get` is cut where it takes the mutex and where it awaits the
probe. `detached` counts probe threads whose caller left or gave up;
`cancelled` is a history variable, the probes whose callers hung up during a
call. Ages stop at the largest value the code compares; due timers and runnable
tasks go before time passes.

`GpuProbe` — one call of `vram()`, which keeps no state between calls.
`run_with_deadline` is cut at each `try_wait`, its sleep, the kill, the blocking
`wait` and the read of the output; the child runs beside it and may exit between
any two of them. `ParseNvidiaSmi` and `Amd` are folds over lines and directory
entries, with the body of the code's loop or iterator chain as their operators
(`AddLine`, `KeepLarger`), and compared with the memory the host really has
(`WholeHost`, `LargestCards`). MiB are converted to bytes as in the code; its
u64 never comes near overflow for a real GPU.

`HostGuard` — the middleware over headers as sequences of tokens, so that the
split at brackets and at the last colon is modelled as the code does it. A
request has a host, a port that may be missing or empty (`localhost:`), and an
IPv6 literal stands in brackets or, against the HTTP grammar, does not.

Theorems are in modules of their own: `SchedulerProofs`, `GpuLockProofs`,
`BrokerProofs` (which extends `SchedulerProofs`), `RelayProofs`,
`VramCacheProofs`, `GpuProbeProofs`, `HostGuardProofs`, and `FoldFacts`, which
says what `FoldLeft` computes and is instantiated by `GpuProbeProofs`.

Each `MC*` module fixes hints and symmetry for TLC. Definitions marked *Faulty
variant* are plausible mistakes; the mutants of `PROJECT.json` substitute them
one at a time and the named property must then fail.

## 3. Runs

| Run | Instance | What it shows |
|---|---|---|
| `scheduler` | 2 slots, 3 requests, 4 hints, every seeding; r1 is patient, the others may time out or hang up | `TypeOK`, `MutualExclusion`, `GuardedSlotsStayBusy`, `NoLeakedSlot`, `SpecificWaiterCovered`, `GlobalWaiterCovered`, `FreeSlotHasNoQueue`; refinement `ImplementsSlotPool`; liveness `SpecificWaiterServed`, `WaiterServedOrSignalLost` |
| `scheduler_preempt` | same, nobody hangs up | **violated**: `NeverPreempted` |
| `scheduler_starve` | 1 slot | **violated**: `NoStarvation` |
| `gpu_lock` | 4 clients, `MaxHold` 2, c1 patient | `TypeOK`, `LeaseIsExclusive`, `WaiterCovered`, `HolderWasGranted`; refinement `ImplementsSlotPool`; liveness `LeaseEnds`, `WaiterServed` |
| `broker` | 1 slot, 2 requests, 2 crashes; no hint, a named model, no model, the model `""` | `BrokerTypeOK`, `NoOverlappingWork`, `ResidencyIsTrue`, `SentOntoOwnPrefix`, `SavedMatchesKey`; action property `SlotFreedOnlyWhenDone`; liveness `SlotIsGivenBack`, `SeededSlotIsFreed` |
| `broker_foreign_kv` | as `broker`, 3 requests, 1 crash | **violated**: `NeverOnForeignKV` |
| `broker_desync` | as `broker`, 3 requests, 1 crash | **violated**: `NeverDesyncs` |
| `relay` | up to 5 chunks, channel of 2 | `CompleteMeansWhole`, `GuardOutlivesUpstream`, `FreedBeforeEnd`, `SlotIsReleased` and `TypeOK` |
| `vram_cache` | 3 callers that may hang up, 1 cancelled probe per call | `TypeOK`, `OneProbeThread`, `ServedIsRecent`, `WaitIsBounded`, `CallIsAnswered` |
| `vram_wait` | as `vram_cache` | **violated**: `WaitsOneDeadline` |
| `gpu_probe` | up to 3 GPUs, any of them lost, 8 listings of sysfs, 2 poll rounds | `TypeOK`, `NoChildLeftBehind`, `VramIsWhole`, `ReturnsUnlessWedged` |
| `host_guard` | 13 hosts, IPv6 with and without brackets; no port, an empty one, 2 ports; 8 allow lists | `ServedIffPermitted` |

*Bounds.* Two slots and three requests are the least in which a general and a
specific waiter compete while a third holds or frees a slot; the hints cover no
hint, no preference, an existing and a non-existing slot, and two models of one
prefix. In `broker` one request meets what another left: a slot recorded, warmed,
saved, overwritten, given up on, or still at work after a crash; two crashes
because a seeded slot may meet a second one. Liveness rules symmetry out and
keeps the run at two requests (330,000 states). The safety properties also hold
with three requests, one crash and `SYMMETRY MCSymmetry` (2.7 million states),
and with two slots and one crash (1.1 million), and they are proved for all sizes. The two
violated runs have three requests for the longest story: content of A recorded,
B's warm-up fails on it, A comes back. A channel of 2 with 5 chunks
can be filled, drained and filled again. The VRAM constants keep the order of
the real ones (TTL < back-off, nvidia-smi's timeout < deadline) at unit scale;
one cancelled probe already reaches the bound that `WaitIsBounded` allows. Three
GPUs print more lines than the modelled pipe of 3 holds, fewer do not.
A request or client is one call; a process that calls again is another element
of the set.

*Deadlock* is not checked where the finitely many calls of a behaviour end
(scheduler, broker, lock, relay, probe); it is checked for the VRAM cache and
the host guard, whose callers come back for ever.

*Fairness.* Never assumed of clients: signalled tasks are polled, intervals keep
firing, the forwarding task runs. `broker` assumes of the forwarding task
that it is polled and that the 300 s read timeout (main.rs:29-32) fires. That
timeout bounds silence since the last byte only, so it ends a wait for a warm-up
or for a response that has not begun, and not a response that trickles; and the
KV store has a client of its own (main.rs:50-54), whose calls nothing here
bounds. `SlotIsGivenBack` therefore says that a request that keeps its slot for
ever is, from some point on, in one of these waits (`WaitsUpstream`). `relay` adds
that the client cannot hold the slot either: its send timeout is 30 s, and the
responses modelled there are finite. The run `scheduler` does assume that an
admitted job ends (`WF(Release)`), i.e. that responses end and the KV store
answers, and that reconciliation finds a seeded slot idle, i.e. that
llama-server finishes what it had begun: its two liveness properties are about
waiting, given that slots come back. `SeededSlotIsFreed` assumes that the
reconciliation task keeps polling until `/slots` is answered, and is stated up
to llama-server's own work. In `vram_cache` the mutex serves its queue in order
(tokio's is FIFO), hence strong fairness of its grants; a probe need never
return. In `gpu_probe` the thread runs and the kill succeeds, ending the child as
soon as the driver lets it go; `nvidia-smi` need not end by itself and the
driver need not recover.

*Exceptions stated in properties.* `NoOverlappingWork` and
`SlotFreedOnlyWhenDone` exclude the job that was given up after a failure or a
read timeout, which the README of the repository accepts, and the request that
was pending in a crash, the subject of the fourth finding below.
`ResidencyIsTrue` and `SentOntoOwnPrefix` exclude a slot whose content such a
request left behind, a failed warm-up (the third finding) included.
`SavedMatchesKey` has no exception. `LeaseIsExclusive` covers clients within
`max_hold`; past it the overlap is the documented tradeoff. `WaitIsBounded`
allows one more deadline for each probe whose caller hung up (the fifth
finding). `ReturnsUnlessWedged` excludes the child that the driver holds past its
kill: the comment of `run_with_deadline` (gpu.rs:76-77) says that polling keeps a
hung child from pinning the thread, but the `wait` after the kill (gpu.rs:100)
blocks until such a child is let go. `OneProbeThread` is what bounds the damage. `FreedBeforeEnd` is
about a complete end; after an error the client may see the end first.
`ServedIffPermitted` is about conformant headers, and refuses what the code
refuses: a name with a colon and no port after it, which `strip_port` leaves in
one piece (host_guard.rs:84) although HTTP allows it. A bare IPv6 literal whose
last group is all digits (`::1`) loses that group and is refused, although the
comment of `strip_port` (host_guard.rs:75-78) says bare literals are returned
unchanged.

### Findings

1. `scheduler_preempt`: the README says a waiter for one specific slot is never
   pre-empted by a general waiter for that slot. A general waiter woken for
   *another* slot chooses among all free slots and can take that one first.
2. `scheduler_starve`: the comment of `wake_waiters_for` says the starvation
   window is eliminated entirely. Across the two queues it is not: if the
   signalled specific waiters hang up, general waiters sleep beside a free slot
   until their timeout. `GlobalWaiterCovered` states exactly how far the
   guarantee goes, and is proved.
3. `broker_foreign_kv`: the README says two models sharing a system prompt never
   run on each other's KV state. A warm-up that fails after it overwrote the
   slot leaves the previous residency record, so the recorded model's next
   request skips its restore.
4. `broker_desync`: the design document says a restart never desyncs from
   physical reality. A request that llama-server has not begun when the broker
   dies is not `is_processing` in the `/slots` answer that the new broker seeds
   from; once it begins, its slot is in use and free to the broker. The next
   request then waits inside llama-server, the silent head-of-line blocking the
   broker exists to avoid.
5. `vram_wait`: two comments say that a residency request waits on the probe no
   longer than one deadline. A caller whose client hangs up frees the mutex and
   records nothing, so the next in the queue, which has waited already, starts a
   probe of its own and waits up to a deadline more. `WaitIsBounded`, which is
   proved, is the bound that holds.

## 4. Proofs

Every theorem holds for every value of the constants, under the `ASSUME`s of the
component modules only; none needs a set to be finite. The assumptions say that
sentinels are not members of the sets they extend, that bounds are naturals, and
what follows from the code's own constants and from the grammar of headers: the
VRAM cache's TTL is positive and below its back-off and the time limit of
`nvidia-smi` below the deadline, GPUs and entries of sysfs report naturals or
nothing, the relay's channel has room for one item, the
digits of a port are no names, no brackets and no colons, an IPv6 literal has no
brackets inside, and no loopback or allowed host is spelled as a name followed
by a colon. TLC evaluates all of them on the instances of the runs.

Each safety theorem is `Spec => []Inv` from an inductive invariant that TLC had
checked on the runs' instances first.

**`SchedulerProofs`** — the seven invariants of run `scheduler`, in layers, each
assuming the ones before:

- `TypeOK`, which needs that `Candidates` returns free existing slots only
  (`CandidatesAreFree`).
- `Ownership` = `MutualExclusion`, `GuardedSlotsStayBusy`, `NoLeakedSlot` and
  `AdmittedHasSlot`. Exclusion alone is not inductive: a reconciliation could
  free an owned slot. What rules it out is that a guarded slot is no longer
  `seeded_unowned`, and what makes a claim safe is that it takes a free slot,
  which by `GuardedSlotsStayBusy` has no guard.
- `Waiters` = `SpecificWaiterCovered`, `GlobalWaiterCovered` and
  `QueuesMatchHints` (who is queued where follows from the hint). The last is
  needed for the wake: the requests signalled for a slot are those that want
  exactly it, so a general waiter that was passed over is covered by them.
  `NoCandidateMeansBusy` is where an empty choice is shown to mean that no
  slot is free; it rests on the well-foundedness of the naturals, for the least
  recently used free slot and the lowest index among equals.
- `FreeSlotHasNoQueue`: a slot's queue gets an entry only while the slot is busy
  (`NoCandidateMeansBusy` again), and whatever frees the slot drains it.

`SuspendedWaitersAreNotOvertaken` is an action property: no admission takes a
slot that a request is still suspended for, since a specific waiter sleeps only
beside a busy slot and a claim takes a free one. It is what remains true of
`NeverPreempted` (finding 1): only a waiter that was signalled and not polled
yet can be overtaken.

The refinement is `Spec => ImplementsSlotPool`. The slots that
`SlotPool` calls foreign are those seeded and still busy (`ForeignIsSeeded`), so
its `Free` is the busy flag (`FreeIsNotBusy`); both need `Ownership`. A claim
then maps to a grant, an enqueue to asking for slots none of which is free, a
release to giving back, a reconciliation to the end of foreign work, and every
wake, failed retry and residency update to a stutter.

**`GpuLockProofs`** — the four invariants of run `gpu_lock`, whose conjunction is
inductive, and the refinement of a `SlotPool` with a single slot.
`HolderWasGranted` is needed for the others (a queued client is not the holder),
and the reaper's strict `>` for `LeaseIsExclusive`.

**`BrokerProofs`** — the five invariants and the action property of run `broker`.
`SchedulerStep` shows that every step is a scheduler step, none, or a restart;
so the scheduler's own lemmas carry `TypeOK` and `Ownership` through
(`SchedulerKept`). On top of these come two layers:

- `Owed`, about what llama-server has for whom: a task runs only for a request
  that was given a slot (`JobShape`); a pending call was given up, by a task that
  failed or moved on, except possibly the last of its slot, which the slot's
  holder awaits (`QueueShape`);
  what is worked on is given up, awaited by its holder, or keeps its slot seeded
  (`WorkShape`); and a seeded slot in the last poll's answer has no work but
  given-up one, however stale the answer is (`PollShape`). The last makes
  reconciliation harmless: a slot still seeded has no holder, so nothing pending
  for it is awaited, and what begins on it after the poll was given up.
  `NoOverlappingWork` follows from `WorkShape` and `Ownership`.
  `SlotFreedOnlyWhenDone` follows step by step: only a dropped guard, a
  reconciliation or a restart frees a slot (`WhoFrees`), and what llama-server
  still owes for it was then given up or is pending in the crash.
- `Contents`, about what slots hold: a slot about to be saved or recorded holds
  the prefix it was prepared for, with nothing pending but its own save, and one
  that is being restored or warmed up has that call last in its queue
  (`Prepared`); a pending save is the first call of its slot, and the slot holds
  what its key names (`SavesOwn`); the table names the prefix of the request being
  forwarded, or nothing for a hint-less one (`Recorded`); the table is right about
  every slot, up to content left behind, except while a slot that has its new
  content already is still being prepared (`Tracked`); and `SavedMatchesKey`. The
  parts need each other: a restore is right because the store is, the store
  because a slot is saved only when prepared and nothing overtakes a pending
  save, the table because it is set from either. The exception in `Tracked` ends
  in one of two ways, with the record or with a failed warm-up, and the second
  is the third finding.

From these follow four more theorems. `OwnershipSurvivesCrashes` and
`WakeUpsSurviveCrashes` carry the scheduler's other invariants over to the
composed system, where a restart replaces the scheduler under llama-server's
work (`RestartWaiters`: it leaves nobody waiting).
`DesyncNeedsAMissedRequest` and `ForeignKVNeedsAnAbandonedRequest` delimit
findings 4 and 3: the claims hold in every state whose history has no request
that was pending in a crash and, for the latter, none that was given up. The
runs' counterexamples show that these conditions cannot be dropped.

**`RelayProofs`** — the four invariants of run `relay` for every response length
and channel capacity. The core is `NothingLost`, a count: chunks received, on
the channel and in the task's hands add up to the chunks read, as long as the
client is there and was not given up. Together with `SenderKept` (the sender goes
only at the end, or after `abandoned` was set or the client left), `ErrIsLast`
(the stream's error is the last item, and is there exactly while due) and
`ReadToTheEnd` it gives `CompleteMeansWhole`.

**`VramCacheProofs`** — the four invariants of run `vram_cache`. `FlagMatchesThread`
(`in_flight` is set exactly while some probe thread runs) makes probes single
flight across timeouts and cancelled callers; `HolderProbes` ties the mutex to
the caller that waits for a probe; `WaitsAdd` adds up what each call has waited,
one deadline for each probe cancelled during it and the age of the current one.

**`GpuProbeProofs`** — the three invariants of run `gpu_probe`, for hosts with any
number of GPUs and listings of any length. `NoChildLeftBehind`: where the call is
determines what became of the child (`ChildMatchesCall`), and every way out of
the poll loop goes through a reap. `VramIsWhole` needs what the two folds
compute: `ParseIsWhole` (the sum over all GPUs, or no answer) and `AmdIsLargest`
(a readable card with the most memory, or none). With `SourceMatchesCall` (sysfs
is read only for the sources that ask for it) they make the answer of each
source right, and well typed.

**`FoldFacts`** — induction over data without theorems over operators, which the
provers cannot instantiate. The operator folded with is a constant of the
module, and a use of it is an `INSTANCE`. `SetInduction` is induction over the
naturals with a set in the place of a predicate, from the least counterexample.
`TableExists` shows that the recursive function inside `FoldLeft` exists, and
`FoldRuns` that the fold is the last of a run of results, each made from the one
before. `ParseIsWhole` and `AmdIsLargest` are then inductions along that run.

**`HostGuardProofs`** — `ServedIffPermitted` for all names, bracketed IPv6 literals,
ports and allow lists. Two lemmas are behind it. `StripPortFindsHost`: the split
at brackets or at the last colon finds the host that the header was built from.
`NameColonIsRefused`: a name with an empty port stays in one piece, and is no
host that is allowed.

Only model-checked:

- every liveness property (`SpecificWaiterServed`, `WaiterServedOrSignalLost`,
  `LeaseEnds`, `WaiterServed`, `SlotIsGivenBack`, `SeededSlotIsFreed`,
  `SlotIsReleased`, `CallIsAnswered`, `ReturnsUnlessWedged`): fairness and
  `ENABLED` are outside the prover's reach;
- the five violated properties, which are shown false. `GlobalWaiterCovered`,
  `WaitIsBounded` and the theorems named above say how far the claims about the
  scheduler, the broker and the VRAM cache hold.

## 5. Not modelled

Bodies, headers other than `Host`, status codes and JSON; `/models` parsing and
the assembly of the read-only answers, which are stateless and best-effort
(`snapshot` reads the scheduler under its mutex, `residency` joins three
independent readings); configuration, whose values are the constants here;
restarts of llama-server (the broker has no code for them); mutex poisoning and
panics of the broker's own code, the probe's panic apart; ids of slots beyond
llama-server's own numbering.

## 6. Plan

Done: every stateful component, the composition `Broker` with crashes and a
llama-server that defers, the abstract `SlotPool` and its two refinements, the
runs, and the proofs of every safety invariant and of both refinements. Left:

1. `BrokerProofs`: the longest lemmas (`QueueShapeStep`, `LlamaPrepared`) cut at
   the actions that disturb them.
2. A `Broker` with restarts of llama-server, should the broker learn to handle
   them.
