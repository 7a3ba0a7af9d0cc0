------------------------------ MODULE VramCache ------------------------------
(***************************************************************************)
(* The cached, single-flight VRAM probe behind GET /v1/aivyx/residency:    *)
(* VramCache of src/src/server.rs over the probe of src/src/gpu.rs.        *)
(*                                                                         *)
(* get() holds a tokio mutex while it probes on a blocking thread.  The    *)
(* thread may answer at any time or hang for good; get() waits for it no   *)
(* longer than a deadline, and its client may hang up, which drops get()   *)
(* and the mutex guard but not the thread.                                 *)
(*                                                                         *)
(* Time is discrete and kept as ages that stop at the largest value the    *)
(* code compares them with, so that behaviours are unbounded and states    *)
(* finite.  Timers fire and tasks are polled before time passes on.        *)
(***************************************************************************)
EXTENDS Naturals

CONSTANTS
  Caller,     \* concurrent residency requests
  Nobody,     \* the mutex is free
  NoReading,  \* last = None
  NoVram,     \* the answer None
  Ttl,        \* VRAM_CACHE_TTL
  SmiTimeout, \* NVIDIA_SMI_TIMEOUT
  Deadline,   \* RESIDENCY_PROBE_DEADLINE
  Backoff,    \* VRAM_TIMEOUT_BACKOFF
  MaxCancels, \* bound on the probes cancelled during one call
  Flaky       \* callers that may hang up

VramReading == [vram : {"null", "reading"}, age : 0 .. Backoff, fresh_for : {Ttl, Backoff}]

ASSUME VramCacheAssumption ==
  /\ Nobody \notin Caller /\ NoVram \notin Nat /\ NoReading \notin VramReading
  /\ Ttl \in Nat /\ SmiTimeout \in Nat /\ Deadline \in Nat /\ Backoff \in Nat
  /\ MaxCancels \in Nat
  /\ 0 < Ttl /\ Ttl < Backoff /\ SmiTimeout < Deadline
  /\ Flaky \subseteq Caller

VARIABLES
  last,      \* VramReading: what it holds, its age and how long it is fresh
  in_flight, \* the AtomicBool
  holder,    \* who holds the mutex while probing
  task,      \* the holder's probe thread
  task_age,  \* time since it was started
  detached,  \* running probe threads that nobody waits for any more
  pc,        \* each caller
  wait,      \* how long each call has taken so far
  cancelled, \* probes that hang-ups cancelled during each call (history)
  served     \* the age of the reading given to the last caller answered

vars == <<last, in_flight, holder, task, task_age, detached, pc, wait, cancelled, served>>

\* Waits are told apart up to one more than WaitIsBounded allows.
MaxWait == Deadline * (1 + MaxCancels) + 1

TypeOK ==
  /\ last \in VramReading \cup {NoReading}
  /\ in_flight \in BOOLEAN
  /\ holder \in Caller \cup {Nobody}
  /\ task \in {"none", "running", "null", "panicked", "reading"}
  /\ task_age \in 0 .. Deadline
  /\ detached \in Nat
  /\ pc \in [Caller -> {"idle", "queued", "probing"}]
  /\ wait \in [Caller -> 0 .. MaxWait]
  /\ cancelled \in [Caller -> 0 .. MaxCancels]
  /\ served \in (0 .. Backoff) \cup {NoVram}

Init ==
  /\ last = NoReading
  /\ in_flight = FALSE
  /\ holder = Nobody
  /\ task = "none"
  /\ task_age = 0
  /\ detached = 0
  /\ pc = [c \in Caller |-> "idle"]
  /\ wait = [c \in Caller |-> 0]
  /\ cancelled = [c \in Caller |-> 0]
  /\ served = NoVram

-----------------------------------------------------------------------------
\* get() is called and queues for the mutex.
Call(c) ==
  /\ pc[c] = "idle"
  /\ pc' = [pc EXCEPT ![c] = "queued"]
  /\ UNCHANGED <<last, in_flight, holder, task, task_age, detached>>
  /\ UNCHANGED <<wait, cancelled, served>>

Fresh == last # NoReading /\ last.age < last.fresh_for

\* Faulty variant: any last reading is served while a probe is out.
ServeLastForever ==
  IF last # NoReading /\ last.vram = "reading" THEN last.age ELSE NoVram

\* What a caller gets while a probe is out: the last reading, if it is recent
\* enough to still describe the GPU.
ServeLast ==
  IF last # NoReading /\ last.vram = "reading" /\ last.age < Backoff
  THEN last.age ELSE NoVram

Answer(c, value) ==
  /\ pc' = [pc EXCEPT ![c] = "idle"]
  /\ wait' = [wait EXCEPT ![c] = 0]
  /\ cancelled' = [cancelled EXCEPT ![c] = 0]
  /\ served' = value

\* The mutex is granted, and a fresh reading or a probe that is still out
\* answers the call at once.
GetCached(c) ==
  /\ pc[c] = "queued" /\ holder = Nobody
  /\ \/ Fresh /\ Answer(c, IF last.vram = "reading" THEN last.age ELSE NoVram)
     \/ ~Fresh /\ in_flight /\ Answer(c, ServeLast)
  /\ UNCHANGED <<last, in_flight, holder, task, task_age, detached>>

\* Faulty variant: in_flight is not consulted.
StartProbeAlways(c) ==
  /\ pc[c] = "queued" /\ holder = Nobody
  /\ ~Fresh
  /\ in_flight' = TRUE
  /\ holder' = c
  /\ task' = "running"
  /\ task_age' = 0
  /\ pc' = [pc EXCEPT ![c] = "probing"]
  /\ UNCHANGED <<last, detached, wait, cancelled, served>>

\* The mutex is granted and a probe is needed: set in_flight and start one.
StartProbe(c) ==
  /\ pc[c] = "queued" /\ holder = Nobody
  /\ ~Fresh /\ ~in_flight
  /\ in_flight' = TRUE
  /\ holder' = c
  /\ task' = "running"
  /\ task_age' = 0
  /\ pc' = [pc EXCEPT ![c] = "probing"]
  /\ UNCHANGED <<last, detached, wait, cancelled, served>>

\* The probe closure ends, with a reading, without one or by a panic, and
\* drops its InFlight guard.
ProbeReturns ==
  /\ \/ /\ task = "running"
        /\ task' \in {"null", "panicked", "reading"}
        /\ UNCHANGED detached
     \/ /\ detached > 0
        /\ detached' = detached - 1
        /\ UNCHANGED task
  /\ in_flight' = FALSE
  /\ UNCHANGED <<last, holder, task_age, pc, wait, cancelled, served>>

\* Faulty variant: every result stays fresh for a TTL longer.
StoreLonger(value, fresh_for) ==
  last' = [vram |-> value, age |-> 0, fresh_for |-> fresh_for + Ttl]

Store(value, fresh_for) == last' = [vram |-> value, age |-> 0, fresh_for |-> fresh_for]

\* The holder's get() sees the probe's result, records it and answers.
ProbeDone(c) ==
  /\ holder = c /\ task \in {"null", "panicked", "reading"}
  /\ \/ task = "null" /\ task_age >= SmiTimeout /\ Store("null", Backoff)
     \/ ~(task = "null" /\ task_age >= SmiTimeout)
        /\ Store(IF task = "reading" THEN "reading" ELSE "null", Ttl)
  /\ Answer(c, IF task = "reading" THEN 0 ELSE NoVram)
  /\ holder' = Nobody
  /\ task' = "none"
  /\ task_age' = 0
  /\ UNCHANGED <<in_flight, detached>>

\* Faulty variant: in_flight is cleared by the caller that gives up.
DeadlineClearsFlag(c) ==
  /\ holder = c /\ task = "running" /\ task_age = Deadline
  /\ Store("null", Backoff)
  /\ Answer(c, NoVram)
  /\ holder' = Nobody
  /\ task' = "none"
  /\ task_age' = 0
  /\ detached' = detached + 1
  /\ in_flight' = FALSE

\* Faulty variant: the holder waits for its probe as long as it takes.
DeadlineNever(c) ==
  /\ FALSE
  /\ UNCHANGED <<vars, c>>

\* Faulty variant: the timeout is not recorded.
DeadlineUnrecorded(c) ==
  /\ holder = c /\ task = "running" /\ task_age = Deadline
  /\ Answer(c, NoVram)
  /\ holder' = Nobody
  /\ task' = "none"
  /\ task_age' = 0
  /\ detached' = detached + 1
  /\ UNCHANGED <<last, in_flight>>

\* The deadline passes first: record that, and leave the thread behind.
DeadlinePasses(c) ==
  /\ holder = c /\ task = "running" /\ task_age = Deadline
  /\ Store("null", Backoff)
  /\ Answer(c, NoVram)
  /\ holder' = Nobody
  /\ task' = "none"
  /\ task_age' = 0
  /\ detached' = detached + 1
  /\ UNCHANGED in_flight

\* A caller hangs up.  If it was probing, the mutex is freed, the thread left
\* behind and its result recorded nowhere.
HangUp(c) ==
  /\ c \in Flaky
  /\ pc[c] # "idle"
  /\ pc' = [pc EXCEPT ![c] = "idle"]
  /\ IF holder = c
     THEN /\ holder' = Nobody
          /\ detached' = IF task = "running" THEN detached + 1 ELSE detached
          /\ task' = "none"
          /\ task_age' = 0
          /\ \A d \in Caller \ {c} : pc[d] = "queued" => cancelled[d] < MaxCancels
          /\ cancelled' = [d \in Caller |->
               IF d # c /\ pc[d] = "queued" THEN cancelled[d] + 1 ELSE 0]
     ELSE /\ cancelled' = [cancelled EXCEPT ![c] = 0]
          /\ UNCHANGED <<holder, task, task_age, detached>>
  /\ wait' = [wait EXCEPT ![c] = 0]
  /\ UNCHANGED <<last, in_flight, served>>

\* Some task of the broker is runnable.
Runnable ==
  \/ holder = Nobody /\ \E c \in Caller : pc[c] = "queued"
  \/ task \in {"null", "panicked", "reading"}
  \/ task = "running" /\ task_age = Deadline

Older(age, bound) == IF age < bound THEN age + 1 ELSE age

\* Time passes, for the reading, the probe, the waits.
Tick ==
  /\ ~Runnable
  /\ last' = IF last = NoReading THEN last
             ELSE [last EXCEPT !.age = Older(@, Backoff)]
  /\ task_age' = IF task = "running" THEN Older(task_age, Deadline) ELSE task_age
  /\ wait' = [c \in Caller |-> IF pc[c] # "idle" THEN Older(wait[c], MaxWait) ELSE wait[c]]
  /\ UNCHANGED <<in_flight, holder, task, detached, pc, cancelled, served>>

Next ==
  \/ \E c \in Caller :
       \/ Call(c)
       \/ GetCached(c)
       \/ StartProbe(c)
       \/ ProbeDone(c)
       \/ DeadlinePasses(c)
       \/ HangUp(c)
  \/ ProbeReturns
  \/ Tick

Spec == Init /\ [][Next]_vars

\* Time passes and runnable tasks run, the mutex serving its queue in order;
\* a probe need never return.
FairSpec ==
  /\ Spec
  /\ WF_vars(Tick)
  /\ \A c \in Caller : /\ SF_vars(GetCached(c) \/ StartProbe(c))
                       /\ WF_vars(ProbeDone(c)) /\ WF_vars(DeadlinePasses(c))

-----------------------------------------------------------------------------
\* At most one blocking thread is ever pinned by the probe, however many
\* callers time out, hang up or come back while it hangs.
OneProbeThread == detached + (IF task = "running" THEN 1 ELSE 0) <= 1

\* No caller is given a reading that is too old to describe the GPU.
ServedIsRecent == served # NoVram => served < Backoff

\* A call takes no longer than one probe deadline, its wait for the probes of
\* calls before it included, plus one for each probe whose caller hung up
\* during it: a probe that answers or times out spares everyone queued.
WaitIsBounded ==
  \A c \in Caller : pc[c] # "idle" => wait[c] <= Deadline * (1 + cancelled[c])

\* The comments on RESIDENCY_PROBE_DEADLINE and VramCache (server.rs:40-41,
\* 58-59): no request waits on the probe longer than one deadline.
WaitsOneDeadline == \A c \in Caller : pc[c] # "idle" => wait[c] <= Deadline

\* Under FairSpec: every call is answered, or its client hangs up, even if
\* no probe ever returns.
CallIsAnswered == \A c \in Caller : pc[c] # "idle" ~> pc[c] = "idle"
=============================================================================
