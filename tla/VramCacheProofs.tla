--------------------------- MODULE VramCacheProofs ---------------------------
(***************************************************************************)
(* Proofs about the VRAM cache, for every set of callers and all durations *)
(* in the relation the code's constants have.                              *)
(***************************************************************************)
EXTENDS VramCache, TLAPS

-----------------------------------------------------------------------------
\* The inductive invariant.

\* The mutex is held exactly by the caller that probes, for as long as its
\* call waits for the probe.
HolderProbes ==
  /\ \A c \in Caller : pc[c] = "probing" <=> holder = c
  /\ task = "none" <=> holder = Nobody

\* in_flight is set exactly while a probe thread runs, waited for or not, and
\* there is no second one.
FlagMatchesThread ==
  /\ detached \in {0, 1}
  /\ detached = 1 => task # "running"
  /\ in_flight <=> detached = 1 \/ task = "running"

\* What each call has waited: one deadline for each probe cancelled during it,
\* and the age of the probe it waits for now.  After a probe whose outcome
\* was recorded it may be a whole deadline, but then the record is fresh and
\* answers the call before time passes.
WaitsAdd ==
  \A c \in Caller :
    /\ pc[c] = "idle" => wait[c] = 0 /\ cancelled[c] = 0
    /\ pc[c] # "idle" =>
         IF holder # Nobody THEN wait[c] <= Deadline * cancelled[c] + task_age
         ELSE IF Fresh THEN wait[c] <= Deadline * cancelled[c] + Deadline
         ELSE wait[c] <= Deadline * cancelled[c]

IInv ==
  /\ TypeOK
  /\ HolderProbes
  /\ FlagMatchesThread
  /\ WaitsAdd
  /\ ServedIsRecent

-----------------------------------------------------------------------------
\* The bound on waits is a number.
LEMMA MaxWaitType == MaxWait \in Nat
<1> QED
  BY VramCacheAssumption DEF MaxWait

\* A call, and one answered without a probe, keep the invariant.
LEMMA CallKeeps ==
  ASSUME IInv, NEW c \in Caller, Call(c) \/ GetCached(c)
  PROVE  IInv'
<1> USE VramCacheAssumption, MaxWaitType
<1>1. TypeOK'
  BY DEF IInv, TypeOK, Call, GetCached, Answer, ServeLast, VramReading, Fresh
<1>2. HolderProbes' /\ FlagMatchesThread'
  BY DEF IInv, TypeOK, Call, GetCached, Answer, HolderProbes, FlagMatchesThread
<1>3. WaitsAdd'
  BY DEF IInv, TypeOK, Call, GetCached, Answer, HolderProbes, WaitsAdd, Fresh
<1>4. ServedIsRecent'
  BY DEF IInv, TypeOK, Call, GetCached, Answer, ServeLast, VramReading, Fresh,
         ServedIsRecent
<1> QED
  BY <1>1, <1>2, <1>3, <1>4 DEF IInv

\* Starting a probe keeps the invariant: no thread runs when in_flight is
\* off, and no call waits longer than the probes cancelled during it.
LEMMA StartKeeps ==
  ASSUME IInv, NEW c \in Caller, StartProbe(c)
  PROVE  IInv'
<1> USE VramCacheAssumption, MaxWaitType
<1>1. TypeOK'
  BY DEF IInv, TypeOK, StartProbe
<1>2. HolderProbes' /\ FlagMatchesThread'
  BY DEF IInv, TypeOK, StartProbe, HolderProbes, FlagMatchesThread
<1>3. WaitsAdd'
  BY DEF IInv, TypeOK, StartProbe, WaitsAdd, Fresh
<1>4. ServedIsRecent'
  BY DEF IInv, StartProbe, ServedIsRecent
<1> QED
  BY <1>1, <1>2, <1>3, <1>4 DEF IInv

\* The end of a probe thread keeps the invariant: it was the only one, so the
\* flag it clears is its own.
LEMMA ReturnKeeps ==
  ASSUME IInv, ProbeReturns
  PROVE  IInv'
<1>1. detached' \in {0, 1}
  BY DEF IInv, FlagMatchesThread, ProbeReturns
<1>2. TypeOK'
  <2>1. in_flight' \in BOOLEAN
    BY DEF ProbeReturns
  <2>2. detached' \in Nat /\ task' \in {"none", "running", "null", "panicked", "reading"}
    BY <1>1 DEF IInv, TypeOK, ProbeReturns
  <2> QED
    BY <2>1, <2>2 DEF IInv, TypeOK, ProbeReturns
<1>3. HolderProbes' /\ FlagMatchesThread'
  BY <1>1 DEF IInv, TypeOK, ProbeReturns, HolderProbes, FlagMatchesThread
<1>4. WaitsAdd' /\ ServedIsRecent'
  BY DEF IInv, ProbeReturns, WaitsAdd, Fresh, ServedIsRecent
<1> QED
  BY <1>2, <1>3, <1>4 DEF IInv

\* A recorded outcome is fresh at first, and a fresh record allows every
\* queued call the deadline that the probe may have taken.
LEMMA StoreKeepsWaits ==
  ASSUME IInv, NEW c \in Caller, NEW value \in {"null", "reading"},
         NEW fresh_for \in {Ttl, Backoff}, NEW answer,
         holder = c, Store(value, fresh_for), Answer(c, answer), holder' = Nobody
  PROVE  WaitsAdd'
<1> USE VramCacheAssumption
<1>1. last' \in VramReading /\ last'.age = 0 /\ last'.fresh_for > 0
  BY DEF Store, VramReading
<1>2. Fresh'
  BY <1>1 DEF Fresh
<1>3. holder # Nobody /\ task_age \in 0 .. Deadline
  BY DEF IInv, TypeOK
<1>4. ASSUME NEW d \in Caller
      PROVE  /\ pc'[d] = "idle" => wait'[d] = 0 /\ cancelled'[d] = 0
             /\ pc'[d] # "idle" => wait'[d] <= Deadline * cancelled'[d] + Deadline
  <2>1. wait[d] \in Nat /\ Deadline * cancelled[d] \in Nat
    BY MaxWaitType DEF IInv, TypeOK
  <2>2. CASE d = c
    BY <2>2 DEF IInv, TypeOK, Answer
  <2>3. CASE d # c
    <3>1. UNCHANGED <<pc[d], wait[d], cancelled[d]>>
      BY <2>3 DEF Answer, IInv, TypeOK
    <3>2. /\ pc[d] = "idle" => wait[d] = 0 /\ cancelled[d] = 0
          /\ pc[d] # "idle" => wait[d] <= Deadline * cancelled[d] + task_age
      BY <1>3 DEF IInv, WaitsAdd
    <3> QED
      BY <1>3, <2>1, <3>1, <3>2
  <2> QED
    BY <2>2, <2>3
<1> QED
  BY <1>2, <1>4 DEF WaitsAdd

\* The answer of a probe, in time or at the deadline, keeps the invariant.
LEMMA OutcomeKeeps ==
  ASSUME IInv, NEW c \in Caller, ProbeDone(c) \/ DeadlinePasses(c)
  PROVE  IInv'
<1> USE VramCacheAssumption, MaxWaitType
<1>1. TypeOK'
  BY DEF IInv, TypeOK, ProbeDone, DeadlinePasses, Answer, Store, VramReading
<1>2. HolderProbes' /\ FlagMatchesThread'
  BY DEF IInv, TypeOK, ProbeDone, DeadlinePasses, Answer, HolderProbes, FlagMatchesThread
<1>3. WaitsAdd'
  BY StoreKeepsWaits DEF ProbeDone, DeadlinePasses
<1>4. ServedIsRecent'
  BY DEF IInv, TypeOK, ProbeDone, DeadlinePasses, Answer, ServedIsRecent
<1> QED
  BY <1>1, <1>2, <1>3, <1>4 DEF IInv

\* A hang-up keeps the invariant: it leaves a running thread behind with the
\* flag set, and counts as a cancelled probe for everybody queued.
LEMMA HangUpKeeps ==
  ASSUME IInv, NEW c \in Caller, HangUp(c)
  PROVE  IInv'
<1> USE VramCacheAssumption, MaxWaitType
<1>1. TypeOK'
  BY DEF IInv, TypeOK, HangUp
<1>2. HolderProbes' /\ FlagMatchesThread'
  BY DEF IInv, TypeOK, HangUp, HolderProbes, FlagMatchesThread
<1>3. WaitsAdd'
  <2>1. CASE holder = c
    BY <2>1 DEF IInv, TypeOK, HangUp, HolderProbes, WaitsAdd
  <2>2. CASE holder # c
    BY <2>2 DEF IInv, TypeOK, HangUp, WaitsAdd, Fresh
  <2> QED
    BY <2>1, <2>2
<1>4. ServedIsRecent'
  BY DEF IInv, HangUp, ServedIsRecent
<1> QED
  BY <1>1, <1>2, <1>3, <1>4 DEF IInv

\* Time keeps the invariant: it passes for a waiting call only together with
\* the probe it waits for.
LEMMA TickKeeps ==
  ASSUME IInv, Tick
  PROVE  IInv'
<1> USE VramCacheAssumption, MaxWaitType
<1>1. TypeOK'
  BY DEF IInv, TypeOK, Tick, Older, VramReading
<1>2. HolderProbes' /\ FlagMatchesThread'
  BY DEF IInv, Tick, HolderProbes, FlagMatchesThread
<1>3. WaitsAdd'
  BY DEF IInv, TypeOK, Tick, Runnable, Older, HolderProbes, WaitsAdd
<1>4. ServedIsRecent'
  BY DEF IInv, Tick, ServedIsRecent
<1> QED
  BY <1>1, <1>2, <1>3, <1>4 DEF IInv

\* Initial states satisfy the invariant.
LEMMA InvInit == Init => IInv
<1> SUFFICES ASSUME Init PROVE IInv
  OBVIOUS
<1>1. TypeOK
  <2>1. in_flight \in BOOLEAN
    BY DEF Init
  <2>2. 0 \in 0 .. Deadline /\ 0 \in 0 .. MaxWait /\ 0 \in 0 .. MaxCancels
    BY VramCacheAssumption, MaxWaitType
  <2> QED
    BY <2>1, <2>2 DEF Init, TypeOK
<1>2. HolderProbes /\ FlagMatchesThread /\ WaitsAdd /\ ServedIsRecent
  BY VramCacheAssumption DEF Init, HolderProbes, FlagMatchesThread, WaitsAdd, ServedIsRecent
<1> QED
  BY <1>1, <1>2 DEF IInv

\* Every step keeps the invariant.
LEMMA InvStep == IInv /\ [Next]_vars => IInv'
<1> SUFFICES ASSUME IInv, [Next]_vars PROVE IInv'
  OBVIOUS
<1>1. CASE UNCHANGED vars
  BY <1>1 DEF vars, IInv, TypeOK, HolderProbes, FlagMatchesThread, WaitsAdd, Fresh,
              ServedIsRecent
<1> QED
  BY <1>1, CallKeeps, StartKeeps, OutcomeKeeps, HangUpKeeps, ReturnKeeps, TickKeeps
     DEF Next

-----------------------------------------------------------------------------
\* The cache's state stays within its types.
THEOREM VramCacheTypeCorrect == Spec => []TypeOK
<1>1. IInv => TypeOK
  BY DEF IInv
<1> QED
  BY <1>1, InvInit, InvStep, PTL DEF Spec

\* However many callers time out, hang up or come back, the probe never pins
\* a second blocking thread.
THEOREM ProbesAreSingleFlight == Spec => []OneProbeThread
<1>1. IInv => OneProbeThread
  BY DEF IInv, FlagMatchesThread, OneProbeThread
<1> QED
  BY <1>1, InvInit, InvStep, PTL DEF Spec

\* No caller is given a reading as old as the backoff.
THEOREM ServedReadingsAreRecent == Spec => []ServedIsRecent
<1>1. IInv => ServedIsRecent
  BY DEF IInv
<1> QED
  BY <1>1, InvInit, InvStep, PTL DEF Spec

\* A call takes at most one deadline more than the probes cancelled during
\* it, for any number of callers queued on the mutex.
THEOREM WaitsAreBounded == Spec => []WaitIsBounded
<1>1. IInv => WaitIsBounded
  <2> SUFFICES ASSUME IInv, NEW c \in Caller, pc[c] # "idle"
               PROVE  wait[c] <= Deadline * (1 + cancelled[c])
    BY DEF WaitIsBounded
  <2>1. /\ wait[c] \in Nat /\ cancelled[c] \in Nat
        /\ Deadline \in Nat /\ task_age \in 0 .. Deadline
    BY VramCacheAssumption, MaxWaitType DEF IInv, TypeOK
  <2>2. wait[c] <= Deadline * cancelled[c] + Deadline
    BY <2>1 DEF IInv, WaitsAdd
  <2> QED
    BY <2>1, <2>2
<1> QED
  BY <1>1, InvInit, InvStep, PTL DEF Spec
=============================================================================
