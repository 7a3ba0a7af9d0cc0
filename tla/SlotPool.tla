------------------------------- MODULE SlotPool -------------------------------
(***************************************************************************)
(* What an admission queue of the broker promises its clients, without     *)
(* queues, signals and retries.  Parties ask for one of the slots they     *)
(* want, wait while all of those are taken, hold one exclusively, and give *)
(* it back; a slot may also be taken by work nobody here asked for.        *)
(*                                                                         *)
(* Scheduler implements it with llama-server's slots, GpuLock with a single *)
(* slot, the GPU.                                                          *)
(***************************************************************************)
CONSTANTS
  Slot,   \* what is handed out
  Party,  \* who asks
  NoSlot  \* nothing held

VARIABLES
  phase,  \* where each party is
  want,   \* the slots each party takes; empty before it asks
  held,   \* the slot each party holds
  foreign \* slots taken by work that no party asked for

vars == <<phase, want, held, foreign>>

Phases == {"idle", "queued", "holding", "done", "gone"}

Free(s) == s \notin foreign /\ \A p \in Party : held[p] # s

Init ==
  /\ phase = [p \in Party |-> "idle"]
  /\ want = [p \in Party |-> {}]
  /\ held = [p \in Party |-> NoSlot]
  /\ foreign \in SUBSET Slot

Take(p, s) ==
  /\ Free(s)
  /\ phase' = [phase EXCEPT ![p] = "holding"]
  /\ held' = [held EXCEPT ![p] = s]

\* p asks, and is served at once if a slot it wants is free: it queues only
\* when none is.
Ask(p, W) ==
  /\ phase[p] = "idle"
  /\ want' = [want EXCEPT ![p] = W]
  /\ \/ \E s \in W : Take(p, s)
     \/ /\ \A s \in W : ~Free(s)
        /\ phase' = [phase EXCEPT ![p] = "queued"]
        /\ UNCHANGED held
  /\ UNCHANGED foreign

\* A queued party gets a slot it wants.
Grant(p) ==
  /\ phase[p] = "queued"
  /\ \E s \in want[p] : Take(p, s)
  /\ UNCHANGED <<want, foreign>>

\* A queued party gives up, and takes nothing with it.
Leave(p) ==
  /\ phase[p] = "queued"
  /\ phase' = [phase EXCEPT ![p] = "gone"]
  /\ UNCHANGED <<want, held, foreign>>

\* A holder's slot becomes free; it is not passed on.
GiveBack(p) ==
  /\ phase[p] = "holding"
  /\ phase' = [phase EXCEPT ![p] = "done"]
  /\ held' = [held EXCEPT ![p] = NoSlot]
  /\ UNCHANGED <<want, foreign>>

\* The foreign work on s is over.
Reclaim(s) ==
  /\ s \in foreign
  /\ foreign' = foreign \ {s}
  /\ UNCHANGED <<phase, want, held>>

Next ==
  \/ \E p \in Party :
       \/ \E W \in SUBSET Slot : Ask(p, W)
       \/ Grant(p)
       \/ Leave(p)
       \/ GiveBack(p)
  \/ \E s \in Slot : Reclaim(s)

Spec == Init /\ [][Next]_vars
=============================================================================
