----------------------------- MODULE MCScheduler -----------------------------
(* Instance of Scheduler for TLC. *)
EXTENDS Scheduler
CONSTANTS p1, m1, m2

MCHints ==
  { NoHint,
    [prefix |-> p1, model |-> m1, preferred |-> NoSlot],
    [prefix |-> p1, model |-> m1, preferred |-> 0],
    [prefix |-> p1, model |-> m2, preferred |-> NumSlots] }
=============================================================================
