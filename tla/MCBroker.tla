------------------------------ MODULE MCBroker ------------------------------
(* Instance of Broker for TLC. *)
EXTENDS Broker, TLC
CONSTANTS p1, m1

\* A prefix shared by a model, by requests that name none, one of which asks
\* for a slot that does not exist, and by requests that name the model "".
MCHints ==
  { NoHint,
    [prefix |-> p1, model |-> m1, preferred |-> NoSlot],
    [prefix |-> p1, model |-> NoModel, preferred |-> NumSlots],
    [prefix |-> p1, model |-> EmptyModel, preferred |-> NoSlot] }

MCSymmetry == Permutations(Req)
=============================================================================
