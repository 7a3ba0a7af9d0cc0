----------------------------- MODULE MCVramCache -----------------------------
(* Instance of VramCache for TLC. *)
EXTENDS VramCache
=============================================================================
