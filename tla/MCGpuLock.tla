------------------------------ MODULE MCGpuLock ------------------------------
(* Instance of GpuLock for TLC. *)
EXTENDS GpuLock
=============================================================================
