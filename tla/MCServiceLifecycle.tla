------------------------- MODULE MCServiceLifecycle -------------------------
(* A model value for the runs of the lifecycle. *)
EXTENDS ServiceLifecycleProperties

CONSTANT i1
=============================================================================
