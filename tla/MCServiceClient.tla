-------------------------- MODULE MCServiceClient --------------------------
(* Model values for the ServiceClient runs. *)
EXTENDS ServiceClientProperties

CONSTANTS t1, t2
=============================================================================
