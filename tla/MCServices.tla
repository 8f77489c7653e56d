----------------------------- MODULE MCServices -----------------------------
(* Model values for the runs of services: one instance and its binding. *)
EXTENDS ServicesInvariant

CONSTANTS i1, b1

OneInstance == [b \in ServiceBindings |-> i1]
=============================================================================
