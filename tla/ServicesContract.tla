-------------------------- MODULE ServicesContract --------------------------
(***************************************************************************)
(* What a lifecycle service may rely on, whatever the controllers see of   *)
(* the API server: an instance id is provisioned, then destroyed, a        *)
(* binding id is bound, then released, and neither is ever taken up again. *)
(* Repeated requests for an id are stutters: every call is at-least-once.  *)
(***************************************************************************)
CONSTANTS ServiceInstances, ServiceBindings

VARIABLES provisioned, bound

ContractInit ==
    /\ provisioned = [i \in ServiceInstances |-> "unknown"]
    /\ bound = [b \in ServiceBindings |-> "unknown"]

Provision(i) ==
    /\ provisioned[i] = "unknown"
    /\ provisioned' = [provisioned EXCEPT ![i] = "provisioned"]
    /\ UNCHANGED bound

Destroy(i) ==
    /\ provisioned[i] = "provisioned"
    /\ provisioned' = [provisioned EXCEPT ![i] = "destroyed"]
    /\ UNCHANGED bound

Bind(b) ==
    /\ bound[b] = "unknown"
    /\ bound' = [bound EXCEPT ![b] = "bound"]
    /\ UNCHANGED provisioned

Release(b) ==
    /\ bound[b] = "bound"
    /\ bound' = [bound EXCEPT ![b] = "released"]
    /\ UNCHANGED provisioned

ContractNext ==
    \/ \E i \in ServiceInstances : Provision(i) \/ Destroy(i)
    \/ \E b \in ServiceBindings : Bind(b) \/ Release(b)

ContractSpec == ContractInit /\ [][ContractNext]_<<provisioned, bound>>
=============================================================================
