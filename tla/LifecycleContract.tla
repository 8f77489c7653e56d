------------------------- MODULE LifecycleContract --------------------------
(***************************************************************************)
(* What service instances may rely on, of a lifecycle: once it was reported *)
(* on, ready or not, it does not go while an instance is known to refer to  *)
(* it.  Before that it may go as it came.                                  *)
(***************************************************************************)
VARIABLES
    availability,  \* what readers make of it
    promised,      \* it goes only when no instance is known to refer to it
    dependents     \* the instances known to

ContractStates == {"absent", "reconciling", "notReady", "ready"}

Reported(a) == a \in {"notReady", "ready"}

ContractInit ==
    /\ availability \in {"absent", "reconciling"}
    /\ promised = FALSE

Change(a) ==
    /\ a # "absent"
    /\ availability' = a
    /\ promised' \in BOOLEAN
    /\ promised \/ Reported(a) => promised'

Withdraw ==
    /\ promised => dependents = {}
    /\ availability' = "absent"
    /\ promised' = FALSE

ContractNext == Withdraw \/ \E a \in ContractStates : Change(a)

\* Instances come and go as they like.
ContractSpec == ContractInit /\ [][ContractNext]_<<availability, promised>>
=============================================================================
