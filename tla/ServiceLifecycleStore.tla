----------------------- MODULE ServiceLifecycleStore ------------------------
(***************************************************************************)
(* A ServiceLifecycle or ClusterServiceLifecycle with its two children, the *)
(* Composition of the lifecycle component and the HttpTrigger that serves   *)
(* it, the client component it refers to, the ServiceInstances that refer   *)
(* to it, and what the controller's caches and tracker know of these.       *)
(***************************************************************************)
EXTENDS Naturals

CONSTANTS
    ServiceInstances,
    MaxChanges,  \* bound on what users and the world outside do
    MaxFaults    \* bound on failed API calls and restarts

ASSUME LifecycleBounds == {MaxChanges, MaxFaults} \subseteq Nat
ASSUME ClientIsNoInstance == "client" \notin ServiceInstances

VARIABLES
    lifecycle,
    composition, httpTrigger,              \* the children
    client,                                \* the client component
    instance,                              \* phase of each instance
    cachedComposition, cachedHttpTrigger,  \* the informers' view
    cachedInstances,                       \* the instances that are listed
    tracked,      \* whose changes queue the lifecycle
    queued,       \* the lifecycle is in the work queue
    unannounced,  \* the last answer is outdated and nobody queues the lifecycle
    made,         \* number of Compositions made, to name the next
    changes, faults

children == <<composition, httpTrigger, made>>
surroundings == <<client, instance>>
caches == <<cachedComposition, cachedHttpTrigger, cachedInstances>>
requests == <<tracked, queued, unannounced>>
vars == <<lifecycle, children, surroundings, caches, requests, changes, faults>>

\* pending: its generation is not observed yet
Conditions == {"pending", "notReady", "ready"}

\* version: of the spec; observed: .status.observedGeneration is current;
\* blocked: the Finalizer condition
Absent(version) == [phase |-> "absent", version |-> version, finalizer |-> FALSE,
                    observed |-> FALSE, blocked |-> FALSE, composed |-> FALSE,
                    served |-> FALSE, configured |-> FALSE]

Created(version) == [Absent(version) EXCEPT !.phase = "live"]

NoComposition == [name |-> 0, version |-> 0, state |-> "pending"]

NoTrigger == [owner |-> "none", composition |-> 0, version |-> 0, state |-> "pending"]

\* Of a lifecycle of the other kind, or of a user.
OthersTrigger == [NoTrigger EXCEPT !.owner = "other"]

\* The living condition set.
Ready(l) == l.composed /\ l.served /\ l.configured

\* What ResolveServiceLifecycle of a ServiceInstance makes of it.
Availability ==
    CASE lifecycle.phase = "absent"                     -> "absent"
      [] lifecycle.phase # "absent" /\ ~lifecycle.observed -> "reconciling"
      [] lifecycle.phase # "absent" /\ lifecycle.observed  ->
            IF Ready(lifecycle) THEN "ready" ELSE "notReady"

\* Requests to the lifecycle's URL are answered.
Serving == httpTrigger.owner = "own" /\ httpTrigger.state = "ready"

Phases == {"absent", "live", "deleting"}

LifecycleObject == [phase: Phases, version: Nat, finalizer: BOOLEAN, observed: BOOLEAN,
                    blocked: BOOLEAN, composed: BOOLEAN, served: BOOLEAN, configured: BOOLEAN]
CompositionObject == [name: Nat, version: Nat, state: Conditions]
TriggerObject == [owner: {"none", "own", "other"}, composition: Nat, version: Nat,
                  state: Conditions]

TypeOK ==
    /\ lifecycle \in LifecycleObject
    /\ composition \in CompositionObject /\ cachedComposition \in CompositionObject
    /\ httpTrigger \in TriggerObject /\ cachedHttpTrigger \in TriggerObject
    /\ client \in Conditions \union {"missing"}
    /\ instance \in [ServiceInstances -> Phases]
    /\ cachedInstances \subseteq ServiceInstances
    /\ tracked \subseteq ServiceInstances \union {"client"}
    /\ queued \in BOOLEAN /\ unannounced \in BOOLEAN
    /\ made \in Nat
    /\ changes \in 0..MaxChanges
    /\ faults \in 0..MaxFaults

StoreInit ==
    /\ lifecycle = Created(1)
    /\ composition = NoComposition /\ cachedComposition = NoComposition
    /\ httpTrigger \in {NoTrigger, OthersTrigger}
    /\ cachedHttpTrigger = httpTrigger
    /\ client \in Conditions \union {"missing"}
    /\ instance \in [ServiceInstances -> {"absent", "live"}]
    /\ cachedInstances = {i \in ServiceInstances : instance[i] = "live"}
    /\ tracked = {}
    /\ queued = TRUE
    /\ unannounced = FALSE
    /\ made = 0
    /\ changes = 0
    /\ faults = 0
=============================================================================
