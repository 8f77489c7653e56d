--------------------------- MODULE ServicesStore ---------------------------
(***************************************************************************)
(* What the service controllers share: the ServiceInstance, ServiceBinding *)
(* and Secret objects in the API server, the informer caches the           *)
(* controllers read instead of the API server, the state the remote        *)
(* lifecycle service keeps, and the reconcile request each controller has  *)
(* in flight (controller-runtime runs one at a time per kind).             *)
(*                                                                         *)
(* An object is a record; `phase' says whether it exists.  The last value  *)
(* of a deleted object is kept under phase "gone".  The API server's       *)
(* resourceVersion check is modelled by comparing the object a worker read *)
(* with the object in the store.                                           *)
(***************************************************************************)
EXTENDS Naturals

CONSTANTS
    ServiceInstances,   \* UIDs of the ServiceInstance objects
    ServiceBindings,    \* UIDs of the ServiceBinding objects
    InstanceRef,        \* .spec.ref of each ServiceBinding; the spec is immutable
    ShortLived,         \* the bindings whose duration may elapse
    MaxFaults,          \* bound on process crashes and failed API writes
    LifecycleOutages,   \* ways the lifecycle may be unusable, once created
    ClientOutcomes      \* what the client Composition may reconcile to

ASSUME RefAssumption == InstanceRef \in [ServiceBindings -> ServiceInstances]
ASSUME DurationAssumption == ShortLived \subseteq ServiceBindings
ASSUME FaultAssumption == MaxFaults \in Nat
ASSUME OutageAssumption == LifecycleOutages \subseteq {"absent", "reconciling", "notReady"}
ASSUME ClientAssumption == ClientOutcomes \subseteq {"notReady", "ready"}

VARIABLES
    lifecycle,       \* the (Cluster)ServiceLifecycle as its readers see it
    instance,        \* ServiceInstance objects in the API server
    binding,         \* ServiceBinding objects in the API server
    secret,          \* the Secret "service-binding-<uid>" of each binding
    client,          \* the client Composition of each binding
    elapsed,         \* has the binding outlived its .spec.duration?
    cachedInstance,  \* the informer's view of instance
    cachedBinding,   \* the informer's view of binding
    provisioned,     \* the lifecycle service's record of each instance id
    bound,           \* the lifecycle service's record of each binding id
    instanceWorker,  \* the ServiceInstance reconcile request in flight
    bindingWorker,   \* the ServiceBinding reconcile request in flight
    faults           \* faults injected so far, at most MaxFaults

objects == <<lifecycle, instance, binding, secret, client>>
caches == <<cachedInstance, cachedBinding>>
remote == <<provisioned, bound>>
vars == <<objects, elapsed, caches, remote, instanceWorker, bindingWorker, faults>>

-----------------------------------------------------------------------------
(* Objects *)

Phases == {"absent", "live", "deleting", "gone"}

\* observed: .metadata.generation = .status.observedGeneration
\* id:       .status.serviceInstanceId is set (it is always the object's UID)
\* ready:    the Ready condition is True
\* blocked:  the Finalizer condition is present
InstanceObject == [phase: Phases, finalizer: BOOLEAN, observed: BOOLEAN,
                   id: BOOLEAN, ready: BOOLEAN, blocked: BOOLEAN]

\* id, expired, ready: .status.serviceBindingId is set, .status.expired, Ready
BindingObject == [phase: Phases, finalizer: BOOLEAN,
                  id: BOOLEAN, expired: BOOLEAN, ready: BOOLEAN]

\* data: credentials are published in the Secret
SecretObject == [phase: Phases, finalizer: BOOLEAN, data: BOOLEAN]

NoInstance == [phase |-> "absent", finalizer |-> FALSE, observed |-> FALSE,
               id |-> FALSE, ready |-> FALSE, blocked |-> FALSE]
NoBinding == [phase |-> "absent", finalizer |-> FALSE,
              id |-> FALSE, expired |-> FALSE, ready |-> FALSE]
NoSecret == [phase |-> "absent", finalizer |-> FALSE, data |-> FALSE]

Exists(o) == o.phase \in {"live", "deleting"}
Live(o) == o.phase = "live"
Deleting(o) == o.phase = "deleting"

\* A delete request: an object with a finalizer stays until it is cleared.
DeleteRequested(o) ==
    IF Live(o)
    THEN [o EXCEPT !.phase = IF o.finalizer THEN "deleting" ELSE "gone"]
    ELSE o

\* Clearing the last finalizer of an object marked for deletion removes it.
FinalizerCleared(o) ==
    [o EXCEPT !.finalizer = FALSE,
              !.phase = IF Deleting(o) THEN "gone" ELSE o.phase]

\* Absent -> reconciling -> ready: NotFound, generation mismatch, Ready or not
LifecycleStates == {"absent", "reconciling", "notReady", "ready"}

\* pending: the generation of the Composition is not observed yet
ClientStates == {"absent", "pending", "notReady", "ready"}

-----------------------------------------------------------------------------
(* Reconcile requests in flight *)

Idle == [pc |-> "idle"]

\* read is the object the request works on, want the status it will write.
InstanceRequest ==
    [pc: {"provision", "destroy", "status", "clear"},
     uid: ServiceInstances, read: InstanceObject, want: InstanceObject]

\* to is the instance id passed to the lifecycle service.
BindingRequest ==
    [pc: {"bind", "expire", "unbind", "client", "status", "clear"},
     uid: ServiceBindings, read: BindingObject, want: BindingObject,
     to: ServiceInstances \union ServiceBindings]

TypeOK ==
    /\ lifecycle \in LifecycleStates
    /\ instance \in [ServiceInstances -> InstanceObject]
    /\ binding \in [ServiceBindings -> BindingObject]
    /\ secret \in [ServiceBindings -> SecretObject]
    /\ client \in [ServiceBindings -> ClientStates]
    /\ elapsed \in [ServiceBindings -> BOOLEAN]
    /\ cachedInstance \in [ServiceInstances -> InstanceObject]
    /\ cachedBinding \in [ServiceBindings -> BindingObject]
    /\ provisioned \in [ServiceInstances -> {"unknown", "provisioned", "destroyed"}]
    /\ bound \in [ServiceBindings -> {"unknown", "bound", "released"}]
    /\ instanceWorker \in {Idle} \union InstanceRequest
    /\ bindingWorker \in {Idle} \union BindingRequest
    /\ faults \in 0..MaxFaults

StoreInit ==
    /\ lifecycle = "absent"
    /\ instance = [i \in ServiceInstances |-> NoInstance]
    /\ binding = [b \in ServiceBindings |-> NoBinding]
    /\ secret = [b \in ServiceBindings |-> NoSecret]
    /\ client = [b \in ServiceBindings |-> "absent"]
    /\ elapsed = [b \in ServiceBindings |-> FALSE]
    /\ cachedInstance = instance
    /\ cachedBinding = binding
    /\ provisioned = [i \in ServiceInstances |-> "unknown"]
    /\ bound = [b \in ServiceBindings |-> "unknown"]
    /\ instanceWorker = Idle
    /\ bindingWorker = Idle
    /\ faults = 0
=============================================================================
