--------------------- MODULE ServiceInstanceController ---------------------
(***************************************************************************)
(* The ServiceInstance reconciler: WithFinalizer around                    *)
(* ResolveServiceLifecycle and ManageServiceInstance.  One action per step *)
(* that reads a cache, calls the lifecycle service or writes to the API    *)
(* server; anything else may happen between two steps.                     *)
(***************************************************************************)
EXTENDS ServicesStore

instanceUnchanged == <<lifecycle, binding, secret, client, elapsed, caches,
                       bound, bindingWorker, faults>>

\* Where a request goes: on to step pc, to its status write, or to its end.
InstanceGoto(r, pc) == [r EXCEPT !.pc = pc]
InstanceWrites(r, want) ==
    IF want = r.read THEN Idle ELSE [r EXCEPT !.pc = "status", !.want = want]

\* A status write, or the removal of the finalizer, fails on a conflict.
InstanceUnmodified == instance[instanceWorker.uid] = instanceWorker.read

-----------------------------------------------------------------------------
(* The sub-reconcilers, as the step a request r reaches through them       *)

\* Wrong: a reconciled instance is taken for a provisioned one.
ProvisionedOnceObserved(r) ==
    IF r.read.observed
    THEN InstanceWrites(r, [r.read EXCEPT !.ready = TRUE, !.observed = TRUE])
    ELSE InstanceGoto(r, "provision")

\* status.serviceInstanceId tells whether there is anything to provision.
ManageServiceInstance(r) ==
    IF r.read.id
    THEN InstanceWrites(r, [r.read EXCEPT !.ready = TRUE, !.observed = TRUE])
    ELSE InstanceGoto(r, "provision")

\* The lifecycle was found ready and the instance is provisioned, so it stays
\* Ready while its Finalizer condition blocks the deletion.
InstanceBlocked(r) ==
    InstanceWrites(r, [r.read EXCEPT !.blocked = TRUE, !.ready = TRUE, !.observed = TRUE])

\* Wrong: only the bindings the cache shows as bound block the deletion.
DependentBoundBindings(i) ==
    {b \in ServiceBindings :
        Exists(cachedBinding[b]) /\ cachedBinding[b].id /\ InstanceRef[b] = i}

\* The bindings of instance i, as the cached list shows them.
DependentBindings(i) ==
    {b \in ServiceBindings : Exists(cachedBinding[b]) /\ InstanceRef[b] = i}

\* Wrong: an instance that was blocked once is never checked again.
FinalizeUnlessBlocked(r) ==
    CASE ~r.read.id                                     -> InstanceGoto(r, "clear")
      [] r.read.id /\ (r.read.blocked \/ DependentBindings(r.uid) # {}) ->
            InstanceBlocked(r)
      [] r.read.id /\ ~r.read.blocked /\ DependentBindings(r.uid) = {} ->
            InstanceGoto(r, "destroy")

\* Nothing to do without an id; blocked while the cached list has a binding.
FinalizeServiceInstance(r) ==
    CASE ~r.read.id                                      -> InstanceGoto(r, "clear")
      [] r.read.id /\ DependentBindings(r.uid) # {}      -> InstanceBlocked(r)
      [] r.read.id /\ DependentBindings(r.uid) = {}      -> InstanceGoto(r, "destroy")

\* Also during finalization.  A reconciling lifecycle ends the request with
\* no status update; a missing or unready one is recorded in the status.
ResolveServiceLifecycle(r) ==
    CASE lifecycle = "ready" /\ Live(r.read)     -> ManageServiceInstance(r)
      [] lifecycle = "ready" /\ Deleting(r.read) -> FinalizeServiceInstance(r)
      [] lifecycle = "reconciling"               -> Idle
      [] lifecycle \in {"absent", "notReady"}    ->
            InstanceWrites(r, [r.read EXCEPT !.ready = FALSE, !.observed = TRUE])

-----------------------------------------------------------------------------
(* Actions *)

\* A request starts: read the object from the cache, add the finalizer if it
\* is missing, then run the sub-reconcilers up to a remote call or a write.
ReconcileInstance(i) ==
    LET cached == cachedInstance[i]
        read == IF Live(cached) THEN [cached EXCEPT !.finalizer = TRUE] ELSE cached
    IN /\ instanceWorker = Idle
       /\ Exists(cached)
       /\ read = cached \/ instance[i] = cached
       /\ instance' = [instance EXCEPT ![i] = IF read = cached THEN @ ELSE read]
       /\ instanceWorker' = ResolveServiceLifecycle(
             [pc |-> "status", uid |-> i, read |-> read, want |-> read])
       /\ UNCHANGED <<provisioned, instanceUnchanged>>

ProvisionAccepted ==
    /\ instanceWorker.pc = "provision"
    /\ provisioned' = [provisioned EXCEPT ![instanceWorker.uid] = "provisioned"]
    /\ instanceWorker' = InstanceWrites(instanceWorker,
           [instanceWorker.read EXCEPT !.id = TRUE, !.ready = TRUE, !.observed = TRUE])
    /\ UNCHANGED <<instance, instanceUnchanged>>

\* An error, whether or not the service acted on the request.
ProvisionFailed ==
    /\ instanceWorker.pc = "provision"
    /\ provisioned' \in {provisioned,
                         [provisioned EXCEPT ![instanceWorker.uid] = "provisioned"]}
    /\ instanceWorker' = Idle
    /\ UNCHANGED <<instance, instanceUnchanged>>

DestroyAccepted ==
    /\ instanceWorker.pc = "destroy"
    /\ provisioned' = [provisioned EXCEPT ![instanceWorker.uid] = "destroyed"]
    /\ instanceWorker' = InstanceGoto(instanceWorker, "clear")
    /\ UNCHANGED <<instance, instanceUnchanged>>

DestroyFailed ==
    /\ instanceWorker.pc = "destroy"
    /\ provisioned' \in {provisioned,
                         [provisioned EXCEPT ![instanceWorker.uid] = "destroyed"]}
    /\ instanceWorker' = InstanceBlocked(instanceWorker)
    /\ UNCHANGED <<instance, instanceUnchanged>>

UpdateInstanceStatus ==
    /\ instanceWorker.pc = "status"
    /\ instance' = IF InstanceUnmodified
                   THEN [instance EXCEPT ![instanceWorker.uid] = instanceWorker.want]
                   ELSE instance
    /\ instanceWorker' = Idle
    /\ UNCHANGED <<provisioned, instanceUnchanged>>

\* The Finalizer condition is clear: remove the finalizer.
ClearInstanceFinalizer ==
    /\ instanceWorker.pc = "clear"
    /\ instance' = IF InstanceUnmodified
                   THEN [instance EXCEPT ![instanceWorker.uid] = FinalizerCleared(@)]
                   ELSE instance
    /\ instanceWorker' = Idle
    /\ UNCHANGED <<provisioned, instanceUnchanged>>

InstanceNext ==
    \/ \E i \in ServiceInstances : ReconcileInstance(i)
    \/ ProvisionAccepted
    \/ ProvisionFailed
    \/ DestroyAccepted
    \/ DestroyFailed
    \/ UpdateInstanceStatus
    \/ ClearInstanceFinalizer
=============================================================================
