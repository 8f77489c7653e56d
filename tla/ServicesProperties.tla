------------------------- MODULE ServicesProperties -------------------------
(***************************************************************************)
(* What the services integration guarantees, and what its comments claim.  *)
(***************************************************************************)
EXTENDS Services

-----------------------------------------------------------------------------
(* Safety *)

\* An id in a status was accepted by the lifecycle service first: Provision
\* and Bind come before the status update, and a lost update never runs ahead
\* of them, in the API server, in a cache or in a request's own copy.
RecordedIdsAreAccepted ==
    /\ \A i \in ServiceInstances :
          instance[i].id \/ cachedInstance[i].id => provisioned[i] # "unknown"
    /\ \A b \in ServiceBindings :
          binding[b].id \/ cachedBinding[b].id => bound[b] # "unknown"

\* The finalizer holds a recorded object until the service let go of it: a
\* binding leaves the API server unbound and without its Secret, an instance
\* destroyed, even when the reconciler works on a cached copy that is behind.
FinalizersHold ==
    /\ \A b \in ServiceBindings :
          binding[b].phase = "gone" /\ binding[b].id =>
             bound[b] = "released" /\ ~Exists(secret[b])
    /\ \A i \in ServiceInstances :
          instance[i].phase = "gone" /\ instance[i].id => provisioned[i] = "destroyed"

\* A status that says expired says so of a binding the service has released.
ExpiredIsReleased ==
    \A b \in ServiceBindings : binding[b].expired => bound[b] = "released"

\* A recorded binding keeps its Secret, its credentials and the finalizer on
\* them until its duration has elapsed or it is deleted.
CredentialsLastForDuration ==
    \A b \in ServiceBindings :
        Live(binding[b]) /\ binding[b].id /\ ~elapsed[b] =>
            secret[b] = [phase |-> "live", finalizer |-> TRUE, data |-> TRUE]

\* "should never be Ready and not have a ServiceInstanceId": no reader of an
\* instance, however stale its cache, sees one Ready without an id.
ReadyInstanceHasId ==
    \A i \in ServiceInstances :
        /\ instance[i].ready => instance[i].id
        /\ cachedInstance[i].ready => cachedInstance[i].id

\* An instance is sent to Destroy only while no binding of it has an id in the
\* API server, although the check is made on the informer's list.
DestroySparesRecordedBindings ==
    [][instanceWorker' # instanceWorker /\ instanceWorker'.pc = "destroy" =>
          \A b \in ServiceBindings :
             InstanceRef[b] = instanceWorker'.uid /\ Exists(binding[b]) => ~binding[b].id]_vars

Contract == INSTANCE ServicesContract WITH provisioned <- provisioned, bound <- bound

\* The lifecycle service sees every id once through its life: nothing is
\* bound again after it was released, or provisioned after it was destroyed,
\* by a request that started from an old copy or was lost half way.
ImplementsContract == Contract!ContractSpec

-----------------------------------------------------------------------------
(* Liveness *)

ClientSettles(b) ==
    client[b] = "pending" /\ \E to \in ClientStates : ClientReconciles(b, to)

\* Work queues and periodic resync retry every object, informers catch up,
\* time passes, the service answers every request, and a request it is sent
\* again and again it finally accepts (while the instance is provisioned).
Fairness ==
    /\ \A i \in ServiceInstances :
          SF_vars(ReconcileInstance(i)) /\ WF_vars(SyncInstance(i))
    /\ \A b \in ServiceBindings :
          /\ SF_vars(ReconcileBinding(b)) /\ WF_vars(SyncBinding(b))
          /\ WF_vars(ClientSettles(b)) /\ WF_vars(DurationElapses(b))
    /\ SF_vars(ProvisionAccepted) /\ SF_vars(DestroyAccepted)
    /\ SF_vars(BindAccepted) /\ SF_vars(UnbindAccepted)
    /\ WF_vars(BindAccepted \/ BindFailed)
    /\ WF_vars(UpdateInstanceStatus) /\ WF_vars(ClearInstanceFinalizer)
    /\ WF_vars(ConfigureClientComponent)
    /\ WF_vars(UpdateBindingStatus) /\ WF_vars(ClearBindingFinalizer)
    /\ WF_vars(LifecycleChanges("ready"))

FairSpec == Spec /\ Fairness

\* A binding of an instance that stays is bound and says so in its status,
\* over lost answers, conflicts, stale caches and restarts.
BindingsAreRecorded ==
    \A b \in ServiceBindings :
        Live(binding[b]) ~> \/ binding[b].id
                            \/ ~Live(binding[b])
                            \/ ~Live(instance[InstanceRef[b]])

\* A binding that outlives its duration is expired.
ElapsedBindingsExpire ==
    \A b \in ServiceBindings :
        Live(binding[b]) /\ binding[b].id /\ elapsed[b] ~>
            \/ binding[b].expired
            \/ ~Live(binding[b])
            \/ instance[InstanceRef[b]].phase = "gone"

\* A recorded binding that is deleted goes away, also when its instance is
\* being deleted and waits for it.
RecordedBindingsGo ==
    \A b \in ServiceBindings :
        Deleting(binding[b]) /\ binding[b].id ~>
            \/ binding[b].phase = "gone"
            \/ instance[InstanceRef[b]].phase = "gone"

\* A deleted instance goes away once no binding is left to block it.
InstancesGo ==
    \A i \in ServiceInstances :
        Deleting(instance[i]) ~>
            \/ instance[i].phase = "gone"
            \/ \E b \in ServiceBindings : InstanceRef[b] = i /\ Exists(binding[b])
=============================================================================
