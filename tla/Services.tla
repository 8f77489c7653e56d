------------------------------ MODULE Services ------------------------------
(***************************************************************************)
(* The services integration at work: both reconcilers over the shared      *)
(* store, the users of the API, the informers, the passing of time, the    *)
(* remote lifecycle service and faults of the controller process.          *)
(***************************************************************************)
EXTENDS ServiceInstanceController, ServiceBindingController

controllers == <<instanceWorker, bindingWorker>>

-----------------------------------------------------------------------------
(* Users.  The admission webhooks reject any update of a spec or of a      *)
(* recorded id, so creating and deleting is all a user can do.             *)

CreateInstance(i) ==
    /\ instance[i].phase = "absent"
    /\ instance' = [instance EXCEPT ![i].phase = "live"]
    /\ UNCHANGED <<lifecycle, binding, secret, client, elapsed, caches, remote,
                   controllers, faults>>

\* The generation of an object is bumped when its deletion is requested.
DeleteInstance(i) ==
    /\ Live(instance[i])
    /\ instance' = [instance EXCEPT ![i] = [DeleteRequested(@) EXCEPT !.observed = FALSE]]
    /\ UNCHANGED <<lifecycle, binding, secret, client, elapsed, caches, remote,
                   controllers, faults>>

CreateBinding(b) ==
    /\ binding[b].phase = "absent"
    /\ binding' = [binding EXCEPT ![b].phase = "live"]
    /\ UNCHANGED <<lifecycle, instance, secret, client, elapsed, caches, remote,
                   controllers, faults>>

DeleteBinding(b) ==
    /\ Live(binding[b])
    /\ binding' = [binding EXCEPT ![b] = DeleteRequested(@)]
    /\ UNCHANGED <<lifecycle, instance, secret, client, elapsed, caches, remote,
                   controllers, faults>>

-----------------------------------------------------------------------------
(* Environment *)

\* The lifecycle goes only when its finalizer finds no cached instance.
LifecycleChanges(to) ==
    /\ lifecycle # to
    /\ to \in LifecycleOutages \union {"ready"}
    /\ to = "absent" => \A i \in ServiceInstances : ~Exists(cachedInstance[i])
    /\ lifecycle' = to
    /\ UNCHANGED <<instance, binding, secret, client, elapsed, caches, remote,
                   controllers, faults>>

\* The Composition reconciler observes the client and later changes its mind.
ClientReconciles(b, to) ==
    /\ client[b] \notin {"absent", to}
    /\ to \in ClientOutcomes
    /\ client' = [client EXCEPT ![b] = to]
    /\ UNCHANGED <<lifecycle, instance, binding, secret, elapsed, caches, remote,
                   controllers, faults>>

DurationElapses(b) ==
    /\ b \in ShortLived
    /\ Exists(binding[b])
    /\ ~elapsed[b]
    /\ elapsed' = [elapsed EXCEPT ![b] = TRUE]
    /\ UNCHANGED <<objects, caches, remote, controllers, faults>>

SyncInstance(i) ==
    /\ cachedInstance[i] # instance[i]
    /\ cachedInstance' = [cachedInstance EXCEPT ![i] = instance[i]]
    /\ UNCHANGED <<objects, elapsed, cachedBinding, remote, controllers, faults>>

SyncBinding(b) ==
    /\ cachedBinding[b] # binding[b]
    /\ cachedBinding' = [cachedBinding EXCEPT ![b] = binding[b]]
    /\ UNCHANGED <<objects, elapsed, cachedInstance, remote, controllers, faults>>

\* The process restarts: the requests in flight are lost, the caches are new.
Crash ==
    /\ faults < MaxFaults
    /\ faults' = faults + 1
    /\ controllers # <<Idle, Idle>>
    /\ instanceWorker' = Idle
    /\ bindingWorker' = Idle
    /\ cachedInstance' = instance
    /\ cachedBinding' = binding
    /\ UNCHANGED <<objects, elapsed, remote>>

\* An API call of a request fails, which ends the request with an error.  For
\* the client Composition the error and what came before it are recorded.
RequestFails ==
    /\ faults < MaxFaults
    /\ faults' = faults + 1
    /\ \/ /\ instanceWorker # Idle
          /\ instanceWorker' = Idle
          /\ UNCHANGED bindingWorker
       \/ /\ bindingWorker.pc \notin {"idle", "client"}
          /\ bindingWorker' = Idle
          /\ UNCHANGED instanceWorker
       \/ /\ bindingWorker.pc = "client"
          /\ bindingWorker' = BindingWrites(bindingWorker,
                                           [bindingWorker.want EXCEPT !.ready = FALSE])
          /\ UNCHANGED instanceWorker
    /\ UNCHANGED <<objects, elapsed, caches, remote>>

-----------------------------------------------------------------------------
Init == StoreInit

UserNext ==
    \/ \E i \in ServiceInstances : CreateInstance(i) \/ DeleteInstance(i)
    \/ \E b \in ServiceBindings : CreateBinding(b) \/ DeleteBinding(b)

EnvironmentNext ==
    \/ \E to \in LifecycleStates : LifecycleChanges(to)
    \/ \E b \in ServiceBindings, to \in ClientStates : ClientReconciles(b, to)
    \/ \E b \in ServiceBindings : DurationElapses(b) \/ SyncBinding(b)
    \/ \E i \in ServiceInstances : SyncInstance(i)
    \/ Crash
    \/ RequestFails

Next == InstanceNext \/ BindingNext \/ UserNext \/ EnvironmentNext

Spec == Init /\ [][Next]_vars
=============================================================================
