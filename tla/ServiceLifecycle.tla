-------------------------- MODULE ServiceLifecycle --------------------------
(***************************************************************************)
(* The lifecycle's controller in its environment: users, the controllers   *)
(* of its children and of the instances, informers, the resync, restarts.  *)
(***************************************************************************)
EXTENDS ServiceLifecycleController

-----------------------------------------------------------------------------
(* Users, and the world outside *)

Changes ==
    /\ changes < MaxChanges
    /\ changes' = changes + 1

LifecycleCreated ==
    /\ Changes
    /\ lifecycle.phase = "absent"
    /\ lifecycle' = Created(lifecycle.version + 1)
    /\ queued' = TRUE
    /\ UNCHANGED <<children, surroundings, caches, tracked, unannounced, faults>>

\* Also of one that is being deleted.
LifecycleEdited ==
    /\ Changes
    /\ lifecycle.phase # "absent"
    /\ lifecycle' = [lifecycle EXCEPT !.version = @ + 1, !.observed = FALSE]
    /\ queued' = TRUE
    /\ UNCHANGED <<children, surroundings, caches, tracked, unannounced, faults>>

\* Deletion is a generation of its own.
LifecycleDeleted ==
    /\ Changes
    /\ lifecycle.phase = "live"
    /\ lifecycle' = IF lifecycle.finalizer
                    THEN [lifecycle EXCEPT !.phase = "deleting", !.observed = FALSE]
                    ELSE Absent(lifecycle.version)
    /\ queued' = lifecycle.finalizer
    /\ UNCHANGED <<children, surroundings, caches, tracked, unannounced, faults>>

\* A user deletes a child that informers know of; they will tell.
ChildDeleted ==
    /\ Changes
    /\ \/ /\ composition.name # 0 /\ cachedComposition.name = composition.name
          /\ composition' = NoComposition
          /\ UNCHANGED httpTrigger
       \/ /\ IsOurs(httpTrigger) /\ IsOurs(cachedHttpTrigger)
          /\ httpTrigger' = NoTrigger
          /\ UNCHANGED composition
    /\ UNCHANGED <<lifecycle, made, surroundings, caches, requests, faults>>

\* Another owner's trigger of the name comes or goes; nobody tells.
NameIsTaken ==
    /\ Changes
    /\ httpTrigger.owner = "none" /\ httpTrigger' = OthersTrigger
    /\ UNCHANGED <<lifecycle, composition, made, surroundings, caches, requests, faults>>

NameIsFreed ==
    /\ Changes
    /\ httpTrigger.owner = "other" /\ httpTrigger' = NoTrigger
    /\ unannounced' = TRUE
    /\ UNCHANGED <<lifecycle, composition, made, surroundings, caches, tracked, queued, faults>>

\* The broker tells who tracks the component.
ClientChanges(state) ==
    /\ Changes
    /\ client # state
    /\ client' = state
    /\ queued' = (queued \/ "client" \in tracked)
    /\ UNCHANGED <<lifecycle, children, instance, caches, tracked, unannounced, faults>>

\* A child's controller changes its mind.
ChildChanges ==
    /\ Changes
    /\ \/ /\ composition.state = "ready" /\ cachedComposition = composition
          /\ composition' = [composition EXCEPT !.state = "notReady"]
          /\ UNCHANGED httpTrigger
       \/ /\ Serving /\ cachedHttpTrigger = httpTrigger
          /\ httpTrigger' = [httpTrigger EXCEPT !.state = "notReady"]
          /\ UNCHANGED composition
    /\ UNCHANGED <<lifecycle, made, surroundings, caches, requests, faults>>

-----------------------------------------------------------------------------
(* The controllers of the children report on what they were given.  The     *)
(* cache holds a copy, not events: two changes that undo each other are told *)
(* apart by having the first arrive before the second is made.              *)

CompositionReports(state) ==
    /\ composition.name # 0
    /\ composition.state \in {"pending", "notReady"} \ {state}
    /\ composition.state = "notReady" => cachedComposition = composition
    /\ composition' = [composition EXCEPT !.state = state]
    /\ UNCHANGED <<lifecycle, httpTrigger, made, surroundings, caches, requests, changes, faults>>

TriggerReports(state) ==
    /\ IsOurs(httpTrigger)
    /\ httpTrigger.state \in {"pending", "notReady"} \ {state}
    /\ httpTrigger.state = "notReady" => cachedHttpTrigger = httpTrigger
    /\ httpTrigger' = [httpTrigger EXCEPT !.state = state]
    /\ UNCHANGED <<lifecycle, composition, made, surroundings, caches, requests, changes, faults>>

ClientReports(state) ==
    /\ client = "pending"
    /\ client' = state
    /\ queued' = (queued \/ "client" \in tracked)
    /\ UNCHANGED <<lifecycle, children, instance, caches, tracked, unannounced, changes, faults>>

-----------------------------------------------------------------------------
(* Instances: see ServiceInstanceController for what their deletion takes  *)

InstanceCreated(i) ==
    /\ Changes
    /\ instance[i] = "absent"
    /\ instance' = [instance EXCEPT ![i] = "live"]
    /\ UNCHANGED <<lifecycle, children, client, caches, requests, faults>>

InstanceDeleted(i) ==
    /\ instance[i] = "live"
    /\ instance' = [instance EXCEPT ![i] = "deleting"]
    /\ UNCHANGED <<lifecycle, children, client, caches, requests, changes, faults>>

\* An instance goes only while its lifecycle is Ready, and when the service has
\* destroyed it.
InstanceFinalized(i) ==
    /\ instance[i] = "deleting"
    /\ Availability = "ready" /\ Serving
    /\ instance' = [instance EXCEPT ![i] = "absent"]
    /\ UNCHANGED <<lifecycle, children, client, caches, requests, changes, faults>>

-----------------------------------------------------------------------------
(* Informers, the resync, restarts *)

SyncComposition ==
    /\ cachedComposition # composition
    /\ cachedComposition' = composition
    /\ queued' = (lifecycle.phase # "absent")
    /\ UNCHANGED <<lifecycle, children, surroundings, cachedHttpTrigger, cachedInstances,
                   tracked, unannounced, changes, faults>>

\* Another's trigger is not told of.
SyncTrigger ==
    /\ cachedHttpTrigger # httpTrigger
    /\ cachedHttpTrigger' = httpTrigger
    /\ queued' = (queued \/ /\ lifecycle.phase # "absent"
                            /\ IsOurs(httpTrigger) \/ IsOurs(cachedHttpTrigger))
    /\ UNCHANGED <<lifecycle, children, surroundings, cachedComposition, cachedInstances,
                   tracked, unannounced, changes, faults>>

InstanceListed(i) == i \in cachedInstances
InstanceExists(i) == instance[i] # "absent"

SyncInstance(i) ==
    /\ InstanceListed(i) # InstanceExists(i)
    /\ cachedInstances' = IF InstanceExists(i)
                          THEN cachedInstances \union {i} ELSE cachedInstances \ {i}
    /\ queued' = (queued \/ (i \in tracked /\ lifecycle.phase # "absent"))
    /\ UNCHANGED <<lifecycle, children, surroundings, cachedComposition, cachedHttpTrigger,
                   tracked, unannounced, changes, faults>>

\* Every ten hours every object is queued; it only makes a difference for one
\* that was not told of a change.
Resync ==
    /\ unannounced
    /\ unannounced' = FALSE
    /\ queued' = (lifecycle.phase # "absent")
    /\ UNCHANGED <<lifecycle, children, surroundings, caches, tracked, changes, faults>>

\* A new process lists every object and queues it, and tracks nothing.
Restart ==
    /\ faults < MaxFaults
    /\ faults' = faults + 1
    /\ cachedComposition' = composition
    /\ cachedHttpTrigger' = httpTrigger
    /\ cachedInstances' = {i \in ServiceInstances : InstanceExists(i)}
    /\ tracked' = {}
    /\ queued' = (lifecycle.phase # "absent")
    /\ unannounced' = FALSE
    /\ UNCHANGED <<lifecycle, children, surroundings, changes>>

-----------------------------------------------------------------------------
Init == StoreInit

EnvironmentNext ==
    \/ LifecycleCreated \/ LifecycleEdited \/ LifecycleDeleted
    \/ ChildDeleted \/ ChildChanges \/ NameIsTaken \/ NameIsFreed
    \/ \E state \in Conditions \union {"missing"} : ClientChanges(state)
    \/ \E state \in {"notReady", "ready"} :
          CompositionReports(state) \/ TriggerReports(state) \/ ClientReports(state)
    \/ \E i \in ServiceInstances :
          InstanceCreated(i) \/ InstanceDeleted(i) \/ InstanceFinalized(i) \/ SyncInstance(i)
    \/ SyncComposition \/ SyncTrigger
    \/ Resync \/ Restart

Next == ControllerNext \/ EnvironmentNext

Spec == Init /\ [][Next]_vars
=============================================================================
