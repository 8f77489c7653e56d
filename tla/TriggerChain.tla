---------------------------- MODULE TriggerChain ----------------------------
(***************************************************************************)
(* The controllers from the Repository to the workload of a trigger in     *)
(* their environment: users, components and registries that change,        *)
(* Kubernetes rolling out workloads, informers, the resync and restarts.   *)
(***************************************************************************)
EXTENDS Registries, Containers

-----------------------------------------------------------------------------
(* The world outside *)

Changes ==
    /\ changes < MaxChanges
    /\ changes' = changes + 1

\* Repositories and images are told of the Secret of the credentials; nobody is
\* of what the registry allows.
AccessChanges ==
    /\ Changes
    /\ access' \in Accesses \ {access}
    /\ IF "noCredentials" \in {access, access'}
       THEN /\ queued' = queued \union {"repository", "image"}
            /\ unannounced' = unannounced \ {"repository", "image"}
       ELSE /\ unannounced' = unannounced \union {"repository"}
            /\ UNCHANGED queued
    /\ UNCHANGED <<tag, component, registries, children, trigger, caches, faults>>

\* Another version of the runtime is tagged, which nobody hears of.
TagMoves ==
    /\ Changes
    /\ tag' = tag + 1
    /\ unannounced' = unannounced \union {"image"}
    /\ UNCHANGED <<access, component, registries, children, trigger, caches, queued, faults>>

\* A component is published, or is not to be had.  The ComponentContainerImage
\* tracks the one it refers to.
ComponentChanges(c) ==
    /\ Changes
    /\ \E state \in (Conditions \union {"missing"}) :
          /\ state = "ready" \/ state # component[c].state
          /\ component' = [component EXCEPT
                ![c] = [state |-> state,
                        version |-> IF state = "ready" THEN @.version + 1 ELSE @.version]]
    /\ queued' = queued \union {"container"}
    /\ UNCHANGED <<access, tag, registries, children, trigger, caches, unannounced, faults>>

\* A user edits the Repository.
RepositoryEdited ==
    /\ Changes
    /\ repository' = "pending"
    /\ queued' = queued \union {"repository", "image", "container"}
    /\ UNCHANGED <<sources, image, children, trigger, caches, unannounced, faults>>

TriggerEdited(c) ==
    /\ Changes
    /\ c # trigger.ref
    /\ trigger' = [trigger EXCEPT !.ref = c, !.observed = FALSE]
    /\ queued' = queued \union {"trigger"}
    /\ UNCHANGED <<sources, registries, children, caches, unannounced, faults>>

\* A user deletes a child of the trigger that informers know of; they will tell.
ChildDeleted ==
    /\ Changes
    /\ \/ /\ container.exists /\ cachedContainer.exists
          /\ container' = NoContainer
          /\ UNCHANGED <<workload, service, queued>>
       \/ /\ workload.exists /\ cachedWorkload.exists
          /\ workload' = NoWorkload
          /\ UNCHANGED <<container, service, queued>>
       \/ /\ service = "own"
          /\ service' = "free"
          /\ queued' = queued \union {"trigger"}
          /\ UNCHANGED <<container, workload>>
    /\ UNCHANGED <<sources, registries, trigger, caches, unannounced, faults>>

\* A trigger of another kind but the same name comes or goes, with its Service.
NameIsTaken ==
    /\ Changes
    /\ service = "free" /\ service' = "other"
    /\ UNCHANGED <<sources, registries, container, workload, trigger, caches, queued,
                   unannounced, faults>>

NameIsFreed ==
    /\ Changes
    /\ service = "other" /\ service' = "free"
    /\ unannounced' = unannounced \union (IF HasService(trigger) THEN {"trigger"} ELSE {})
    /\ UNCHANGED <<sources, registries, container, workload, trigger, caches, queued, faults>>

-----------------------------------------------------------------------------
(* Kubernetes, or Knative, rolls out a workload: it observes it, starts pods *)
(* of its image, and stops the old ones when these are ready               *)

Rollout(w) ==
    /\ workload.exists
    /\ workload' = w
    /\ UNCHANGED <<sources, registries, container, service, trigger, caches, queued,
                   unannounced, changes, faults>>

WorkloadObserved ==
    /\ ~workload.observed
    /\ Rollout([workload EXCEPT !.observed = TRUE, !.updated = workload.serving = workload.image])

PodsStarted ==
    /\ workload.observed /\ ~workload.updated
    /\ Rollout([workload EXCEPT !.updated = TRUE])

\* The cache holds a copy, not events: two changes that undo each other are
\* told apart by having the first arrive before the second is made.
PodsAreKnown == cachedWorkload.serving = workload.serving

PodsReady ==
    /\ workload.updated /\ workload.observed
    /\ PodsAreKnown
    /\ workload.serving # workload.image
    /\ workload.image.version \notin Broken
    /\ Rollout([workload EXCEPT !.serving = workload.image])

\* The pods stop being ready.
PodsFail ==
    /\ Changes
    /\ PodsAreKnown
    /\ workload.serving # NoImage
    /\ workload' = [workload EXCEPT !.serving = NoImage]
    /\ UNCHANGED <<sources, registries, container, service, trigger, caches, queued,
                   unannounced, faults>>

-----------------------------------------------------------------------------
(* Informers, the resync, restarts *)

SyncContainer ==
    /\ cachedContainer # container
    /\ cachedContainer' = container
    /\ queued' = queued \union {"trigger", "container"}
    /\ UNCHANGED <<sources, registries, children, trigger, cachedWorkload, unannounced,
                   changes, faults>>

SyncWorkload ==
    /\ cachedWorkload # workload
    /\ cachedWorkload' = workload
    /\ queued' = queued \union {"trigger"}
    /\ UNCHANGED <<sources, registries, children, trigger, cachedContainer, unannounced,
                   changes, faults>>

\* Every ten hours every object is queued; it only makes a difference for
\* those that were not told of a change.
Resync(x) ==
    /\ x \in unannounced
    /\ Done(x, {x})
    /\ UNCHANGED <<sources, registries, children, trigger, caches, changes, faults>>

\* A new process lists every object and queues it.
Restart ==
    /\ faults < MaxFaults
    /\ faults' = faults + 1
    /\ cachedContainer' = container
    /\ cachedWorkload' = workload
    /\ queued' = Controllers
    /\ unannounced' = {}
    /\ UNCHANGED <<sources, registries, children, trigger, changes>>

-----------------------------------------------------------------------------
Init == ChainInit

EnvironmentNext ==
    \/ AccessChanges \/ TagMoves \/ RepositoryEdited \/ ChildDeleted \/ NameIsTaken \/ NameIsFreed
    \/ \E c \in Components : ComponentChanges(c) \/ TriggerEdited(c)
    \/ WorkloadObserved \/ PodsStarted \/ PodsReady \/ PodsFail
    \/ SyncContainer \/ SyncWorkload
    \/ \E x \in Controllers : Resync(x)
    \/ Restart

Next == RegistriesNext \/ ContainersNext \/ EnvironmentNext

Spec == Init /\ [][Next]_vars
=============================================================================
