----------------------------- MODULE Containers -----------------------------
(***************************************************************************)
(* The ComponentContainerImage controller and the controllers of the four  *)
(* kinds of triggers.  A request is one step: it writes its own status only *)
(* if its object is still the one it read, and whatever can come between    *)
(* its other writes is a request that fails after some of them.            *)
(***************************************************************************)
EXTENDS TriggerStore

TriggerReaders == IF trigger' = trigger THEN {} ELSE {"trigger"}

-----------------------------------------------------------------------------
(* The ComponentContainerImage                                             *)

\* ResolveComponent, ResolveImage and ResolveRepository all run; the pending
\* ones among them keep the status from being written.
Blocked(c) == "pending" \in {component[c.ref].state, image.state, repository}

Resolved(c) == {component[c.ref].state, image.state, repository} = {"ready"}

\* AppendComponent, ReflectComponentableStatus.
AppendComponent(c) ==
    [c EXCEPT !.observed = TRUE, !.ready = TRUE,
              !.image = Built(c.ref, component[c.ref].version, image.runtime)]

\* The status keeps the image it had.  Without its credentials, which the
\* repository is yet to notice, nothing is said of the image, and this
\* controller does not watch Secrets: whether it is written as an answer is up
\* to SuppressTransientErrors.  A registry that fails the pull or the push has
\* the request repeated.
ReconcileContainerImage ==
    /\ "container" \in queued
    /\ container.exists => cachedContainer = container
    /\ \/ /\ container.exists => Blocked(container)
          /\ UNCHANGED container
          /\ Done("container", {})
       \/ /\ container.exists /\ ~Blocked(container) /\ ~Resolved(container)
          /\ container' = [container EXCEPT !.observed = TRUE, !.ready = FALSE]
          /\ Done("container", {})
       \/ /\ container.exists /\ Resolved(container)
          /\ access = "noCredentials"
          /\ container' \in {container, [container EXCEPT !.observed = TRUE]}
          /\ queued' = queued \ {"container"}
          /\ unannounced' = unannounced \union {"container"}
       \/ /\ container.exists /\ Resolved(container)
          /\ access = "granted"
          /\ container' = AppendComponent(container)
          /\ Done("container", {})
    /\ UNCHANGED <<sources, registries, workload, service, trigger, caches, changes, faults>>

-----------------------------------------------------------------------------
(* The trigger: each stage says what is to become of the child it sees to  *)

\* The runtime looks for a child in its cache: one that is not there yet
\* must not be made a second time.
Delivered(child, cached) == child.exists => cached.exists

DesiredContainer ==
    IF cachedContainer.exists
    THEN [cachedContainer EXCEPT !.ref = trigger.ref,
                                 !.observed = @ /\ cachedContainer.ref = trigger.ref]
    ELSE [NoContainer EXCEPT !.exists = TRUE, !.ref = trigger.ref]

ContainerIsCurrent == DesiredContainer = cachedContainer

DesiredWorkload(img) ==
    IF cachedWorkload.exists
    THEN [cachedWorkload EXCEPT !.image = img,
                                !.observed = @ /\ cachedWorkload.image = img]
    ELSE [NoWorkload EXCEPT !.exists = TRUE, !.image = img]

WorkloadIsCurrent(img) == DesiredWorkload(img) = cachedWorkload

DeploymentReady(w) == w.serving # NoImage /\ w.updated
KnativeServiceReady(w) == w.serving = w.image

\* A CronJob is ready once it exists.
WorkloadReady(w) ==
    CASE trigger.kind \in {"http", "wrpc"} -> DeploymentReady(w)
      [] trigger.kind = "knative"          -> KnativeServiceReady(w)
      [] trigger.kind = "cron"             -> TRUE

NoContainerReady(t) == [t EXCEPT !.observed = TRUE, !.imageReady = FALSE]

\* ErrTransient: no error is repeated, and whether the status is written
\* is up to SuppressTransientErrors.
Transient(t) == trigger' \in {trigger, t}

\* ComponentContainerImageChildReconciler halts the request here: the image
\* was just made or changed, cannot be changed as it is not the one that was
\* read, is not reconciled yet, or is not ready.
WaitForContainer ==
    \/ /\ ~ContainerIsCurrent
       /\ container = cachedContainer
       /\ container' = DesiredContainer
       /\ UNCHANGED trigger
    \/ /\ ~ContainerIsCurrent
       /\ container # cachedContainer
       /\ Transient(NoContainerReady(trigger))
       /\ UNCHANGED container
    \/ /\ ContainerIsCurrent /\ ~cachedContainer.observed
       /\ UNCHANGED <<container, trigger>>
    \/ /\ ContainerIsCurrent /\ cachedContainer.observed /\ ~cachedContainer.ready
       /\ trigger' = NoContainerReady(trigger)
       /\ UNCHANGED container

\* Wrong: the image is taken as it is.
ContainerExists == ContainerIsCurrent

\* The image is of the spec there is now.
ContainerReady ==
    /\ ContainerIsCurrent
    /\ cachedContainer.observed
    /\ cachedContainer.ready

\* Its status is then the trigger's.
ReflectImage ==
    [trigger EXCEPT !.observed = TRUE, !.imageReady = TRUE, !.image = cachedContainer.image]

\* The Service is made, or is in the hands of another trigger.
ManageService(t) ==
    IF HasService(t)
    THEN /\ service' = IF service = "free" THEN "own" ELSE service
         /\ trigger' = [t EXCEPT !.serviceReady = service # "other"]
    ELSE /\ trigger' = t
         /\ UNCHANGED service

\* A CronJob is not waited for, the other workloads are until observed.
ManageWorkload(t) ==
    \/ /\ ~WorkloadIsCurrent(t.image)
       /\ workload = cachedWorkload
       /\ workload' = DesiredWorkload(t.image)
       /\ \/ /\ trigger.kind = "cron"
             /\ ManageService([t EXCEPT !.workloadReady = TRUE])
          \/ /\ trigger.kind # "cron"
             /\ UNCHANGED <<trigger, service>>
    \/ /\ ~WorkloadIsCurrent(t.image)
       /\ workload # cachedWorkload
       /\ Transient([t EXCEPT !.workloadReady = FALSE])
       /\ UNCHANGED <<workload, service>>
    \/ /\ WorkloadIsCurrent(t.image)
       /\ trigger.kind # "cron" /\ ~cachedWorkload.observed
       /\ UNCHANGED <<workload, trigger, service>>
    \/ /\ WorkloadIsCurrent(t.image)
       /\ trigger.kind = "cron" \/ cachedWorkload.observed
       /\ ManageService([t EXCEPT !.workloadReady = WorkloadReady(cachedWorkload)])
       /\ UNCHANGED workload

TriggerRequest ==
    /\ "trigger" \in queued
    /\ Delivered(container, cachedContainer)
    /\ Delivered(workload, cachedWorkload)

ReconcileTrigger ==
    /\ TriggerRequest
    /\ \/ /\ WaitForContainer
          /\ UNCHANGED <<workload, service>>
       \/ /\ ContainerReady
          /\ ManageWorkload(ReflectImage)
          /\ UNCHANGED container
    /\ Done("trigger", TriggerReaders)
    /\ UNCHANGED <<sources, registries, caches, changes, faults>>

\* A call of the request fails.  The children may have been written, and the
\* request be repeated because of its status; or a child was not, and it is
\* not repeated.
TriggerRequestFails ==
    /\ faults < MaxFaults
    /\ faults' = faults + 1
    /\ TriggerRequest
    /\ \/ /\ ContainerReady /\ workload = cachedWorkload
          /\ workload' = DesiredWorkload(cachedContainer.image)
          /\ service' = IF HasService(trigger) /\ service = "free" /\ workload' = workload
                        THEN "own" ELSE service
          /\ UNCHANGED <<trigger, container, queued, unannounced>>
       \/ /\ ~ContainerIsCurrent /\ container = cachedContainer
          /\ container' \in {container, DesiredContainer}
          /\ Transient(NoContainerReady(trigger))
          /\ queued' = queued \ {"trigger"}
          /\ unannounced' = unannounced \union {"trigger"}
          /\ UNCHANGED <<workload, service>>
       \/ /\ ContainerReady
          /\ \/ ~WorkloadIsCurrent(cachedContainer.image)
             \/ HasService(trigger) /\ service = "free"
          /\ Transient([ReflectImage EXCEPT !.workloadReady = FALSE, !.serviceReady = FALSE])
          /\ queued' = queued \ {"trigger"}
          /\ unannounced' = unannounced \union {"trigger"}
          /\ UNCHANGED children
    /\ UNCHANGED <<sources, registries, caches, changes>>

ContainersNext == ReconcileContainerImage \/ ReconcileTrigger \/ TriggerRequestFails
=============================================================================
